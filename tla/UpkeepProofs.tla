---------------------------- MODULE UpkeepProofs ----------------------------
(***************************************************************************)
(* What keeps the installation running: the taxonomy of quality tags, the  *)
(* settings, the link to Real-Debrid, downloads of its history, and the    *)
(* promotion of a release to production.                                   *)
(***************************************************************************)
EXTENDS QualityTaxonomy, Settings, RealDebridLink, HistoryDownload, Promotion, TLAPS

-----------------------------------------------------------------------------
(* The configuration: the taxonomy, the settings, the link to Real-Debrid  *)
(* and downloads of its history.                                           *)

(* Edits of a taxonomy.                                                      *)

LEMMA AddedType ==
    ASSUME NEW tax \in Taxonomy, NEW n \in Names, NEW g \in Groups, NEW hasRank \in BOOLEAN,
           NEW at \in [Names -> Places]
    PROVE  Added(tax, n, g, hasRank, at) \in Taxonomy
<1>. DEFINE ranked == IF hasRank THEN [tax.ranked EXCEPT ![g] = @ \cup {n}] ELSE tax.ranked
            rank == IF hasRank THEN [tax.rank EXCEPT ![g] = at] ELSE tax.rank
<1>1. tax.options \cup {n} \in SUBSET Names /\ [tax.group EXCEPT ![n] = g] \in [Names -> Groups]
  BY DEF Taxonomy
<1>2. tax.ranked \in [Groups -> SUBSET Names] /\ tax.rank \in [Groups -> [Names -> Places]]
  BY DEF Taxonomy
<1>3. ranked \in [Groups -> SUBSET Names]
  <2>1. tax.ranked[g] \cup {n} \in SUBSET Names
    BY <1>2
  <2>. QED BY <1>2, <2>1
<1>4. rank \in [Groups -> [Names -> Places]]
  BY <1>2
<1>5. Added(tax, n, g, hasRank, at)
        = [tax EXCEPT !.options = tax.options \cup {n}, !.group = [tax.group EXCEPT ![n] = g],
                      !.ranked = ranked, !.rank = rank]
  BY DEF Added
<1>. HIDE DEF ranked, rank
<1>. QED BY <1>1, <1>3, <1>4, <1>5 DEF Taxonomy

LEMMA RemovedType ==
    ASSUME NEW tax \in Taxonomy, NEW n
    PROVE  Removed(tax, n) \in Taxonomy
<1>1. /\ tax.options \ {n} \in SUBSET Names
      /\ {a \in tax.aliases : tax.alias[a] # n /\ a # n} \in SUBSET Names
      /\ [b \in Names |-> tax.bundle[b] \ {n}] \in [Names -> SUBSET Names]
      /\ [g \in Groups |-> tax.ranked[g] \ {n}] \in [Groups -> SUBSET Names]
  BY DEF Taxonomy
<1>. QED BY <1>1 DEF Removed, Taxonomy

LEMMA SwappedType ==
    ASSUME NEW tax \in Taxonomy, NEW g \in Groups, NEW n \in Names, NEW m \in Names
    PROVE  Swapped(tax, g, n, m) \in Taxonomy
<1>1. /\ tax.rank \in [Groups -> [Names -> Places]]
      /\ tax.rank[g] \in [Names -> Places]
      /\ tax.rank[g][n] \in Places /\ tax.rank[g][m] \in Places
  BY DEF Taxonomy
<1>2. [tax.rank[g] EXCEPT ![n] = tax.rank[g][m], ![m] = tax.rank[g][n]] \in [Names -> Places]
  BY <1>1
<1>3. [tax.rank EXCEPT ![g] = [tax.rank[g] EXCEPT ![n] = tax.rank[g][m], ![m] = tax.rank[g][n]]]
        \in [Groups -> [Names -> Places]]
  BY <1>1, <1>2
<1>. QED BY <1>3 DEF Swapped, Taxonomy

\* Removing an option takes it out of bundles, aliases and ranks as well: what was a
\* valid taxonomy stays one, so the route cannot be refused (remove_quality_taxonomy_
\* option).
THEOREM RemovalStaysValid ==
    ASSUME NEW tax \in Taxonomy, Valid(tax), NEW n
    PROVE  Valid(Removed(tax, n))
<1>. DEFINE r == Removed(tax, n)
<1>1. /\ r.groups = tax.groups /\ r.options = tax.options \ {n} /\ r.group = tax.group
      /\ r.bundled = tax.bundled /\ r.alias = tax.alias /\ r.rank = tax.rank
      /\ r.bundle = [b \in Names |-> tax.bundle[b] \ {n}]
      /\ r.ranked = [g \in Groups |-> tax.ranked[g] \ {n}]
      /\ r.aliases = {a \in tax.aliases : tax.alias[a] # n /\ a # n}
  BY DEF Removed, Taxonomy
<1>2. tax.bundled \subseteq Names
  BY DEF Taxonomy
<1>. HIDE DEF r
<1>3. /\ \A m \in r.options : r.group[m] \in r.groups
      /\ r.bundled \cap r.options = {}
      /\ r.aliases \cap (r.options \cup r.bundled) = {}
      /\ \A a \in r.aliases : r.alias[a] \in r.options
  BY <1>1 DEF Valid
<1>4. ASSUME NEW b \in r.bundled
      PROVE  r.bundle[b] \subseteq r.options
  <2>1. b \in Names /\ b \in tax.bundled
    BY <1>1, <1>2
  <2>2. tax.bundle[b] \subseteq tax.options
    BY <2>1 DEF Valid
  <2>. QED BY <1>1, <2>1, <2>2
<1>5. ASSUME NEW g \in Groups
      PROVE  /\ r.ranked[g] \subseteq r.options
             /\ \A m, k \in r.ranked[g] : r.rank[g][m] = r.rank[g][k] => m = k
  BY <1>1 DEF Valid
<1>6. Valid(r)
  BY <1>3, <1>4, <1>5 DEF Valid
<1>. QED BY <1>6 DEF r

\* A rule whose only tag was the removed option constrains nothing any more: its tags
\* expand to none (expand_quality_tokens), and the group loses its part of the pattern.
THEOREM RemovalUnbinds ==
    ASSUME NEW tax \in Taxonomy, Valid(tax), NEW n \in tax.options
    PROVE  Normal(Removed(tax, n), {n}) = {}
<1>. DEFINE r == Removed(tax, n)
<1>1. /\ r.options = tax.options \ {n} /\ r.bundled = tax.bundled /\ r.alias = tax.alias
      /\ r.aliases = {a \in tax.aliases : tax.alias[a] # n /\ a # n}
  BY DEF Removed, Taxonomy
<1>2. n \notin r.bundled /\ n \notin r.aliases /\ n \notin r.options
  BY <1>1 DEF Valid
<1>. HIDE DEF r
<1>3. Resolved(r, n) = {}
  BY <1>2 DEF Resolved
<1>. QED BY <1>3 DEF Normal, r

\* Without the option "full_hd" in the rank of resolutions the managed profile "At Least
\* Full HD" includes and excludes nothing: it accepts every resolution.
THEOREM NoThresholdNoProfile ==
    ASSUME NEW tax \in Taxonomy, Resolution \in Groups
    PROVE  /\ HdProfile(Removed(tax, FullHd)).include = {}
           /\ HdProfile(Removed(tax, FullHd)).exclude = {}
<1>. DEFINE r == Removed(tax, FullHd)
<1>1. FullHd \notin r.ranked[Resolution]
  BY DEF Removed, Taxonomy
<1>. HIDE DEF r
<1>2. HdProfile(r).include = {} /\ HdProfile(r).exclude = {}
  BY <1>1 DEF HdProfile, AtOrAbove, Below
<1>. QED BY <1>2 DEF r

\* A number that is added to a rank lands before the first greater one, whatever names
\* stand in front of that: with "ultra_hd" there, "1440p" counts as Ultra HD.
THEOREM InsertedAbove ==
    ASSUME TaxonomyOK, NEW tax \in Taxonomy, NEW g \in Groups, NEW n \in Names,
           NEW at \in [Names -> Places],
           NEW threshold \in tax.ranked[g], n # threshold,
           Inserted(tax.ranked[g], tax.rank[g], n, at),
           \A m \in Greater(tax.ranked[g], n) : tax.rank[g][m] > tax.rank[g][threshold]
    PROVE  n \in AtOrAbove(Added(tax, n, g, TRUE, at), g, threshold)
<1>. DEFINE new == Added(tax, n, g, TRUE, at)
<1>1. new.ranked[g] = tax.ranked[g] \cup {n} /\ new.rank[g] = at
  <2>1. tax.ranked \in [Groups -> SUBSET Names] /\ tax.rank \in [Groups -> [Names -> Places]]
    BY DEF Taxonomy
  <2>2. new = [tax EXCEPT !.options = tax.options \cup {n}, !.group = [tax.group EXCEPT ![n] = g],
                          !.ranked = [tax.ranked EXCEPT ![g] = tax.ranked[g] \cup {n}],
                          !.rank = [tax.rank EXCEPT ![g] = at]]
    BY DEF Added
  <2>3. /\ new.ranked = [tax.ranked EXCEPT ![g] = tax.ranked[g] \cup {n}]
        /\ new.rank = [tax.rank EXCEPT ![g] = at]
    BY <2>2 DEF Taxonomy
  <2>. QED BY <2>1, <2>3
<1>2. /\ tax.rank[g] \in [Names -> Places] /\ Places \subseteq Int
      /\ threshold \in Names /\ tax.ranked[g] \subseteq Names
  BY DEF Taxonomy, TaxonomyOK
<1>3. Greater(tax.ranked[g], n) \subseteq Names
  BY <1>2 DEF Greater, Numbered
<1>4. ASSUME NEW m \in Greater(tax.ranked[g], n)
      PROVE  ~(tax.rank[g][m] <= tax.rank[g][threshold])
  <2>1. tax.rank[g][m] > tax.rank[g][threshold]
    OBVIOUS
  <2>2. tax.rank[g][m] \in Int /\ tax.rank[g][threshold] \in Int
    BY <1>2, <1>3
  <2>. QED BY <2>1, <2>2
<1>5. at[threshold] # at[n] /\ ~(at[n] < at[threshold])
  <2>1. /\ at[threshold] # at[n]
        /\ at[n] < at[threshold]
             <=> \E m \in Greater(tax.ranked[g], n) : tax.rank[g][m] <= tax.rank[g][threshold]
    BY Zenon DEF Inserted
  <2>. QED BY <2>1, <1>4
<1>6. at[n] >= at[threshold]
  <2>1. at[n] \in Int /\ at[threshold] \in Int
    BY <1>2
  <2>. QED BY <1>5, <2>1
<1>. HIDE DEF new
<1>7. n \in AtOrAbove(new, g, threshold)
  BY <1>1, <1>6 DEF AtOrAbove
<1>. QED BY <1>7 DEF new

\* A draft that drops a bundle or an alias which rules store is safe to apply as long as
\* it keeps the options: only options are looked at (preview_quality_taxonomy_update).
THEOREM BundlesNeverBlock ==
    ASSUME NEW now \in Taxonomy, NEW new \in Taxonomy, NEW selections,
           now.options \subseteq new.options
    PROVE  ~Blocked(now, new, selections)
BY DEF Blocked

-----------------------------------------------------------------------------
(* The taxonomy beside its caches.                                           *)

\* What readers and the route hold is valid, and what the route holds is what it writes.
HeldValid ==
    /\ \A t \in Threads : reader[t].way \in {"up", "done"} =>
         reader[t].tax \in Taxonomy /\ Valid(reader[t].tax)
    /\ phase # "none" => draft \in Taxonomy /\ Valid(draft)
    /\ phase = "clearing" => file = draft
    /\ phase = "writing" => file = Torn

\* While no read overlapped a write, nobody reads during a write, and the levels above
\* the one to be cleared are empty; between writes all that is held is the file's.
NoOverlap ==
    ~overlap =>
      /\ phase \in {"writing", "clearing"} => ~Reading
      /\ phase = "clearing" => \A l \in Levels : l > level => cache[l] = NoTaxonomy
      /\ phase \in {"none", "checked"} /\ file # Torn =>
           /\ \A l \in Levels : cache[l] \in {file, NoTaxonomy}
           /\ \A t \in Threads : reader[t].way = "up" => reader[t].tax = file

\* A draft keeps what is stored until it is written.
DraftKeeps ==
    ~loose /\ phase \in {"checked", "writing"} =>
      \A h \in Holders : stored[h] \subseteq draft.options \cup HdrNames

TaxonomyInv == /\ TaxonomyTypeOK /\ TaxonomiesValid /\ HeldValid
               /\ NoOverlap /\ NoOrphans /\ DraftKeeps

LEMMA ResolvedOptions ==
    ASSUME NEW tax \in Taxonomy, Valid(tax), NEW S
    PROVE  Normal(tax, S) \subseteq tax.options
BY DEF Normal, Resolved, Valid

LEMMA DefaultOptions ==
    ASSUME NEW tax \in Taxonomy, Valid(tax), Resolution \in Groups, NEW h
    PROVE  Default(tax, h) \subseteq tax.options \cup HdrNames
<1>1. tax.ranked[Resolution] \subseteq tax.options
  BY DEF Valid
<1>. QED BY <1>1 DEF Default, HdProfile, UhdProfile, AtOrAbove, Below

\* What loading the settings stores are options and HDR tags.
LEMMA ReloadedOptions ==
    ASSUME NEW tax \in Taxonomy, Valid(tax), Resolution \in Groups, NEW h, NEW T,
           NEW S \in Reloaded(tax, h, T)
    PROVE  S \subseteq tax.options \cup HdrNames
BY ResolvedOptions, DefaultOptions DEF Reloaded

LEMMA SameOptions ==
    ASSUME NEW tax \in Taxonomy, NEW n \in Names, NEW g \in Groups, NEW hasRank \in BOOLEAN,
           NEW at \in [Names -> Places], NEW m \in Names
    PROVE  /\ tax.options \subseteq Added(tax, n, g, hasRank, at).options
           /\ tax.options \subseteq Swapped(tax, g, n, m).options
           /\ tax.options \ {n} \subseteq Removed(tax, n).options
BY DEF Added, Swapped, Removed, Taxonomy

\* An edit makes a valid taxonomy, which keeps what is stored.
LEMMA EditMakes ==
    ASSUME TaxonomyOK, TaxonomyInv, Edit
    PROVE  /\ draft' \in Taxonomy /\ Valid(draft')
           /\ loose' \in BOOLEAN /\ (loose => loose')
           /\ ~loose' => \A h \in Holders : stored[h] \subseteq draft'.options \cup HdrNames
<1>. file \in Taxonomy /\ loose \in BOOLEAN
  BY DEF TaxonomyInv, TaxonomyTypeOK, Edit
<1>. Valid(draft')
  BY DEF Edit
<1>k. ~loose => \A h \in Holders : stored[h] \subseteq file.options \cup HdrNames
  BY DEF TaxonomyInv, NoOrphans, Edit
<1>1. CASE AddOption
  <2>1. PICK n \in Names, g \in Groups, hasRank \in BOOLEAN, at \in [Names -> Places] :
          draft' = Added(file, n, g, hasRank, at) /\ UNCHANGED loose
    BY <1>1 DEF AddOption
  <2>2. draft' \in Taxonomy /\ file.options \subseteq draft'.options
    BY <2>1, AddedType, SameOptions
  <2>. QED BY <1>k, <2>1, <2>2
<1>2. CASE RemoveOption
  <2>1. PICK n \in Names : /\ draft' = Removed(file, n)
                           /\ loose' = (loose \/ \E h \in Holders : n \in stored[h])
    BY <1>2 DEF RemoveOption
  <2>2. draft' \in Taxonomy
    BY <2>1, RemovedType
  <2>3. file.options \ {n} \subseteq draft'.options
    BY <2>1 DEF Removed, Taxonomy
  <2>. QED BY <1>k, <2>1, <2>2, <2>3
<1>3. CASE MoveOption
  <2>1. PICK n \in file.options, m \in file.options :
          draft' = Swapped(file, file.group[n], n, m) /\ UNCHANGED loose
    BY <1>3 DEF MoveOption
  <2>2. n \in Names /\ m \in Names /\ file.group[n] \in Groups
    BY DEF Taxonomy
  <2>3. draft' \in Taxonomy
    BY <2>1, <2>2, SwappedType
  <2>4. draft'.options = file.options
    BY <2>1 DEF Swapped, Taxonomy
  <2>. QED BY <1>k, <2>1, <2>3, <2>4
<1>. QED BY <1>1, <1>2, <1>3 DEF Edit

LEMMA TaxonomyInitInv ==
    ASSUME TaxonomyOK, TaxonomyInit
    PROVE  TaxonomyInv
<1>1. file \in Taxonomy /\ Valid(file)
  BY DEF TaxonomyInit, TaxonomyOK
<1>2. file.options \subseteq Names
  BY <1>1 DEF Taxonomy
<1>3. TaxonomyTypeOK
  <2>1. Idle \in Reader
    BY DEF Idle, Reader, TaxonomyOK
  <2>2. /\ cache \in [Levels -> Taxonomy \cup {NoTaxonomy}]
        /\ reader \in [Threads -> Reader]
    BY <2>1 DEF TaxonomyInit
  <2>3. stored \in [Holders -> SUBSET Names]
    BY <1>2 DEF TaxonomyInit
  <2>4. level \in 0..Depth
    BY DEF TaxonomyInit, TaxonomyOK
  <2>. QED BY <1>1, <2>2, <2>3, <2>4 DEF TaxonomyInit, TaxonomyTypeOK
<1>. QED BY <1>1, <1>3 DEF TaxonomyInit, TaxonomyInv, TaxonomiesValid, HeldValid, NoOverlap,
                          NoOrphans, DraftKeeps, Reading, Idle

\* A step of a reader.
LEMMA ReaderStep ==
    ASSUME TaxonomyOK, TaxonomyInv, NEW t \in Threads,
           Call(t) \/ Hit(t) \/ Miss(t) \/ Load(t) \/ Fill(t) \/ Answer(t)
    PROVE  TaxonomyInv'
<1>. USE DEF TaxonomyInv
<1>u. UNCHANGED <<file, phase, level, draft, loose, stored>>
  BY DEF Call, Hit, Miss, Load, Fill, Answer, Routes
<1>l. /\ Depth \in Nat /\ level \in 0..Depth /\ cache \in [Levels -> Taxonomy \cup {NoTaxonomy}]
      /\ reader \in [Threads -> Reader] /\ NoTaxonomy \notin Taxonomy
      /\ file \in Taxonomy \cup {Torn} /\ overlap \in BOOLEAN
  BY DEF TaxonomyTypeOK, TaxonomyOK
<1>r. \A u \in Threads : /\ reader[u].way \in {"none", "down", "up", "done"}
                         /\ reader[u].at \in 0..Depth /\ reader[u].to \in 0..Depth
                         /\ reader[u].tax \in Taxonomy \cup {NoTaxonomy}
  BY <1>l DEF Reader
<1>1. /\ NoOrphans' /\ DraftKeeps'
      /\ (file # Torn => Valid(file))'
  BY <1>u DEF NoOrphans, DraftKeeps, TaxonomiesValid
<1>2. \* what a step does to the reader and to the cache
      /\ reader' \in [Threads -> Reader]
      /\ \A u \in Threads \ {t} : reader'[u] = reader[u]
      /\ reader'[t].way \in {"up", "done"} =>
           \/ reader'[t].tax = reader[t].tax /\ reader[t].way \in {"up", "done"}
                /\ (reader'[t].way = "up" => reader[t].way = "up")
           \/ \E l \in Levels : reader'[t].tax = cache[l] /\ cache[l] # NoTaxonomy
           \/ reader'[t].tax = file /\ file # Torn
      /\ overlap' \in BOOLEAN /\ (overlap => overlap')
      /\ reader'[t].way \in {"down", "up"} =>
           reader[t].way \in {"down", "up"} \/ phase \notin {"writing", "clearing"} \/ overlap'
      /\ \A l \in Levels : \/ cache'[l] = cache[l]
                           \/ cache'[l] = reader[t].tax /\ reader[t].way = "up"
      /\ cache' \in [Levels -> Taxonomy \cup {NoTaxonomy}]
  <2>1. CASE Call(t)
    <3>1. PICK l \in Levels :
            reader' = [reader EXCEPT ![t] = [way |-> "down", at |-> l, to |-> l, tax |-> NoTaxonomy]]
      BY <2>1 DEF Call
    <3>2. [way |-> "down", at |-> l, to |-> l, tax |-> NoTaxonomy] \in Reader
      BY <1>l DEF Reader, Levels
    <3>3. reader' \in [Threads -> Reader] /\ reader'[t].way = "down"
          /\ \A u \in Threads \ {t} : reader'[u] = reader[u]
      BY <1>l, <3>1, <3>2
    <3>4. UNCHANGED cache /\ overlap' = (overlap \/ phase \in {"writing", "clearing"})
      BY <2>1 DEF Call
    <3>. QED BY <1>l, <3>3, <3>4
  <2>2. CASE Hit(t)
    <3>1. /\ reader[t].way = "down" /\ reader[t].at # 0 /\ cache[reader[t].at] # NoTaxonomy
          /\ reader' = [reader EXCEPT ![t].way = "up", ![t].tax = cache[reader[t].at]]
          /\ UNCHANGED <<cache, overlap>>
      BY <2>2 DEF Hit
    <3>2. reader[t].at \in Levels
      BY <1>l, <1>r, <3>1 DEF Levels
    <3>3. reader' \in [Threads -> Reader] /\ reader'[t].way = "up" /\ reader'[t].tax = cache[reader[t].at]
          /\ \A u \in Threads \ {t} : reader'[u] = reader[u]
      BY <1>l, <3>1, <3>2 DEF Reader
    <3>. QED BY <1>l, <3>1, <3>2, <3>3
  <2>3. CASE Miss(t)
    <3>1. /\ reader[t].way = "down" /\ reader[t].at # 0
          /\ reader' = [reader EXCEPT ![t].at = reader[t].at - 1]
          /\ UNCHANGED <<cache, overlap>>
      BY <2>3 DEF Miss
    <3>2. reader[t].at - 1 \in 0..Depth
      BY <1>l, <1>r, <3>1
    <3>3. reader' \in [Threads -> Reader] /\ reader'[t].way = "down"
          /\ \A u \in Threads \ {t} : reader'[u] = reader[u]
      BY <1>l, <3>1, <3>2 DEF Reader
    <3>. QED BY <1>l, <3>1, <3>3
  <2>4. CASE Load(t)
    <3>1. /\ reader[t].way = "down"
          /\ reader' = [reader EXCEPT ![t] = IF file = Torn THEN Idle
                                             ELSE [reader[t] EXCEPT !.way = "up", !.tax = file]]
          /\ UNCHANGED <<cache, overlap>>
      BY <2>4 DEF Load
    <3>2. Idle \in Reader /\ Idle.way = "none"
      BY <1>l DEF Idle, Reader
    <3>3. CASE file = Torn
      <4>1. reader' = [reader EXCEPT ![t] = Idle]
        BY <3>1, <3>3
      <4>2. reader' \in [Threads -> Reader] /\ reader'[t] = Idle
            /\ \A u \in Threads \ {t} : reader'[u] = reader[u]
        BY <1>l, <3>2, <4>1
      <4>. QED BY <1>l, <3>1, <3>2, <4>2
    <3>4. CASE file # Torn
      <4>1. [reader[t] EXCEPT !.way = "up", !.tax = file] \in Reader
        BY <1>l, <3>4 DEF Reader
      <4>2. reader' \in [Threads -> Reader] /\ reader'[t].way = "up" /\ reader'[t].tax = file
            /\ \A u \in Threads \ {t} : reader'[u] = reader[u]
        BY <1>l, <3>1, <3>4, <4>1 DEF Reader
      <4>. QED BY <1>l, <3>1, <3>4, <4>2
    <3>. QED BY <3>3, <3>4
  <2>5. CASE Fill(t)
    <3>. DEFINE l == reader[t].at + 1
    <3>1. /\ reader[t].way = "up" /\ reader[t].at < reader[t].to
          /\ cache' = IF cache[l] = NoTaxonomy THEN [cache EXCEPT ![l] = reader[t].tax] ELSE cache
          /\ reader' = [reader EXCEPT ![t].at = l]
          /\ UNCHANGED overlap
      BY <2>5 DEF Fill
    <3>2. l \in 0..Depth /\ l \in Levels
      BY <1>l, <1>r, <3>1 DEF Levels
    <3>3. reader[t].tax \in Taxonomy
      BY <3>1 DEF HeldValid
    <3>. HIDE DEF l
    <3>4. reader' \in [Threads -> Reader] /\ reader'[t].way = "up" /\ reader'[t].tax = reader[t].tax
          /\ \A u \in Threads \ {t} : reader'[u] = reader[u]
      BY <1>l, <3>1, <3>2 DEF Reader
    <3>5. /\ cache' \in [Levels -> Taxonomy \cup {NoTaxonomy}]
          /\ \A k \in Levels : cache'[k] = cache[k] \/ cache'[k] = reader[t].tax
      BY <1>l, <3>1, <3>2, <3>3
    <3>. QED BY <1>l, <3>1, <3>4, <3>5
  <2>6. CASE Answer(t)
    <3>1. /\ reader[t].way = "up" /\ reader' = [reader EXCEPT ![t].way = "done"]
          /\ UNCHANGED <<cache, overlap>>
      BY <2>6 DEF Answer
    <3>2. reader' \in [Threads -> Reader] /\ reader'[t].way = "done" /\ reader'[t].tax = reader[t].tax
          /\ \A u \in Threads \ {t} : reader'[u] = reader[u]
      BY <1>l, <3>1 DEF Reader
    <3>. QED BY <1>l, <3>1, <3>2
  <2>. QED BY <2>1, <2>2, <2>3, <2>4, <2>5, <2>6
<1>3. TaxonomyTypeOK'
  BY <1>u, <1>2 DEF TaxonomyTypeOK
<1>4. TaxonomiesValid'
  <2>1. ASSUME NEW l \in Levels, cache'[l] # NoTaxonomy PROVE Valid(cache'[l])
    BY <1>2, <2>1 DEF TaxonomiesValid, HeldValid
  <2>. QED BY <1>1, <2>1 DEF TaxonomiesValid
<1>5. HeldValid'
  <2>1. ASSUME NEW u \in Threads, reader'[u].way \in {"up", "done"}
        PROVE  reader'[u].tax \in Taxonomy /\ Valid(reader'[u].tax)
    <3>1. CASE u # t
      BY <1>2, <2>1, <3>1 DEF HeldValid
    <3>2. CASE u = t
      BY <1>l, <1>2, <2>1, <3>2 DEF HeldValid, TaxonomiesValid
    <3>. QED BY <3>1, <3>2
  <2>. QED BY <1>u, <2>1 DEF HeldValid
<1>6. NoOverlap'
  <2>. SUFFICES ASSUME ~overlap' PROVE
         /\ phase \in {"writing", "clearing"} => ~Reading'
         /\ phase = "clearing" => \A l \in Levels : l > level => cache'[l] = NoTaxonomy
         /\ phase \in {"none", "checked"} /\ file # Torn =>
              /\ \A l \in Levels : cache'[l] \in {file, NoTaxonomy}
              /\ \A u \in Threads : reader'[u].way = "up" => reader'[u].tax = file
    BY <1>u DEF NoOverlap
  <2>1. ~overlap
    BY <1>2
  <2>2. phase \in {"writing", "clearing"} => ~Reading'
    BY <1>2, <2>1 DEF NoOverlap, Reading
  <2>3. phase = "clearing" => \A l \in Levels : l > level => cache'[l] = NoTaxonomy
    BY <1>2, <2>1 DEF NoOverlap, Reading
  <2>4. ASSUME phase \in {"none", "checked"}, file # Torn
        PROVE  /\ \A l \in Levels : cache'[l] \in {file, NoTaxonomy}
               /\ \A u \in Threads : reader'[u].way = "up" => reader'[u].tax = file
    <3>1. /\ \A l \in Levels : cache[l] \in {file, NoTaxonomy}
          /\ \A u \in Threads : reader[u].way = "up" => reader[u].tax = file
      BY <2>1, <2>4 DEF NoOverlap
    <3>2. \A l \in Levels : cache'[l] \in {file, NoTaxonomy}
      BY <1>2, <3>1
    <3>3. ASSUME NEW u \in Threads, reader'[u].way = "up" PROVE reader'[u].tax = file
      <4>1. CASE u # t
        BY <1>2, <3>1, <3>3, <4>1
      <4>2. CASE u = t
        BY <1>2, <3>1, <3>3, <4>2
      <4>. QED BY <4>1, <4>2
    <3>. QED BY <3>2, <3>3
  <2>. QED BY <2>2, <2>3, <2>4
<1>. QED BY <1>1, <1>3, <1>4, <1>5, <1>6

\* Tags are stored.
LEMMA StoreStep ==
    ASSUME TaxonomyOK, TaxonomyInv, NEW t \in Threads, Store(t) \/ Normalise(t)
    PROVE  TaxonomyInv'
<1>. USE DEF TaxonomyInv
<1>1. PICK h \in Holders, S \in SUBSET (reader[t].tax.options \cup HdrNames) :
        stored' = [stored EXCEPT ![h] = S]
  <2>1. CASE Store(t)
    BY <2>1 DEF Store
  <2>2. CASE Normalise(t)
    <3>1. PICK h \in Profiles : \E S \in Reloaded(reader[t].tax, h, stored[h]) :
                                  stored' = [stored EXCEPT ![h] = S]
      BY <2>2 DEF Normalise
    <3>2. PICK S \in Reloaded(reader[t].tax, h, stored[h]) : stored' = [stored EXCEPT ![h] = S]
      BY <3>1
    <3>3. reader[t].tax \in Taxonomy /\ Valid(reader[t].tax)
      BY <2>2 DEF Normalise, HeldValid
    <3>4. S \subseteq reader[t].tax.options \cup HdrNames
      BY <3>3, ReloadedOptions DEF TaxonomyOK
    <3>. QED BY <3>2, <3>4 DEF Holders
  <2>. QED BY <2>1, <2>2
<1>2. /\ reader[t].way = "done"
      /\ loose' = (loose \/ reader[t].tax # file \/ phase \in {"checked", "writing"})
      /\ UNCHANGED <<file, cache, reader, phase, level, draft, overlap>>
  BY DEF Store, Normalise
<1>3. reader[t].tax \in Taxonomy
  BY <1>2 DEF HeldValid
<1>4. /\ stored' \in [Holders -> SUBSET Names] /\ loose' \in BOOLEAN
      /\ stored \in [Holders -> SUBSET Names]
  <2>1. S \in SUBSET Names
    BY <1>3 DEF Taxonomy, TaxonomyOK
  <2>. QED BY <1>1, <1>2, <2>1 DEF TaxonomyTypeOK
<1>5. TaxonomyTypeOK' /\ TaxonomiesValid' /\ HeldValid' /\ NoOverlap'
  BY <1>2, <1>4 DEF TaxonomyTypeOK, TaxonomiesValid, HeldValid, NoOverlap, Reading
<1>6. NoOrphans'
  <2>. SUFFICES ASSUME file # Torn, ~loose', NEW k \in Holders
                PROVE  stored'[k] \subseteq file.options \cup HdrNames
    BY <1>2 DEF NoOrphans
  <2>1. ~loose /\ reader[t].tax = file
    BY <1>2
  <2>2. stored[k] \subseteq file.options \cup HdrNames
    BY <2>1 DEF NoOrphans
  <2>. QED BY <1>1, <1>4, <2>1, <2>2
<1>7. DraftKeeps'
  BY <1>2 DEF DraftKeeps
<1>. QED BY <1>5, <1>6, <1>7

\* A draft is accepted.
LEMMA DraftStep ==
    ASSUME TaxonomyOK, TaxonomyInv, Edit \/ \E new \in Drafts : Submit(new)
    PROVE  TaxonomyInv'
<1>. USE DEF TaxonomyInv
<1>1. /\ phase = "none" /\ phase' = "checked"
      /\ reader' = [reader EXCEPT ![Loop] = Idle]
      /\ UNCHANGED <<file, cache, level, stored, overlap>>
  BY DEF Edit, Submit
<1>2. /\ draft' \in Taxonomy /\ Valid(draft')
      /\ loose' \in BOOLEAN /\ (loose => loose')
      /\ ~loose' => \A h \in Holders : stored[h] \subseteq draft'.options \cup HdrNames
  <2>1. CASE Edit
    BY <2>1, EditMakes
  <2>2. ASSUME NEW new \in Drafts, Submit(new)
        PROVE  /\ draft' \in Taxonomy /\ Valid(draft')
               /\ loose' \in BOOLEAN /\ (loose => loose')
               /\ ~loose' => \A h \in Holders : stored[h] \subseteq draft'.options \cup HdrNames
    <3>1. /\ draft' = new /\ Valid(new) /\ ~Blocked(reader[Loop].tax, new, stored)
          /\ loose' = (loose \/ reader[Loop].tax # file)
          /\ reader[Loop].way = "done"
      BY <2>2 DEF Submit
    <3>2. draft' \in Taxonomy /\ loose' \in BOOLEAN
      BY <3>1 DEF TaxonomyOK, TaxonomyTypeOK
    <3>3. reader[Loop].tax # Torn
      BY <3>1 DEF TaxonomyOK, HeldValid
    <3>4. ASSUME ~loose', NEW h \in Holders
          PROVE  stored[h] \subseteq draft'.options \cup HdrNames
      <4>1. ~loose /\ reader[Loop].tax = file /\ file # Torn
        BY <3>1, <3>3, <3>4
      <4>2. stored[h] \subseteq file.options \cup HdrNames
        BY <4>1 DEF NoOrphans
      <4>3. stored[h] \cap (file.options \ new.options) = {}
        BY <3>1, <4>1 DEF Blocked
      <4>. QED BY <3>1, <4>2, <4>3
    <3>. QED BY <3>1, <3>2, <3>4
  <2>. QED BY <2>1, <2>2
<1>3. /\ Idle \in Reader /\ Idle.way = "none" /\ reader \in [Threads -> Reader]
      /\ reader' \in [Threads -> Reader]
      /\ reader'[Loop].way = "none" /\ \A u \in Threads \ {Loop} : reader'[u] = reader[u]
  BY <1>1 DEF Idle, Reader, TaxonomyOK, TaxonomyTypeOK
<1>4. TaxonomyTypeOK'
  BY <1>1, <1>2, <1>3 DEF TaxonomyTypeOK
<1>5. TaxonomiesValid' /\ HeldValid' /\ DraftKeeps'
  BY <1>1, <1>2, <1>3 DEF TaxonomiesValid, HeldValid, DraftKeeps
<1>6. NoOverlap'
  BY <1>1, <1>3 DEF NoOverlap
<1>7. NoOrphans'
  BY <1>1, <1>2 DEF NoOrphans
<1>. QED BY <1>4, <1>5, <1>6, <1>7

\* A draft is written, or the program is restarted.
LEMMA WriteStep ==
    ASSUME TaxonomyOK, TaxonomyInv, Truncate \/ Write \/ WriteFails \/ Clear \/ Restart
    PROVE  TaxonomyInv'
<1>. USE DEF TaxonomyInv
<1>l. /\ Depth \in Nat /\ level \in 0..Depth /\ cache \in [Levels -> Taxonomy \cup {NoTaxonomy}]
      /\ reader \in [Threads -> Reader] /\ NoTaxonomy \notin Taxonomy
      /\ file \in Taxonomy \cup {Torn} /\ overlap \in BOOLEAN /\ Torn \notin Taxonomy
      /\ draft \in Taxonomy \cup {NoTaxonomy}
  BY DEF TaxonomyTypeOK, TaxonomyOK
<1>1. CASE Truncate
  <2>1. /\ phase = "checked" /\ file' = Torn /\ phase' = "writing"
        /\ overlap' = (overlap \/ Reading)
        /\ UNCHANGED <<cache, reader, level, draft, stored, loose>>
    BY <1>1 DEF Truncate
  <2>2. Reading' = Reading /\ Reading \in BOOLEAN
    BY <2>1 DEF Reading
  <2>3. TaxonomyTypeOK'
    BY <2>1, <2>2 DEF TaxonomyTypeOK
  <2>4. NoOverlap'
    BY <2>1, <2>2 DEF NoOverlap
  <2>. QED BY <2>1, <2>3, <2>4 DEF TaxonomiesValid, HeldValid, NoOrphans, DraftKeeps
<1>2. CASE Write
  <2>1. /\ phase = "writing" /\ file' = draft /\ phase' = "clearing" /\ level' = Depth
        /\ UNCHANGED <<cache, reader, draft, stored, overlap, loose>>
    BY <1>2 DEF Write
  <2>2. draft \in Taxonomy /\ Valid(draft)
    BY <2>1 DEF HeldValid
  <2>3. TaxonomyTypeOK'
    BY <1>l, <2>1, <2>2 DEF TaxonomyTypeOK
  <2>4. NoOverlap'
    <3>1. \A l \in Levels : ~(l > level')
      BY <1>l, <2>1 DEF Levels
    <3>2. ~overlap => ~Reading
      BY <2>1 DEF NoOverlap
    <3>. QED BY <2>1, <3>1, <3>2 DEF NoOverlap, Reading
  <2>5. NoOrphans'
    BY <2>1 DEF NoOrphans, DraftKeeps
  <2>. QED BY <2>1, <2>2, <2>3, <2>4, <2>5 DEF TaxonomiesValid, HeldValid, DraftKeeps
<1>3. CASE WriteFails
  <2>1. /\ phase = "writing" /\ phase' = "none" /\ draft' = NoTaxonomy
        /\ UNCHANGED <<file, cache, reader, level, stored, overlap, loose>>
    BY <1>3 DEF WriteFails
  <2>. QED
    BY <2>1 DEF TaxonomyTypeOK, TaxonomiesValid, HeldValid, NoOverlap,
       NoOrphans, DraftKeeps
<1>4. CASE Clear
  <2>1. /\ phase = "clearing"
        /\ UNCHANGED <<file, reader, stored, overlap, loose>>
    BY <1>4 DEF Clear
  <2>2. CASE level = 0
    <3>1. phase' = "none" /\ draft' = NoTaxonomy /\ UNCHANGED <<cache, level>>
      BY <1>4, <2>2 DEF Clear
    <3>2. ~overlap => ~Reading /\ \A l \in Levels : cache[l] = NoTaxonomy
      BY <1>l, <2>1, <2>2 DEF NoOverlap, Levels
    <3>3. NoOverlap'
      BY <2>1, <3>1, <3>2 DEF NoOverlap, Reading
    <3>. QED BY <2>1, <3>1, <3>3 DEF TaxonomyTypeOK, TaxonomiesValid, HeldValid, NoOrphans, DraftKeeps
  <2>3. CASE level # 0
    <3>1. /\ cache' = [cache EXCEPT ![level] = NoTaxonomy] /\ level' = level - 1
          /\ UNCHANGED <<phase, draft>>
      BY <1>4, <2>3 DEF Clear
    <3>2. /\ level' \in 0..Depth /\ level \in Levels
          /\ cache' \in [Levels -> Taxonomy \cup {NoTaxonomy}]
          /\ cache'[level] = NoTaxonomy
          /\ \A l \in Levels \ {level} : cache'[l] = cache[l]
      BY <1>l, <2>3, <3>1 DEF Levels
    <3>3. TaxonomyTypeOK'
      BY <2>1, <3>1, <3>2 DEF TaxonomyTypeOK
    <3>4. TaxonomiesValid'
      BY <2>1, <3>2 DEF TaxonomiesValid
    <3>5. NoOverlap'
      <4>1. ~overlap => ~Reading /\ \A l \in Levels : l > level => cache[l] = NoTaxonomy
        BY <2>1 DEF NoOverlap
      <4>2. \A l \in Levels : l > level' => l = level \/ l > level
        BY <1>l, <3>1 DEF Levels
      <4>. QED BY <2>1, <3>1, <3>2, <4>1, <4>2 DEF NoOverlap, Reading
    <3>. QED BY <2>1, <3>1, <3>3, <3>4, <3>5 DEF HeldValid, NoOrphans, DraftKeeps
  <2>. QED BY <2>2, <2>3
<1>5. CASE Restart
  <2>1. /\ cache' = [l \in Levels |-> NoTaxonomy] /\ reader' = [t \in Threads |-> Idle]
        /\ phase' = "none" /\ level' = 0 /\ draft' = NoTaxonomy
        /\ UNCHANGED <<file, stored, overlap, loose>>
    BY <1>5 DEF Restart
  <2>2. Idle \in Reader /\ Idle.way = "none"
    BY <1>l DEF Idle, Reader
  <2>3. TaxonomyTypeOK'
    BY <1>l, <2>1, <2>2 DEF TaxonomyTypeOK
  <2>4. NoOverlap' /\ HeldValid'
    BY <2>1, <2>2 DEF NoOverlap, HeldValid
  <2>. QED BY <2>1, <2>3, <2>4 DEF TaxonomiesValid, NoOrphans, DraftKeeps
<1>. QED BY <1>1, <1>2, <1>3, <1>4, <1>5

THEOREM TaxonomyInvariant == ASSUME TaxonomyOK PROVE TaxonomySpec => []TaxonomyInv
<1>1. TaxonomyInit => TaxonomyInv
  BY TaxonomyInitInv
<1>2. TaxonomyInv /\ [TaxonomyNext]_taxonomyVars => TaxonomyInv'
  <2>. SUFFICES ASSUME TaxonomyInv, [TaxonomyNext]_taxonomyVars PROVE TaxonomyInv'
    OBVIOUS
  <2>1. CASE TaxonomyNext
    BY <2>1, ReaderStep, StoreStep, DraftStep, WriteStep DEF TaxonomyNext
  <2>2. CASE UNCHANGED taxonomyVars
    BY <2>2 DEF taxonomyVars, TaxonomyInv, TaxonomyTypeOK, TaxonomiesValid, HeldValid, NoOverlap,
                NoOrphans, DraftKeeps, Reading
  <2>. QED BY <2>1, <2>2
<1>. QED BY <1>1, <1>2, PTL DEF TaxonomySpec

\* What the file and the caches hold passed validation, whatever is written, cleared and
\* read beside it (_validate_quality_taxonomy_payload).
THEOREM TaxonomiesAreValid == ASSUME TaxonomyOK PROVE TaxonomySpec => []TaxonomiesValid
BY TaxonomyInvariant, PTL DEF TaxonomyInv

\* Between writes the caches hold what the file says, unless some thread was reading
\* during a write (_clear_quality_taxonomy_cache).
THEOREM CachesAreFresh == ASSUME TaxonomyOK PROVE TaxonomySpec => []CachesFresh
<1>1. TaxonomyInv => CachesFresh
  BY DEF TaxonomyInv, NoOverlap, CachesFresh
<1>. QED BY <1>1, TaxonomyInvariant, PTL

\* Submitted drafts orphan no tag: what rules and profiles store are options, unless an
\* option in use was removed on the page, or tags were stored from an old taxonomy or
\* between the check of a draft and its writing (apply_taxonomy).
THEOREM NothingOrphaned == ASSUME TaxonomyOK PROVE TaxonomySpec => []NoOrphans
BY TaxonomyInvariant, PTL DEF TaxonomyInv

\* Once a write was cut short and the caches are gone, the file stays torn: no call reads
\* it, no route replaces it, and the seed is copied only where there is no file
\* (_ensure_runtime_quality_taxonomy).
THEOREM TornStaysTorn == ASSUME TaxonomyOK PROVE TaxonomySpec => TornForGood
<1>1. Dead /\ [TaxonomyNext]_taxonomyVars /\ TaxonomyTypeOK => Dead'
  <2>. SUFFICES ASSUME Dead, TaxonomyTypeOK, [TaxonomyNext]_taxonomyVars PROVE Dead'
    OBVIOUS
  <2>. USE DEF Dead
  <2>l. /\ reader \in [Threads -> Reader] /\ Depth \in Nat /\ Loop \in Threads
        /\ \A u \in Threads : reader[u].at \in 0..Depth
    BY DEF TaxonomyTypeOK, TaxonomyOK, Reader
  <2>1. ASSUME NEW t \in Threads, Call(t) \/ Miss(t) PROVE Dead'
    <3>1. /\ UNCHANGED <<file, phase, cache>>
          /\ reader'[t].way \in {"none", "down"}
          /\ \A u \in Threads \ {t} : reader'[u] = reader[u]
      <4>1. CASE Call(t)
        <5>1. PICK l \in Levels :
                reader' = [reader EXCEPT ![t] = [way |-> "down", at |-> l, to |-> l, tax |-> NoTaxonomy]]
          BY <4>1 DEF Call
        <5>2. reader'[t] = [way |-> "down", at |-> l, to |-> l, tax |-> NoTaxonomy]
              /\ \A u \in Threads \ {t} : reader'[u] = reader[u]
          BY <2>l, <5>1
        <5>. QED BY <4>1, <5>2 DEF Call, Routes
      <4>2. CASE Miss(t)
        <5>1. reader' = [reader EXCEPT ![t] = [reader[t] EXCEPT !.at = reader[t].at - 1]]
              /\ reader[t].way = "down" /\ UNCHANGED <<file, phase, cache>>
          BY <4>2 DEF Miss, Routes
        <5>2. [reader[t] EXCEPT !.at = reader[t].at - 1].way = "down"
          BY <2>l, <5>1 DEF Reader
        <5>. QED BY <2>l, <5>1, <5>2
      <4>. QED BY <2>1, <4>1, <4>2
    <3>. QED BY <3>1
  <2>2. ASSUME NEW t \in Threads, Hit(t) PROVE FALSE
    BY <2>l, <2>2 DEF Hit, Levels
  <2>3. ASSUME NEW t \in Threads, Load(t) PROVE Dead'
    <3>1. reader' = [reader EXCEPT ![t] = Idle] /\ UNCHANGED <<file, phase, cache>>
      BY <2>3 DEF Load, Routes
    <3>2. reader'[t].way = "none" /\ \A u \in Threads \ {t} : reader'[u] = reader[u]
      BY <2>l, <3>1 DEF Idle
    <3>. QED BY <3>1, <3>2
  <2>4. ASSUME NEW t \in Threads, Fill(t) \/ Answer(t) \/ Store(t) \/ Normalise(t) PROVE FALSE
    BY <2>4 DEF Fill, Answer, Store, Normalise
  <2>5. ASSUME Edit \/ Truncate \/ Write \/ WriteFails \/ Clear \/ \E new \in Drafts : Submit(new)
        PROVE  FALSE
    BY <2>l, <2>5 DEF Edit, Truncate, Write, WriteFails, Clear, Submit
  <2>6. CASE Restart
    BY <2>6 DEF Restart, Idle
  <2>7. CASE UNCHANGED taxonomyVars
    BY <2>7 DEF taxonomyVars
  <2>. QED BY <2>1, <2>2, <2>3, <2>4, <2>5, <2>6, <2>7 DEF TaxonomyNext
<1>2. TaxonomySpec => []TaxonomyTypeOK
  BY TaxonomyInvariant, PTL DEF TaxonomyInv
<1>. QED BY <1>1, <1>2, PTL DEF TornForGood, TaxonomySpec

-----------------------------------------------------------------------------
(* Settings.                                                                 *)

LEMMA FlushType ==
    ASSUME NEW now \in Row, NEW old \in Row, NEW new \in Row
    PROVE  /\ Flush(now, old, new) \in Row
           /\ \A c \in Columns : Flush(now, old, new)[c] =
                                   IF new[c] = old[c] THEN now[c] ELSE new[c]
BY DEF Flush, Row

\* What a form makes of a copy of the row is a row, which differs from the copy in columns
\* that were taken over only.
LEMMA AppliedType ==
    ASSUME SettingsOK, NEW old \in Row, NEW section \in Sections, NEW form \in Posted(section)
    PROVE  /\ Applied(old, section, form) \in Row
           /\ Taken(section, form) \subseteq section /\ section \subseteq Columns
           /\ \A c \in Columns \ Taken(section, form) : Applied(old, section, form)[c] = old[c]
           /\ \A c \in Taken(section, form) \cap Secrets : Applied(old, section, form)[c] # Blank
<1>1. PICK fields \in SUBSET section : form \in [fields -> Values]
  BY DEF Posted
<1>2. Taken(section, form) \subseteq section /\ section \subseteq Columns
  BY DEF Taken, Sections, SettingsOK
<1>3. ASSUME NEW c \in Columns
      PROVE  Field(form, c) \in Values
  <2>1. CASE c \in DOMAIN form
    <3>1. form[c] \in Values
      BY <1>1, <2>1
    <3>2. KeyIn[form[c]] \in Values
      BY <3>1 DEF SettingsOK
    <3> QED
      BY <2>1, <3>1, <3>2 DEF Field
  <2>2. CASE c \notin DOMAIN form
    <3>1. Blank \in Values /\ Unposted[c] \in Values
      BY DEF SettingsOK, Row
    <3>2. KeyIn[Blank] \in Values /\ KeyIn[Unposted[c]] \in Values
      BY <3>1 DEF SettingsOK
    <3> QED
      BY <2>2, <3>1, <3>2 DEF Field
  <2> QED
    BY <2>1, <2>2
<1>4. Applied(old, section, form) \in Row
  BY <1>3 DEF Applied, Row
<1>5. \A c \in Columns \ Taken(section, form) : Applied(old, section, form)[c] = old[c]
  BY DEF Applied
<1>6. \A c \in Taken(section, form) \cap Secrets : Applied(old, section, form)[c] # Blank
  BY <1>2 DEF Applied, Taken
<1> QED
  BY <1>2, <1>4, <1>5, <1>6

\* Until the row is there, nothing is saved.
SettingsInv == SettingsTypeOK /\ LastSaveCounts /\ (row = NoRow => saved = Initial)

LEMMA SettingsInitInv == ASSUME SettingsOK, SettingsInit PROVE SettingsInv
<1>1. SettingsTypeOK
  BY DEF SettingsOK, SettingsInit, SettingsTypeOK, Session, Closed
<1>2. LastSaveCounts
  BY DEF SettingsInit, LastSaveCounts
<1>3. row = NoRow => saved = Initial
  BY DEF SettingsInit
<1> QED
  BY <1>1, <1>2, <1>3 DEF SettingsInv

LEMMA SettingsStepInv ==
    ASSUME SettingsOK, SettingsInv, [SettingsNext]_settingsVars
    PROVE  SettingsInv'
<1> USE DEF SettingsInv
<1>1. ASSUME NEW s \in Sessions, Open(s)
      PROVE  SettingsInv'
  <2>1. SettingsTypeOK'
    BY <1>1 DEF Open, SettingsTypeOK, Session
  <2>2. LastSaveCounts'
    BY <1>1 DEF Open, LastSaveCounts
  <2>3. (row = NoRow => saved = Initial)'
    BY <1>1 DEF Open
  <2> QED
    BY <2>1, <2>2, <2>3
<1>2. ASSUME NEW s \in Sessions, Create(s)
      PROVE  SettingsInv'
  <2>1. Initial \in Row /\ NoRow \notin Row
    BY DEF SettingsOK
  <2>2. row' \in Row /\ session' \in [Sessions -> Session]
    BY <1>2, <2>1 DEF Create, SettingsTypeOK, Session, Closed
  <2>3. \A q \in Sessions : session'[q].stage = "ready" => session'[q].old # NoRow
    BY <1>2, <2>1 DEF Create, SettingsTypeOK, Session, Closed
  <2>4. SettingsTypeOK'
    BY <1>2, <2>1, <2>2, <2>3 DEF Create, SettingsTypeOK
  <2>5. LastSaveCounts'
    BY <1>2 DEF Create, LastSaveCounts
  <2> QED
    BY <1>2, <2>1, <2>2, <2>4, <2>5 DEF Create
<1>3. ASSUME NEW s \in Sessions, Repair(s)
      PROVE  SettingsInv'
  <2> DEFINE old == session[s].old
  <2>1. old \in Row /\ row \in Row /\ NoRow \notin Row
    BY <1>3 DEF Repair, SettingsTypeOK, Session, SettingsOK
  <2>2. PICK new \in Repaired(old), again \in BOOLEAN :
          /\ row' = Flush(row, old, new)
          /\ session' = [session EXCEPT ![s] = [stage |-> "ready",
                                   old |-> IF new = old /\ ~again THEN old ELSE row']]
          /\ crossed' = crossed \cup {c \in Columns : new[c] # old[c] /\ row[c] # old[c]}
    BY <1>3 DEF Repair
  <2>3. new \in Row /\ \A c \in Columns : new[c] \in {old[c]} \cup FormsOf[c][old[c]]
    BY DEF Repaired
  <2>4. row' \in Row /\ \A c \in Columns : row'[c] = IF new[c] = old[c] THEN row[c] ELSE new[c]
    BY <2>1, <2>2, <2>3, FlushType
  <2>5. SettingsTypeOK'
    <3>1. session' \in [Sessions -> Session]
      BY <2>1, <2>2, <2>4 DEF SettingsTypeOK, Session
    <3>2. \A q \in Sessions : session'[q].stage = "ready" => session'[q].old # NoRow
      BY <2>1, <2>2, <2>4 DEF SettingsTypeOK, Session
    <3>3. crossed' \subseteq Columns
      BY <2>2 DEF SettingsTypeOK
    <3> QED
      BY <1>3, <2>1, <2>4, <3>1, <3>2, <3>3 DEF Repair, SettingsTypeOK
  <2>6. LastSaveCounts'
    <3> SUFFICES ASSUME NEW c \in Columns \ crossed'
                 PROVE  row'[c] \in {saved[c]} \cup FormsOf[c][saved[c]]
      BY <1>3 DEF Repair, LastSaveCounts
    <3>1. c \notin crossed /\ (new[c] = old[c] \/ row[c] = old[c])
      BY <2>2
    <3>2. row[c] \in {saved[c]} \cup FormsOf[c][saved[c]]
      BY <2>1, <3>1 DEF LastSaveCounts
    <3>3. saved[c] \in Values
      BY DEF SettingsTypeOK, Row
    <3>4. \A w \in FormsOf[c][saved[c]] : FormsOf[c][w] \subseteq FormsOf[c][saved[c]]
      BY <3>3 DEF SettingsOK
    <3>5. new[c] = old[c] \/ new[c] \in FormsOf[c][old[c]]
      BY <2>3
    <3> QED
      BY <2>4, <3>1, <3>2, <3>4, <3>5
  <2> QED
    BY <2>1, <2>4, <2>5, <2>6
<1>4. ASSUME NEW s \in Sessions, NEW section \in Sections, NEW form \in Posted(section),
             Save(s, section, form)
      PROVE  SettingsInv'
  <2> DEFINE old == session[s].old  new == Applied(old, section, form)
  <2>1. old \in Row /\ row \in Row /\ NoRow \notin Row
    BY <1>4 DEF Save, SettingsTypeOK, Session, SettingsOK
  <2>2. /\ new \in Row /\ Taken(section, form) \subseteq Columns
        /\ \A c \in Columns \ Taken(section, form) : new[c] = old[c]
    BY <2>1, AppliedType
  <2>3. /\ row' = Flush(row, old, new)
        /\ saved' = [c \in Columns |-> IF c \in Taken(section, form) THEN new[c] ELSE saved[c]]
        /\ crossed' = crossed \cup {c \in Taken(section, form) : row[c] # old[c]}
        /\ session' = [session EXCEPT ![s] = Closed]
        /\ UNCHANGED tested
    BY <1>4 DEF Save
  <2> HIDE DEF new, old
  <2>4. row' \in Row /\ \A c \in Columns : row'[c] = IF new[c] = old[c] THEN row[c] ELSE new[c]
    BY <2>1, <2>2, <2>3, FlushType
  <2>5. SettingsTypeOK'
    <3>1. saved' \in Row /\ crossed' \subseteq Columns
      BY <2>2, <2>3 DEF SettingsTypeOK, Row
    <3> QED
      BY <2>1, <2>3, <2>4, <3>1 DEF SettingsTypeOK, Session, Closed
  <2>6. LastSaveCounts'
    <3> SUFFICES ASSUME NEW c \in Columns \ crossed'
                 PROVE  row'[c] \in {saved'[c]} \cup FormsOf[c][saved'[c]]
      BY DEF LastSaveCounts
    <3>1. CASE c \in Taken(section, form)
      BY <2>3, <2>4, <3>1
    <3>2. CASE c \notin Taken(section, form)
      <4>1. row[c] \in {saved[c]} \cup FormsOf[c][saved[c]]
        BY <2>1, <2>3 DEF LastSaveCounts
      <4> QED
        BY <2>2, <2>3, <2>4, <3>2, <4>1
    <3> QED
      BY <3>1, <3>2
  <2> QED
    BY <2>1, <2>4, <2>5, <2>6
<1>5. ASSUME NEW s \in Sessions, NEW section \in Providers, NEW form \in Posted(section),
             Test(s, section, form)
      PROVE  SettingsInv'
  <2>1. session[s].old \in Row
    BY <1>5 DEF Test, SettingsTypeOK, Session
  <2>2. Applied(session[s].old, section, form) \in Row
    BY <2>1, AppliedType DEF Sections
  <2>3. tested' \in Row
    BY <1>5, <2>2 DEF Test, Effective, Row, SettingsOK
  <2>4. SettingsTypeOK'
    BY <1>5, <2>3 DEF Test, SettingsTypeOK, Session, Closed
  <2>5. LastSaveCounts'
    BY <1>5 DEF Test, LastSaveCounts
  <2> QED
    BY <1>5, <2>4, <2>5 DEF Test
<1>6. ASSUME NEW s \in Sessions, Leave(s)
      PROVE  SettingsInv'
  <2>1. SettingsTypeOK'
    BY <1>6 DEF Leave, SettingsTypeOK, Session, Closed
  <2>2. LastSaveCounts'
    BY <1>6 DEF Leave, LastSaveCounts
  <2> QED
    BY <1>6, <2>1, <2>2 DEF Leave
<1>7. CASE UNCHANGED settingsVars
  BY <1>7 DEF settingsVars, SettingsTypeOK, LastSaveCounts
<1> QED
  BY <1>1, <1>2, <1>3, <1>4, <1>5, <1>6, <1>7 DEF SettingsNext

\* The row, the sessions and their copies are well typed in every reachable state.
THEOREM SettingsTyped == ASSUME SettingsOK PROVE SettingsSpec => []SettingsTypeOK
<1>1. SettingsInit => SettingsInv
  BY SettingsInitInv
<1>2. SettingsInv /\ [SettingsNext]_settingsVars => SettingsInv'
  BY SettingsStepInv
<1>3. SettingsInv => SettingsTypeOK
  BY DEF SettingsInv
<1> QED
  BY <1>1, <1>2, <1>3, PTL DEF SettingsSpec

\* What was saved last in a column is there until it is saved again, whatever pages load
\* and repair, for columns that no two overlapping sessions wrote.
THEOREM LastSaveStays == ASSUME SettingsOK PROVE SettingsSpec => []LastSaveCounts
<1>1. SettingsInit => SettingsInv
  BY SettingsInitInv
<1>2. SettingsInv /\ [SettingsNext]_settingsVars => SettingsInv'
  BY SettingsStepInv
<1>3. SettingsInv => LastSaveCounts
  BY DEF SettingsInv
<1> QED
  BY <1>1, <1>2, <1>3, PTL DEF SettingsSpec

\* No step of any session empties a password or key, overlapping or not, but a repair
\* whose copy of the OMDb key has no key in it.
THEOREM SecretsAreKept == ASSUME SettingsOK PROVE SettingsSpec => SecretsKept
<1> DEFINE Kept == \A c \in Secrets :
                     row # NoRow /\ row[c] # Blank =>
                       \/ row'[c] # Blank
                       \/ /\ c \in Checked
                          /\ \E s \in Sessions : /\ Repair(s) /\ session[s].old[c] # Blank
                                                 /\ KeyIn[session[s].old[c]] = Blank
<1>1. ASSUME SettingsTypeOK, [SettingsNext]_settingsVars
      PROVE  [Kept]_settingsVars
  <2> SUFFICES ASSUME SettingsNext, NEW c \in Secrets, row # NoRow, row[c] # Blank,
                      ~(c \in Checked /\ \E s \in Sessions : /\ Repair(s) /\ session[s].old[c] # Blank
                                                             /\ KeyIn[session[s].old[c]] = Blank)
               PROVE  row'[c] # Blank
    BY <1>1
  <2>1. c \in Columns /\ row \in Row
    BY <1>1 DEF SettingsTypeOK, SettingsOK
  <2>2. CASE UNCHANGED row
    BY <2>2
  <2>3. ASSUME NEW s \in Sessions, Create(s)
        PROVE  row'[c] # Blank
    BY <2>3 DEF Create
  <2>4. ASSUME NEW s \in Sessions, Repair(s)
        PROVE  row'[c] # Blank
    <3> DEFINE old == session[s].old
    <3>1. old \in Row /\ old[c] \in Values
      BY <1>1, <2>1, <2>4 DEF Repair, SettingsTypeOK, Session, Row
    <3>2. PICK new \in Repaired(old) : row' = Flush(row, old, new)
      BY <2>4 DEF Repair
    <3>3. new \in Row /\ new[c] \in {old[c]} \cup FormsOf[c][old[c]]
      BY <2>1 DEF Repaired
    <3>4. row'[c] = IF new[c] = old[c] THEN row[c] ELSE new[c]
      BY <2>1, <3>1, <3>2, <3>3, FlushType
    <3>5. CASE new[c] = old[c] \/ new[c] # Blank
      BY <3>4, <3>5
    <3>6. CASE new[c] # old[c] /\ new[c] = Blank
      <4>1. old[c] # Blank /\ Blank \in FormsOf[c][old[c]]
        BY <3>3, <3>6
      <4>2. c \in Checked /\ KeyIn[old[c]] = Blank
        BY <3>1, <4>1 DEF SettingsOK
      <4> QED
        BY <2>4, <4>1, <4>2
    <3> QED
      BY <3>5, <3>6
  <2>5. ASSUME NEW s \in Sessions, NEW section \in Sections, NEW form \in Posted(section),
               Save(s, section, form)
        PROVE  row'[c] # Blank
    <3> DEFINE old == session[s].old  new == Applied(old, section, form)
    <3>1. old \in Row
      BY <1>1, <2>5 DEF Save, SettingsTypeOK, Session
    <3>2. /\ new \in Row
          /\ c \notin Taken(section, form) => new[c] = old[c]
          /\ c \in Taken(section, form) => new[c] # Blank
      BY <2>1, <3>1, AppliedType
    <3>3. row' = Flush(row, old, new)
      BY <2>5 DEF Save
    <3>4. row'[c] = IF new[c] = old[c] THEN row[c] ELSE new[c]
      BY <2>1, <3>1, <3>2, <3>3, FlushType
    <3> QED
      BY <3>2, <3>4
  <2> QED
    BY <2>2, <2>3, <2>4, <2>5 DEF SettingsNext, Open, Leave, Test
<1> QED
  BY <1>1, SettingsTyped, PTL DEF SettingsSpec, SecretsKept

\* A save changes columns of its section only, against the row as it is by then.
THEOREM OthersAreKept == ASSUME SettingsOK PROVE SettingsSpec => OthersKept
<1> DEFINE Kept == \A s \in Sessions, section \in Sections : \A form \in Posted(section) :
                     row # NoRow /\ Save(s, section, form)
                       => \A c \in Columns \ section : row'[c] = row[c]
<1>1. ASSUME SettingsTypeOK
      PROVE  [Kept]_settingsVars
  <2> SUFFICES ASSUME NEW s \in Sessions, NEW section \in Sections, NEW form \in Posted(section),
                      row # NoRow, Save(s, section, form), NEW c \in Columns \ section
               PROVE  row'[c] = row[c]
    OBVIOUS
  <2>1. session[s].old \in Row /\ row \in Row
    BY <1>1 DEF Save, SettingsTypeOK, Session
  <2>2. /\ Applied(session[s].old, section, form) \in Row
        /\ Applied(session[s].old, section, form)[c] = session[s].old[c]
    BY <2>1, AppliedType
  <2>3. row' = Flush(row, session[s].old, Applied(session[s].old, section, form))
    BY DEF Save
  <2> QED
    BY <2>1, <2>2, <2>3, FlushType
<1> QED
  BY <1>1, SettingsTyped, PTL DEF SettingsSpec, OthersKept

-----------------------------------------------------------------------------
(* Downloads of the history.                                                 *)

Busy(r, i) == request[r].stage # "none" /\ request[r].item = i

\* An item is handed over once per removal of its job, and once more when it has a job or
\* the one request that is busy with it handed it over.
HistoryInv ==
    /\ HistoryTypeOK
    /\ \A i \in Items \ overlapped : \A r, q \in Requests : Busy(r, i) /\ Busy(q, i) => r = q
    /\ \A i \in Items \ overlapped : \A r \in Requests : Busy(r, i) => i \notin jobs
    /\ \A i \in Items \ overlapped :
         handed[i] = IF i \in jobs \/ \E r \in Requests : Busy(r, i) /\ request[r].stage = "handed"
                     THEN cleaned[i] + 1 ELSE cleaned[i]
    /\ \A r \in Requests : request[r].stage = "handed" => handed[request[r].item] >= 1
    /\ JobsHanded

LEMMA HistoryInitInv == HistoryInit => HistoryInv
BY DEF HistoryInit, HistoryInv, HistoryTypeOK, Asleep, Busy, JobsHanded

LEMMA HistoryStepInv == HistoryInv /\ [HistoryNext]_historyVars => HistoryInv'
<1> SUFFICES ASSUME HistoryInv, [HistoryNext]_historyVars
             PROVE  HistoryInv'
  OBVIOUS
<1> USE DEF HistoryInv, HistoryTypeOK
<1>1. ASSUME NEW r \in Requests, NEW i \in Items, CheckFree(r, i)
      PROVE  HistoryInv'
  <2>1. /\ request' \in [Requests -> [stage : {"none", "free", "handed"}, item : Items \cup {NoItem}]]
        /\ request'[r] = [stage |-> "free", item |-> i]
        /\ \A q \in Requests \ {r} : request'[q] = request[q]
        /\ request[r].stage = "none"
    BY <1>1 DEF CheckFree
  <2>2. HistoryTypeOK'
    BY <1>1, <2>1 DEF CheckFree
  <2>3. ASSUME NEW j \in Items \ overlapped'
        PROVE  /\ \A p, q \in Requests : Busy(p, j)' /\ Busy(q, j)' => p = q
               /\ \A q \in Requests : Busy(q, j)' => j \notin jobs'
               /\ handed'[j] = IF j \in jobs' \/ \E q \in Requests : Busy(q, j)' /\ request'[q].stage = "handed"
                               THEN cleaned'[j] + 1 ELSE cleaned'[j]
    <3>1. j \notin overlapped /\ (j = i => \A q \in Requests : ~Busy(q, i))
      BY <1>1 DEF CheckFree, Busy
    <3> QED
      BY <1>1, <2>1, <3>1 DEF CheckFree, Busy
  <2>4. JobsHanded' /\ \A q \in Requests : request'[q].stage = "handed" => handed'[request'[q].item] >= 1
    BY <1>1, <2>1 DEF CheckFree, JobsHanded
  <2> QED
    BY <2>2, <2>3, <2>4
<1>2. ASSUME NEW r \in Requests, HandOver(r)
      PROVE  HistoryInv'
  <2> DEFINE i == request[r].item
  <2>1. /\ i \in Items /\ request[r].stage = "free"
        /\ request' \in [Requests -> [stage : {"none", "free", "handed"}, item : Items \cup {NoItem}]]
        /\ request'[r].stage = "handed" /\ request'[r].item = i
        /\ \A q \in Requests \ {r} : request'[q] = request[q]
        /\ handed' \in [Items -> Nat] /\ handed'[i] = handed[i] + 1
        /\ \A j \in Items \ {i} : handed'[j] = handed[j]
        /\ UNCHANGED <<jobs, cleaned, overlapped>>
    BY <1>2 DEF HandOver
  <2> HIDE DEF i
  <2>2. HistoryTypeOK'
    BY <2>1
  <2>3. ASSUME NEW j \in Items \ overlapped'
        PROVE  /\ \A p, q \in Requests : Busy(p, j)' /\ Busy(q, j)' => p = q
               /\ \A q \in Requests : Busy(q, j)' => j \notin jobs'
               /\ handed'[j] = IF j \in jobs' \/ \E q \in Requests : Busy(q, j)' /\ request'[q].stage = "handed"
                               THEN cleaned'[j] + 1 ELSE cleaned'[j]
    <3>1. request[r].item = i
      BY DEF i
    <3>2. \A q \in Requests : Busy(q, j)' <=> Busy(q, j)
      BY <2>1, <3>1 DEF Busy
    <3>3. \A p, q \in Requests : Busy(p, j)' /\ Busy(q, j)' => p = q
      BY <2>1, <3>2
    <3>4. \A q \in Requests : Busy(q, j)' => j \notin jobs'
      BY <2>1, <3>2
    <3>5. CASE j = i
      <4>1. Busy(r, j) /\ Busy(r, j)' /\ request'[r].stage = "handed"
        BY <2>1, <3>1, <3>2, <3>5 DEF Busy
      <4>2. \A q \in Requests : Busy(q, j) => q = r
        BY <2>1, <4>1
      <4>3. j \notin jobs /\ ~\E q \in Requests : Busy(q, j) /\ request[q].stage = "handed"
        BY <2>1, <4>1, <4>2
      <4>4. handed[j] = cleaned[j]
        BY <2>1, <4>3
      <4> QED
        BY <2>1, <3>3, <3>4, <3>5, <4>1, <4>4
    <3>6. CASE j # i
      <4>1. \A q \in Requests : Busy(q, j) => q # r
        BY <3>1, <3>6 DEF Busy
      <4> QED
        BY <2>1, <3>2, <3>3, <3>4, <3>6, <4>1
    <3> QED
      BY <3>5, <3>6
  <2>4. JobsHanded'
    BY <2>1 DEF JobsHanded
  <2>5. \A q \in Requests : request'[q].stage = "handed" => handed'[request'[q].item] >= 1
    <3> SUFFICES ASSUME NEW q \in Requests, request'[q].stage = "handed"
                 PROVE  handed'[request'[q].item] >= 1
      OBVIOUS
    <3>1. CASE q = r
      BY <2>1, <3>1
    <3>2. CASE q # r
      BY <2>1, <3>2
    <3> QED
      BY <3>1, <3>2
  <2> QED
    BY <2>2, <2>3, <2>4, <2>5
<1>3. ASSUME NEW r \in Requests, Insert(r)
      PROVE  HistoryInv'
  <2> DEFINE i == request[r].item
  <2>1. /\ i \in Items /\ request[r].stage = "handed" /\ handed[i] >= 1
        /\ request' \in [Requests -> [stage : {"none", "free", "handed"}, item : Items \cup {NoItem}]]
        /\ request'[r].stage = "none"
        /\ \A q \in Requests \ {r} : request'[q] = request[q]
        /\ jobs' = jobs \cup {i}
        /\ UNCHANGED <<handed, cleaned, overlapped>>
    BY <1>3 DEF Insert, Asleep
  <2>2. HistoryTypeOK'
    BY <2>1
  <2>3. ASSUME NEW j \in Items \ overlapped'
        PROVE  /\ \A p, q \in Requests : Busy(p, j)' /\ Busy(q, j)' => p = q
               /\ \A q \in Requests : Busy(q, j)' => j \notin jobs'
               /\ handed'[j] = IF j \in jobs' \/ \E q \in Requests : Busy(q, j)' /\ request'[q].stage = "handed"
                               THEN cleaned'[j] + 1 ELSE cleaned'[j]
    <3>1. \A q \in Requests : Busy(q, j)' => Busy(q, j) /\ q # r /\ request'[q] = request[q]
      BY <2>1 DEF Busy
    <3>2. CASE j = i
      <4>1. Busy(r, j)
        BY <2>1, <3>2 DEF Busy
      <4>2. \A q \in Requests : ~Busy(q, j)'
        BY <2>1, <3>1, <4>1
      <4> QED
        BY <2>1, <3>2, <4>1, <4>2
    <3>3. CASE j # i
      <4>1. \A q \in Requests : Busy(q, j) => Busy(q, j)'
        BY <2>1, <3>3 DEF Busy
      <4> QED
        BY <2>1, <3>1, <3>3, <4>1
    <3> QED
      BY <3>2, <3>3
  <2>4. JobsHanded' /\ \A q \in Requests : request'[q].stage = "handed" => handed'[request'[q].item] >= 1
    BY <2>1 DEF JobsHanded
  <2> QED
    BY <2>2, <2>3, <2>4
<1>4. ASSUME NEW r \in Requests, Break(r)
      PROVE  HistoryInv'
  <2> DEFINE i == request[r].item
  <2>1. /\ i \in Items /\ request[r].stage # "none"
        /\ request' \in [Requests -> [stage : {"none", "free", "handed"}, item : Items \cup {NoItem}]]
        /\ request'[r].stage = "none"
        /\ \A q \in Requests \ {r} : request'[q] = request[q]
        /\ overlapped' = IF request[r].stage = "handed" THEN overlapped \cup {i} ELSE overlapped
        /\ UNCHANGED <<jobs, handed, cleaned>>
    BY <1>4 DEF Break, Asleep
  <2>2. HistoryTypeOK'
    BY <2>1
  <2>3. ASSUME NEW j \in Items \ overlapped'
        PROVE  /\ \A p, q \in Requests : Busy(p, j)' /\ Busy(q, j)' => p = q
               /\ \A q \in Requests : Busy(q, j)' => j \notin jobs'
               /\ handed'[j] = IF j \in jobs' \/ \E q \in Requests : Busy(q, j)' /\ request'[q].stage = "handed"
                               THEN cleaned'[j] + 1 ELSE cleaned'[j]
    <3>1. \A q \in Requests : Busy(q, j)' => Busy(q, j) /\ q # r /\ request'[q] = request[q]
      BY <2>1 DEF Busy
    <3>2. \A q \in Requests : Busy(q, j) /\ request[q].stage = "handed" => Busy(q, j)'
      BY <2>1 DEF Busy
    <3> QED
      BY <2>1, <3>1, <3>2
  <2>4. JobsHanded' /\ \A q \in Requests : request'[q].stage = "handed" => handed'[request'[q].item] >= 1
    BY <2>1 DEF JobsHanded
  <2> QED
    BY <2>2, <2>3, <2>4
<1>5. ASSUME NEW i \in Items, Cleanup(i)
      PROVE  HistoryInv'
  <2>1. /\ i \in jobs /\ jobs' = jobs \ {i}
        /\ cleaned' \in [Items -> Nat] /\ cleaned'[i] = cleaned[i] + 1
        /\ \A j \in Items \ {i} : cleaned'[j] = cleaned[j]
        /\ UNCHANGED <<request, handed, overlapped>>
    BY <1>5 DEF Cleanup
  <2>2. HistoryTypeOK'
    BY <2>1
  <2>3. \A j \in Items, q \in Requests : Busy(q, j)' <=> Busy(q, j)
    BY <2>1 DEF Busy
  <2>4. ASSUME NEW j \in Items \ overlapped'
        PROVE  handed'[j] = IF j \in jobs' \/ \E q \in Requests : Busy(q, j)' /\ request'[q].stage = "handed"
                            THEN cleaned'[j] + 1 ELSE cleaned'[j]
    BY <2>1, <2>3
  <2>5. JobsHanded'
    BY <2>1 DEF JobsHanded
  <2> QED
    BY <2>1, <2>2, <2>3, <2>4, <2>5
<1>6. CASE UNCHANGED historyVars
  BY <1>6 DEF historyVars, Busy, JobsHanded
<1> QED
  BY <1>1, <1>2, <1>3, <1>4, <1>5, <1>6 DEF HistoryNext

\* MyJDownloader gets an item once per removal of its job and once more, unless requests
\* for it overlapped or one broke off; and what has a job was handed over.
THEOREM HandOvers == HistorySpec => [](HandedOnce /\ JobsHanded)
<1>1. HistoryInv => HandedOnce /\ JobsHanded
  BY DEF HistoryInv, HistoryTypeOK, HandedOnce
<1> QED
  BY <1>1, HistoryInitInv, HistoryStepInv, PTL DEF HistorySpec

-----------------------------------------------------------------------------
(* The link to Real-Debrid.                                                  *)

Holds(t, f) == worker[t].op = "poll" /\ worker[t].got # NoToken /\ worker[t].flow = f

\* No token is newer than the last one issued.
Bounded(token) == token # NoToken => token.n <= issued[token.of]

\* Whoever asked for a token: an ensure with a newer one than it loaded, or the one poll
\* that exchanged the code of its flow, whose client no row has had so far.
WorkerInv(t) ==
    LET w == worker[t]
    IN /\ w.got # NoToken => w.op \in {"poll", "ensure"}
       /\ w.op = "poll" /\ w.got # NoToken => w.got = [of |-> w.flow, n |-> 1] /\ issued[w.flow] = 1
       /\ w.op = "ensure" => w.old.client \in Flows /\ w.old.token \in Tokens
       /\ w.op = "ensure" /\ w.got # NoToken =>
            w.got.of = w.old.client /\ w.old.token.of = w.old.client /\ w.got.n > w.old.token.n
       /\ Bounded(w.got) /\ Bounded(w.old.token)
       /\ w.old.client \in Flows => issued[w.old.client] >= 1

FlowInv(f) ==
    /\ issued[f] >= 1 => f \notin authorised
    /\ link.client = f => issued[f] >= 1
    /\ \A t, q \in Workers : Holds(t, f) /\ Holds(q, f) => t = q
    /\ \A t, q \in Workers : Holds(t, f) => link.client # f /\ worker[q].old.client # f

LinkInv ==
    /\ LinkTypeOK /\ LinkCoherent /\ StatusTrue /\ TokenNewest
    /\ Bounded(link.token)
    /\ \A t \in Workers : WorkerInv(t)
    /\ \A f \in Flows : FlowInv(f)

LEMMA LinkInitInv == ASSUME LinkOK, LinkInit PROVE LinkInv
<1>1. LinkTypeOK
  BY DEF LinkOK, LinkInit, LinkTypeOK, Link, Unlinked, Worker, Resting, Clients, Statuses
<1>2. LinkCoherent /\ StatusTrue /\ TokenNewest
  BY DEF LinkInit, Unlinked, LinkCoherent, StatusTrue, TokenNewest, Linked
<1>3. Bounded(link.token) /\ \A t \in Workers : WorkerInv(t)
  BY DEF LinkOK, LinkInit, Bounded, WorkerInv, Unlinked, Resting
<1>4. \A f \in Flows : FlowInv(f)
  BY DEF LinkOK, LinkInit, FlowInv, Holds, Unlinked, Resting
<1> QED
  BY <1>1, <1>2, <1>3, <1>4 DEF LinkInv

\* A commit writes what differs from the copy; over an unchanged row, all that is new.
LEMMA Committed ==
    ASSUME LinkTypeOK, NEW t \in Workers, NEW new \in Link, Commit(t, new)
    PROVE  LET old == worker[t].old
           IN /\ link' \in Link /\ old \in Link
              /\ link'.client = IF new.client = old.client THEN link.client ELSE new.client
              /\ link'.token = IF new.token = old.token THEN link.token ELSE new.token
              /\ link'.status = IF new.status = old.status THEN link.status ELSE new.status
              /\ link = old => link' = new
<1> DEFINE old == worker[t].old
<1>1. link \in Link /\ old \in Link
  BY DEF LinkTypeOK, Worker
<1>2. DOMAIN link = {"client", "token", "status"}
  BY <1>1 DEF Link
<1>3. link' = [column \in {"client", "token", "status"} |->
                 IF new[column] = old[column] THEN link[column] ELSE new[column]]
  BY <1>2 DEF Commit, Flush
<1>4. link' = [client |-> IF new.client = old.client THEN link.client ELSE new.client,
               token |-> IF new.token = old.token THEN link.token ELSE new.token,
               status |-> IF new.status = old.status THEN link.status ELSE new.status]
  BY <1>3
<1>5. link' \in Link
  BY <1>1, <1>4 DEF Link
<1>6. link = old => link' = new
  BY <1>1, <1>4 DEF Link
<1> HIDE DEF old
<1>7. /\ link'.client = IF new.client = old.client THEN link.client ELSE new.client
      /\ link'.token = IF new.token = old.token THEN link.token ELSE new.token
      /\ link'.status = IF new.status = old.status THEN link.status ELSE new.status
  BY <1>4
<1> QED
  BY <1>1, <1>5, <1>6, <1>7 DEF old

\* A commit of the status leaves the client and the token alone, and the row as true.
LEMMA StatusCommitted ==
    ASSUME LinkInv, NEW t \in Workers, NEW word \in {"authorizing", "error"},
           Commit(t, [worker[t].old EXCEPT !.status = word]), UNCHANGED raced
    PROVE  /\ link' \in Link /\ [worker[t].old EXCEPT !.status = word] \in Link
           /\ link'.client = link.client /\ link'.token = link.token
           /\ LinkCoherent' /\ StatusTrue'
<1> DEFINE old == worker[t].old  new == [old EXCEPT !.status = word]
<1>1. LinkTypeOK /\ old \in Link
  BY DEF LinkInv, LinkTypeOK, Worker
<1>2. new \in Link /\ new.client = old.client /\ new.token = old.token /\ new.status = word
  BY <1>1 DEF Link, Statuses
<1>3. /\ link' \in Link
      /\ link'.client = link.client /\ link'.token = link.token
      /\ link'.status = IF new.status = old.status THEN link.status ELSE new.status
  BY <1>1, <1>2, Committed
<1>4. LinkCoherent'
  BY <1>3 DEF LinkInv, LinkCoherent
<1>5. StatusTrue'
  BY <1>2, <1>3 DEF LinkInv, StatusTrue, Linked
<1> QED
  BY <1>2, <1>3, <1>4, <1>5

\* A thread between requests, or one that has just loaded the row.
Quiet(q) ==
    /\ worker'[q].got = NoToken
    /\ worker'[q].old.client \in {link.client, worker[q].old.client, NoClient}
    /\ worker'[q].old.token \in {link.token, worker[q].old.token, NoToken}
    /\ worker'[q].op = "ensure" => worker'[q].old.client \in Flows /\ worker'[q].old.token \in Tokens

\* Steps that issue nothing and write neither client nor token.
LEMMA Quieted ==
    ASSUME LinkOK, LinkInv, issued' = issued,
           \A f \in authorised' : f \in authorised \/ issued[f] = 0,
           link'.client = link.client, link'.token = link.token,
           \A q \in Workers : worker'[q] = worker[q] \/ Quiet(q)
    PROVE  /\ Bounded(link.token)'
           /\ \A q \in Workers : WorkerInv(q)'
           /\ \A f \in Flows : FlowInv(f)'
<1>1. Bounded(link.token)'
  BY DEF LinkInv, Bounded
<1>2. ASSUME NEW q \in Workers
      PROVE  WorkerInv(q)'
  <2>1. WorkerInv(q) /\ Bounded(link.token) /\ (link.client \in Flows => issued[link.client] >= 1)
    BY DEF LinkInv, FlowInv
  <2>2. CASE worker'[q] = worker[q]
    BY <2>1, <2>2 DEF WorkerInv, Bounded
  <2>3. CASE Quiet(q)
    <3>1. Bounded(worker[q].old.token)
      BY <2>1 DEF WorkerInv
    <3>2. Bounded(worker[q].old.token)' /\ (worker'[q].old.client \in Flows => issued'[worker'[q].old.client] >= 1)
      BY <2>1, <2>3 DEF Quiet, WorkerInv, Bounded, LinkOK
    <3> QED
      BY <2>3, <3>2 DEF Quiet, WorkerInv, Bounded
  <2> QED
    BY <2>2, <2>3
<1>3. ASSUME NEW f \in Flows
      PROVE  FlowInv(f)'
  <2>1. FlowInv(f)
    BY DEF LinkInv
  <2>2. \A t \in Workers : Holds(t, f)' => Holds(t, f) /\ worker'[t] = worker[t]
    BY DEF Holds, Quiet
  <2>3. ASSUME NEW t \in Workers, NEW q \in Workers, Holds(t, f)'
        PROVE  link'.client # f /\ worker'[q].old.client # f
    <3>1. link.client # f /\ worker[q].old.client # f
      BY <2>1, <2>2, <2>3 DEF FlowInv
    <3> QED
      BY <3>1 DEF Quiet, LinkOK
  <2>4. \A t, q \in Workers : Holds(t, f)' /\ Holds(q, f)' => t = q
    BY <2>1, <2>2 DEF FlowInv
  <2>5. issued'[f] >= 1 => f \notin authorised'
    <3>1. issued[f] \in Nat
      BY DEF LinkInv, LinkTypeOK
    <3>2. issued[f] >= 1 => f \notin authorised
      BY <2>1 DEF FlowInv
    <3> QED
      BY <3>1, <3>2
  <2>6. link'.client = f => issued'[f] >= 1
    BY <2>1 DEF FlowInv
  <2> QED
    BY <2>3, <2>4, <2>5, <2>6 DEF FlowInv
<1> QED
  BY <1>1, <1>2, <1>3

\* ... and those of them after which no token is held less that is not counted as lost.
LEMMA StillNewest ==
    ASSUME LinkOK, LinkInv, issued' = issued, link'.client = link.client, link'.token = link.token,
           raced' = raced, lost \subseteq lost',
           \A q \in Workers : \/ worker'[q].got = worker[q].got
                              \/ worker[q].got = NoToken \/ worker[q].got.of \in lost'
    PROVE  TokenNewest'
<1> SUFFICES ASSUME ~raced, link.client # NoClient, link.client \notin lost'
             PROVE  LET newest == [of |-> link.client, n |-> issued[link.client]]
                    IN link.token = newest \/ \E t \in Workers : worker'[t].got = newest
  BY DEF TokenNewest
<1> DEFINE newest == [of |-> link.client, n |-> issued[link.client]]
<1>1. CASE link.token = newest
  BY <1>1
<1>2. ASSUME NEW t \in Workers, worker[t].got = newest
      PROVE  worker'[t].got = newest
  <2>1. worker[t].got.of = link.client
    BY <1>2
  <2>2. newest # NoToken
    <3>1. link.client \in Flows /\ issued[link.client] \in Nat
      BY DEF LinkInv, LinkTypeOK, Link, Clients
    <3> QED
      BY <3>1 DEF LinkOK, Tokens
  <2> QED
    BY <1>2, <2>1, <2>2
<1>3. link.token = newest \/ \E t \in Workers : worker[t].got = newest
  BY DEF LinkInv, TokenNewest
<1> QED
  BY <1>1, <1>2, <1>3

\* Steps that only start, end or reset requests, and commits of the status.
LEMMA PlainStep ==
    ASSUME LinkOK, LinkInv,
           \/ \E t \in Workers :
                \/ \E op \in {"connect", "ensure", "disconnect"} : Enter(t, op)
                \/ AskConnect(t) \/ StartFails(t) \/ PollFails(t) \/ GiveUp(t)
                \/ \E f \in Flows : StartFlow(t, f) \/ Poll(t, f)
           \/ \E f \in Flows : Authorise(f) \/ Expire(f)
           \/ LinkRestart
           \/ UNCHANGED linkVars
    PROVE  LinkInv'
<1> DEFINE Plain == /\ issued' = issued /\ (\A f \in authorised' : f \in authorised \/ issued[f] = 0)
                    /\ link'.client = link.client /\ link'.token = link.token
                    /\ raced' = raced /\ lost \subseteq lost'
           Kept == \A q \in Workers : worker'[q] = worker[q] \/ Quiet(q)
           Held == \A q \in Workers : \/ worker'[q].got = worker[q].got
                                      \/ worker[q].got = NoToken \/ worker[q].got.of \in lost'
           True == LinkTypeOK' /\ LinkCoherent' /\ StatusTrue'
<1> SUFFICES Plain /\ Kept /\ Held /\ True
  <2> SUFFICES ASSUME Plain /\ Kept /\ Held /\ True
               PROVE  LinkInv'
    OBVIOUS
  <2>1. Bounded(link.token)' /\ (\A q \in Workers : WorkerInv(q)') /\ \A f \in Flows : FlowInv(f)'
    BY Quieted
  <2>2. TokenNewest'
    BY StillNewest
  <2> QED
    BY <2>1, <2>2 DEF LinkInv
<1>1. LinkTypeOK /\ link \in Link /\ NoClient \notin Flows /\ NoToken \notin Tokens
  BY DEF LinkInv, LinkTypeOK, LinkOK
<1>2. \A t \in Workers : worker[t] \in Worker /\ worker[t].old \in Link
  BY <1>1 DEF LinkTypeOK, Worker
<1>3. Resting \in Worker /\ Resting.got = NoToken /\ Resting.op = "none"
      /\ Resting.old.client = NoClient /\ Resting.old.token = NoToken
  BY DEF Resting, Worker, Unlinked, Link, Clients, Statuses
<1>4. \A t \in Workers : worker[t].op = "poll" /\ worker[t].got # NoToken
                           => worker[t].got.of = worker[t].flow
  <2> SUFFICES ASSUME NEW t \in Workers, worker[t].op = "poll", worker[t].got # NoToken
               PROVE  worker[t].got.of = worker[t].flow
    OBVIOUS
  <2>1. worker[t].got = [of |-> worker[t].flow, n |-> 1]
    BY DEF LinkInv, WorkerInv
  <2> QED
    BY <2>1
<1>5. LinkCoherent /\ StatusTrue
  BY DEF LinkInv
<1>6. ASSUME NEW t \in Workers, NEW op \in {"connect", "ensure", "disconnect"}, Enter(t, op)
      PROVE  Plain /\ Kept /\ Held /\ True
  <2>1. /\ worker' = [worker EXCEPT ![t] = [op |-> op, old |-> link, flow |-> NoClient, got |-> NoToken]]
        /\ worker[t].op = "none"
        /\ UNCHANGED <<link, registry, started, authorised, issued, raced, lost>>
    BY <1>6 DEF Enter
  <2>2. worker'[t] = [op |-> op, old |-> link, flow |-> NoClient, got |-> NoToken]
        /\ \A q \in Workers \ {t} : worker'[q] = worker[q]
    BY <1>1, <2>1 DEF LinkTypeOK
  <2>3. LinkTypeOK'
    BY <1>1, <2>1 DEF LinkTypeOK, Worker, Clients
  <2>4. worker[t].got = NoToken
    BY <2>1 DEF LinkInv, WorkerInv
  <2>5. op = "ensure" => link.client \in Flows /\ link.token \in Tokens
    BY <1>1, <1>6 DEF Enter, Link, Clients
  <2> QED
    BY <1>5, <2>1, <2>2, <2>3, <2>4, <2>5 DEF Quiet, LinkCoherent, StatusTrue
<1>7. ASSUME NEW t \in Workers, AskConnect(t)
      PROVE  Plain /\ Kept /\ Held /\ True
  <2> DEFINE new == [worker[t].old EXCEPT !.status = "authorizing"]
  <2>1. /\ Commit(t, new) /\ worker[t].op = "connect"
        /\ worker' = [worker EXCEPT ![t].op = "flow", ![t].old = new]
        /\ UNCHANGED <<registry, started, authorised, issued, raced, lost>>
    BY <1>7 DEF AskConnect
  <2>2. /\ link' \in Link /\ new \in Link /\ link'.client = link.client /\ link'.token = link.token
        /\ LinkCoherent' /\ StatusTrue'
    BY <2>1, StatusCommitted
  <2>3. new.client = worker[t].old.client /\ new.token = worker[t].old.token
    BY <1>2 DEF Link
  <2>4. worker[t].got = NoToken
    BY <2>1 DEF LinkInv, WorkerInv
  <2> HIDE DEF new
  <2>5. /\ worker'[t].op = "flow" /\ worker'[t].old = new /\ worker'[t].got = NoToken
        /\ worker'[t] \in Worker
        /\ \A q \in Workers \ {t} : worker'[q] = worker[q]
    BY <1>1, <1>2, <2>1, <2>2, <2>4 DEF LinkTypeOK, Worker
  <2>6. LinkTypeOK'
    BY <1>1, <2>1, <2>2, <2>5 DEF LinkTypeOK
  <2> QED
    BY <2>1, <2>2, <2>3, <2>4, <2>5, <2>6 DEF Quiet
<1>8. ASSUME NEW t \in Workers, StartFails(t) \/ PollFails(t)
      PROVE  Plain /\ Kept /\ Held /\ True
  <2>1. /\ Commit(t, [worker[t].old EXCEPT !.status = "error"])
        /\ worker' = [worker EXCEPT ![t] = Resting]
        /\ registry' \subseteq registry /\ authorised' \subseteq authorised
        /\ lost \subseteq lost' /\ lost' \subseteq Flows
        /\ UNCHANGED <<started, issued, raced>>
    BY <1>1, <1>8 DEF StartFails, PollFails, Ends, LinkTypeOK
  <2>2. /\ link' \in Link /\ link'.client = link.client /\ link'.token = link.token
        /\ LinkCoherent' /\ StatusTrue'
    BY <2>1, StatusCommitted
  <2>3. worker'[t] = Resting /\ \A q \in Workers \ {t} : worker'[q] = worker[q]
    BY <1>1, <2>1 DEF LinkTypeOK
  <2>4. worker[t].got = NoToken \/ worker[t].got.of \in lost'
    BY <1>4, <1>8 DEF StartFails, PollFails, LinkInv, WorkerInv
  <2>5. LinkTypeOK'
    BY <1>1, <1>3, <2>1, <2>2, <2>3 DEF LinkTypeOK
  <2> QED
    BY <1>3, <2>1, <2>2, <2>3, <2>4, <2>5 DEF Quiet
<1>9. ASSUME NEW t \in Workers, GiveUp(t)
      PROVE  Plain /\ Kept /\ Held /\ True
  <2>1. /\ worker' = [worker EXCEPT ![t] = Resting]
        /\ lost' = IF worker[t].got = NoToken THEN lost ELSE lost \cup {worker[t].got.of}
        /\ UNCHANGED <<link, registry, started, authorised, issued, raced>>
    BY <1>9 DEF GiveUp, Ends
  <2>2. worker'[t] = Resting /\ \A q \in Workers \ {t} : worker'[q] = worker[q]
    BY <1>1, <2>1 DEF LinkTypeOK
  <2>3. worker[t].got # NoToken => worker[t].got.of \in Flows
    BY <1>2 DEF Worker, Tokens
  <2>4. LinkTypeOK'
    BY <1>1, <1>3, <2>1, <2>2, <2>3 DEF LinkTypeOK
  <2> QED
    BY <1>3, <1>5, <2>1, <2>2, <2>4 DEF Quiet, LinkCoherent, StatusTrue
<1>10. ASSUME NEW t \in Workers, NEW f \in Flows, StartFlow(t, f)
       PROVE  Plain /\ Kept /\ Held /\ True
  <2>1. /\ worker' = [worker EXCEPT ![t] = Resting] /\ worker[t].op = "flow"
        /\ started' = started \cup {f} /\ registry' = registry \cup {f}
        /\ UNCHANGED <<link, authorised, issued, raced, lost>>
    BY <1>10 DEF StartFlow, Ends
  <2>2. worker'[t] = Resting /\ \A q \in Workers \ {t} : worker'[q] = worker[q]
    BY <1>1, <2>1 DEF LinkTypeOK
  <2>3. worker[t].got = NoToken
    BY <2>1 DEF LinkInv, WorkerInv
  <2>4. LinkTypeOK'
    BY <1>1, <1>3, <2>1, <2>2 DEF LinkTypeOK
  <2> QED
    BY <1>3, <1>5, <2>1, <2>2, <2>3, <2>4 DEF Quiet, LinkCoherent, StatusTrue
<1>11. ASSUME NEW t \in Workers, NEW f \in Flows, Poll(t, f)
       PROVE  Plain /\ Kept /\ Held /\ True
  <2>1. /\ worker' = [worker EXCEPT ![t] = [op |-> "poll", old |-> link, flow |-> f, got |-> NoToken]]
        /\ worker[t].op = "none"
        /\ UNCHANGED <<link, registry, started, authorised, issued, raced, lost>>
    BY <1>11 DEF Poll
  <2>2. worker'[t] = [op |-> "poll", old |-> link, flow |-> f, got |-> NoToken]
        /\ \A q \in Workers \ {t} : worker'[q] = worker[q]
    BY <1>1, <2>1 DEF LinkTypeOK
  <2>3. worker[t].got = NoToken
    BY <2>1 DEF LinkInv, WorkerInv
  <2>4. LinkTypeOK'
    BY <1>1, <2>1, <2>2 DEF LinkTypeOK, Worker, Clients
  <2> QED
    BY <1>5, <2>1, <2>2, <2>3, <2>4 DEF Quiet, LinkCoherent, StatusTrue
<1>12. ASSUME NEW f \in Flows, Authorise(f) \/ Expire(f)
       PROVE  Plain /\ Kept /\ Held /\ True
  <2>1. LinkTypeOK'
    BY <1>1, <1>12 DEF Authorise, Expire, LinkTypeOK
  <2> QED
    BY <1>5, <1>12, <2>1 DEF Authorise, Expire, LinkCoherent, StatusTrue
<1>13. CASE LinkRestart
  <2>1. /\ worker' = [t \in Workers |-> Resting] /\ registry' = {}
        /\ lost' = lost \cup {f \in Flows : \E t \in Workers :
                                worker[t].got # NoToken /\ worker[t].got.of = f}
        /\ UNCHANGED <<link, started, authorised, issued, raced>>
    BY <1>13 DEF LinkRestart
  <2>2. \A q \in Workers : worker[q].got # NoToken => worker[q].got.of \in lost'
    BY <1>2, <2>1 DEF Worker, Tokens
  <2>3. LinkTypeOK'
    BY <1>1, <1>3, <2>1 DEF LinkTypeOK
  <2> QED
    BY <1>3, <1>5, <2>1, <2>2, <2>3 DEF Quiet, LinkCoherent, StatusTrue
<1>14. CASE UNCHANGED linkVars
  <2>1. LinkTypeOK'
    BY <1>1, <1>14 DEF linkVars, LinkTypeOK
  <2> QED
    BY <1>5, <1>14, <2>1 DEF linkVars, LinkCoherent, StatusTrue
<1>15. \/ \E t \in Workers :
            \/ \E op \in {"connect", "ensure", "disconnect"} : Enter(t, op)
            \/ AskConnect(t) \/ StartFails(t) \/ PollFails(t) \/ GiveUp(t)
            \/ \E f \in Flows : StartFlow(t, f) \/ Poll(t, f)
       \/ \E f \in Flows : Authorise(f) \/ Expire(f)
       \/ LinkRestart
       \/ UNCHANGED linkVars
  OBVIOUS
<1> HIDE DEF Plain, Kept, Held, True
<1> QED
  BY <1>6, <1>7, <1>8, <1>9, <1>10, <1>11, <1>12, <1>13, <1>14, <1>15

\* A token is made for f: received by t, or lost.
LEMMA IssueStep ==
    ASSUME LinkOK, LinkInv, NEW t \in Workers, Exchange(t) \/ Refresh(t) \/ RefreshLost(t)
    PROVE  LinkInv'
<1> DEFINE f == IF worker[t].op = "poll" THEN worker[t].flow ELSE worker[t].old.client
           token == [of |-> f, n |-> issued[f] + 1]
<1>1. LinkTypeOK /\ NoClient \notin Flows /\ NoToken \notin Tokens
  BY DEF LinkInv, LinkOK
<1>2. worker[t] \in Worker /\ worker[t].got = NoToken /\ f \in Flows
  <2>1. WorkerInv(t)
    BY DEF LinkInv
  <2> QED
    BY <1>1, <2>1 DEF LinkTypeOK, Exchange, Refresh, RefreshLost, WorkerInv
<1>3. issued[f] \in Nat /\ token \in Tokens /\ token # NoToken /\ token.of = f /\ token.n = issued[f] + 1
  BY <1>1, <1>2 DEF LinkTypeOK, Tokens
<1>4. /\ issued' = [issued EXCEPT ![f] = @ + 1]
      /\ UNCHANGED <<link, registry, started, raced>>
      /\ authorised' \subseteq authorised
  BY DEF Exchange, Refresh, RefreshLost, Issue
<1>5. /\ issued' \in [Flows -> Nat] /\ issued'[f] = issued[f] + 1
      /\ \A g \in Flows : issued'[g] = (IF g = f THEN issued[g] + 1 ELSE issued[g])
  BY <1>1, <1>2, <1>4 DEF LinkTypeOK
<1>6. \A g \in Flows : issued[g] \in Nat /\ issued'[g] \in Nat /\ issued'[g] >= issued[g]
  BY <1>1, <1>5 DEF LinkTypeOK
<1>7. CASE RefreshLost(t)
  <2>1. worker' = worker /\ lost' = lost \cup {f} /\ authorised' = authorised
    BY <1>7 DEF RefreshLost
  <2>2. LinkTypeOK'
    BY <1>1, <1>2, <1>4, <1>5, <2>1 DEF LinkTypeOK
  <2>3. LinkCoherent' /\ StatusTrue'
    BY <1>4 DEF LinkInv, LinkCoherent, StatusTrue
  <2>4. TokenNewest'
    <3> SUFFICES ASSUME ~raced, link.client # NoClient, link.client \notin lost, link.client # f
                 PROVE  LET newest == [of |-> link.client, n |-> issued'[link.client]]
                        IN link.token = newest \/ \E q \in Workers : worker[q].got = newest
      BY <1>4, <2>1 DEF TokenNewest
    <3>1. link.client \in Flows
      BY <1>1 DEF LinkTypeOK, Link, Clients
    <3>2. issued'[link.client] = issued[link.client]
      BY <1>5, <3>1
    <3> QED
      BY <3>2 DEF LinkInv, TokenNewest
  <2>5. Bounded(link.token)'
    BY <1>1, <1>4, <1>6 DEF LinkInv, LinkTypeOK, Link, Bounded, Tokens
  <2>6. ASSUME NEW q \in Workers
        PROVE  WorkerInv(q)'
    <3>1. WorkerInv(q) /\ worker[q] \in Worker
      BY <1>1 DEF LinkInv, LinkTypeOK
    <3>2. Bounded(worker[q].got)' /\ Bounded(worker[q].old.token)'
      BY <1>6, <2>1, <3>1 DEF WorkerInv, Bounded, Worker, Link, Tokens
    <3>3. worker[q].op = "poll" /\ worker[q].got # NoToken => worker[q].flow # f
      <4>1. worker[t].op = "ensure" /\ worker[t].old.client = f
        BY <1>7 DEF RefreshLost
      <4>2. FlowInv(f)
        BY <1>2 DEF LinkInv
      <4> QED
        BY <4>1, <4>2 DEF FlowInv, Holds
    <3>4. worker[q].op = "poll" => worker[q].flow \in Flows
      BY <1>1 DEF LinkTypeOK
    <3>5. worker[q].op = "poll" /\ worker[q].got # NoToken => issued'[worker[q].flow] = 1
      BY <1>5, <3>1, <3>3, <3>4 DEF WorkerInv
    <3>6. worker[q].old.client \in Flows => issued'[worker[q].old.client] >= 1
      BY <1>6, <3>1 DEF WorkerInv
    <3> QED
      BY <2>1, <3>1, <3>2, <3>5, <3>6 DEF WorkerInv
  <2>7. ASSUME NEW g \in Flows
        PROVE  FlowInv(g)'
    <3>1. FlowInv(g) /\ FlowInv(f)
      BY <1>2 DEF LinkInv
    <3>2. \A q \in Workers : Holds(q, g)' <=> Holds(q, g)
      BY <2>1 DEF Holds
    <3>3. issued[f] >= 1
      <4>1. WorkerInv(t) /\ f = worker[t].old.client
        BY <1>7 DEF LinkInv, RefreshLost
      <4> QED
        BY <1>2, <4>1 DEF WorkerInv
    <3>4. issued'[g] >= 1 => g \notin authorised
      BY <1>5, <3>1, <3>3 DEF FlowInv
    <3>5. link.client = g => issued'[g] >= 1
      BY <1>6, <3>1 DEF FlowInv
    <3> QED
      BY <1>4, <2>1, <3>1, <3>2, <3>4, <3>5 DEF FlowInv
  <2> QED
    BY <2>2, <2>3, <2>4, <2>5, <2>6, <2>7 DEF LinkInv
<1>8. CASE Exchange(t) \/ Refresh(t)
  <2>1. worker' = [worker EXCEPT ![t].got = token] /\ lost' = lost
    BY <1>5, <1>8 DEF Exchange, Refresh, Issue
  <2>2. /\ worker'[t] \in Worker /\ worker'[t].got = token
        /\ worker'[t].op = worker[t].op /\ worker'[t].old = worker[t].old /\ worker'[t].flow = worker[t].flow
        /\ \A q \in Workers \ {t} : worker'[q] = worker[q]
    BY <1>1, <1>2, <1>3, <2>1 DEF LinkTypeOK, Worker
  <2>3. LinkTypeOK'
    <3>1. worker' \in [Workers -> Worker]
      BY <1>1, <2>1, <2>2 DEF LinkTypeOK
    <3> QED
      BY <1>1, <1>4, <1>5, <2>1, <2>2, <3>1 DEF LinkTypeOK
  <2>4. LinkCoherent' /\ StatusTrue'
    BY <1>4 DEF LinkInv, LinkCoherent, StatusTrue
  <2> HIDE DEF f, token
  <2>5. TokenNewest'
    <3> SUFFICES ASSUME ~raced, link.client # NoClient, link.client \notin lost
                 PROVE  LET newest == [of |-> link.client, n |-> issued'[link.client]]
                        IN link.token = newest \/ \E q \in Workers : worker'[q].got = newest
      BY <1>4, <2>1 DEF TokenNewest
    <3>1. link.client \in Flows
      BY <1>1 DEF LinkTypeOK, Link, Clients
    <3>2. CASE link.client = f
      <4>1. token = [of |-> link.client, n |-> issued'[link.client]]
        BY <1>3, <1>5, <3>2 DEF token
      <4> QED
        BY <2>2, <4>1
    <3>3. CASE link.client # f
      <4>1. issued'[link.client] = issued[link.client]
        BY <1>5, <3>1, <3>3
      <4> DEFINE newest == [of |-> link.client, n |-> issued[link.client]]
      <4>2. newest # NoToken
        BY <1>1, <1>6, <3>1 DEF Tokens
      <4>3. link.token = newest \/ \E q \in Workers : worker[q].got = newest
        BY DEF LinkInv, TokenNewest
      <4>4. ASSUME NEW q \in Workers, worker[q].got = newest
            PROVE  worker'[q].got = newest
        BY <1>2, <2>2, <4>2, <4>4
      <4> QED
        BY <4>1, <4>3, <4>4
    <3> QED
      BY <3>2, <3>3
  <2>6. Bounded(link.token)'
    BY <1>1, <1>4, <1>6 DEF LinkInv, LinkTypeOK, Link, Bounded, Tokens
  <2>7. worker[t].op = "poll" => f = worker[t].flow /\ issued[f] = 0 /\ f \in authorised /\ f \notin authorised'
    <3>1. ASSUME worker[t].op = "poll"
          PROVE  f = worker[t].flow /\ f \in authorised /\ f \notin authorised'
      BY <1>8, <3>1 DEF Exchange, Refresh, f
    <3>2. f \in authorised => ~(issued[f] >= 1)
      BY <1>2 DEF LinkInv, FlowInv
    <3> QED
      BY <1>3, <3>1, <3>2
  <2>8. worker[t].op = "ensure" => f = worker[t].old.client /\ worker[t].old.token.of = f
                                   /\ issued[f] >= 1
    <3>1. ASSUME worker[t].op = "ensure"
          PROVE  f = worker[t].old.client /\ worker[t].old.token.of = f
      BY <1>8, <3>1 DEF Exchange, Refresh, f
    <3>2. WorkerInv(t)
      BY DEF LinkInv
    <3> QED
      BY <1>2, <3>1, <3>2 DEF WorkerInv
  <2>9. worker[t].op \in {"poll", "ensure"}
    BY <1>8 DEF Exchange, Refresh
  <2>10. ASSUME NEW q \in Workers, worker[q].op = "poll", worker[q].got # NoToken
         PROVE  worker[q].flow \in Flows /\ worker[q].flow # f /\ issued[worker[q].flow] = 1
    <3>1. WorkerInv(q) /\ FlowInv(f)
      BY <1>2 DEF LinkInv
    <3>2. worker[q].flow \in Flows /\ issued[worker[q].flow] = 1
      BY <1>1, <2>10, <3>1 DEF LinkTypeOK, WorkerInv
    <3>3. CASE worker[t].op = "poll"
      BY <2>7, <3>2, <3>3
    <3>4. CASE worker[t].op = "ensure"
      BY <2>8, <2>10, <3>1, <3>2, <3>4 DEF FlowInv, Holds
    <3> QED
      BY <2>9, <3>2, <3>3, <3>4
  <2>11. ASSUME NEW q \in Workers
         PROVE  /\ Bounded(worker[q].old.token)' /\ Bounded(worker[q].got)'
                /\ worker'[q].old = worker[q].old
                /\ worker[q].old.client \in Flows => issued'[worker[q].old.client] >= 1
    <3>1. WorkerInv(q) /\ worker[q] \in Worker
      BY <1>1 DEF LinkInv, LinkTypeOK
    <3>2. worker'[q].old = worker[q].old
      BY <2>2
    <3>3. Bounded(worker[q].old.token)'
      BY <1>6, <3>1, <3>2 DEF WorkerInv, Bounded, Worker, Link, Tokens
    <3>4. Bounded(worker[q].got)'
      <4>1. CASE q = t
        BY <1>3, <1>5, <2>2, <4>1 DEF Bounded
      <4>2. CASE q # t
        BY <1>6, <2>2, <3>1, <4>2 DEF WorkerInv, Bounded, Worker, Tokens
      <4> QED
        BY <4>1, <4>2
    <3>5. worker[q].old.client \in Flows => issued'[worker[q].old.client] >= 1
      BY <1>6, <3>1 DEF WorkerInv
    <3> QED
      BY <3>2, <3>3, <3>4, <3>5
  <2>12. ASSUME NEW q \in Workers
         PROVE  WorkerInv(q)'
    <3>1. WorkerInv(q) /\ worker[q] \in Worker
      BY <1>1 DEF LinkInv, LinkTypeOK
    <3>2. CASE q # t
      <4>1. worker'[q] = worker[q]
        BY <2>2, <3>2
      <4>2. worker[q].op = "poll" /\ worker[q].got # NoToken => issued'[worker[q].flow] = 1
        BY <1>5, <2>10
      <4> QED
        BY <2>11, <3>1, <4>1, <4>2 DEF WorkerInv
    <3>3. CASE q = t
      <4>1. worker[t].op = "poll" => token = [of |-> worker[t].flow, n |-> 1] /\ issued'[worker[t].flow] = 1
        BY <1>5, <1>2, <1>3, <2>7 DEF token
      <4>2. worker[t].op = "ensure" => token.n > worker[t].old.token.n
        <5>1. worker[t].op = "ensure" => worker[t].old.token \in Tokens /\ worker[t].old.token # NoToken
                                         /\ worker[t].old.token.n <= issued[worker[t].old.token.of]
          BY <1>1, <3>1, <3>3 DEF WorkerInv, Bounded
        <5> QED
          BY <1>3, <2>8, <5>1 DEF Tokens
      <4> QED
        BY <1>3, <2>2, <2>8, <2>9, <2>11, <3>1, <3>3, <4>1, <4>2 DEF WorkerInv
    <3> QED
      BY <3>2, <3>3
  <2>13. ASSUME NEW g \in Flows
         PROVE  FlowInv(g)'
    <3>1. FlowInv(g) /\ issued[g] \in Nat
      BY <1>6 DEF LinkInv
    <3>2. \A q \in Workers : Holds(q, g)' => Holds(q, g) \/ (q = t /\ g = f /\ worker[t].op = "poll")
      BY <2>2, <2>7 DEF Holds
    <3>3. worker[t].op = "poll" /\ g = f => link.client # g /\ \A q \in Workers : worker[q].old.client # g
      <4>1. \A q \in Workers : worker[q].old.client = g => issued[g] >= 1
        BY DEF LinkInv, WorkerInv
      <4> QED
        BY <2>7, <3>1, <4>1 DEF FlowInv
    <3>4. worker[t].op = "poll" => \A q \in Workers : ~Holds(q, f)
      BY <2>10 DEF Holds
    <3>5. \A p, q \in Workers : Holds(p, g)' /\ Holds(q, g)' => p = q
      BY <3>1, <3>2, <3>4 DEF FlowInv
    <3>6. \A p, q \in Workers : Holds(p, g)' => link.client # g /\ worker[q].old.client # g
      BY <3>1, <3>2, <3>3 DEF FlowInv
    <3>7. issued'[g] >= 1 => g \notin authorised'
      BY <1>4, <1>5, <2>7, <2>8, <2>9, <3>1 DEF FlowInv
    <3>8. link.client = g => issued'[g] >= 1
      BY <1>6, <3>1 DEF FlowInv
    <3> QED
      BY <1>4, <2>11, <3>5, <3>6, <3>7, <3>8 DEF FlowInv
  <2> QED
    BY <2>3, <2>4, <2>5, <2>6, <2>12, <2>13 DEF LinkInv
<1> QED
  BY <1>7, <1>8

\* What a step that writes the row and ends t leaves to show.
LEMMA Written ==
    ASSUME LinkOK, LinkInv, NEW t \in Workers, worker' = [worker EXCEPT ![t] = Resting],
           UNCHANGED <<authorised, issued>>, LinkTypeOK', LinkCoherent', StatusTrue', TokenNewest',
           Bounded(link.token)',
           \A f \in Flows : link'.client = f => link.client = f \/ Holds(t, f)
    PROVE  LinkInv'
<1>1. worker'[t] = Resting /\ \A q \in Workers \ {t} : worker'[q] = worker[q]
  BY DEF LinkInv, LinkTypeOK
<1>2. ASSUME NEW q \in Workers
      PROVE  WorkerInv(q)'
  <2>1. CASE q = t
    BY <1>1, <2>1 DEF WorkerInv, Resting, Unlinked, Bounded, LinkOK
  <2>2. CASE q # t
    BY <1>1, <2>2 DEF LinkInv, WorkerInv, Bounded
  <2> QED
    BY <2>1, <2>2
<1>3. ASSUME NEW f \in Flows
      PROVE  FlowInv(f)'
  <2>1. FlowInv(f) /\ issued[f] \in Nat
    BY DEF LinkInv, LinkTypeOK
  <2>2. \A q \in Workers : Holds(q, f)' => Holds(q, f) /\ q # t
    BY <1>1 DEF Holds, Resting
  <2>3. \A q \in Workers : worker'[q].old.client = f => worker[q].old.client = f
    BY <1>1 DEF Resting, Unlinked, LinkOK
  <2>4. link'.client = f => link.client = f \/ Holds(t, f)
    OBVIOUS
  <2>5. Holds(t, f) => issued[f] >= 1
    <3>1. WorkerInv(t)
      BY DEF LinkInv
    <3>2. Holds(t, f) => issued[f] = 1
      BY <3>1 DEF WorkerInv, Holds
    <3> QED
      BY <3>2
  <2>6. link'.client = f => issued'[f] >= 1
    BY <2>1, <2>4, <2>5 DEF FlowInv
  <2>7. \A p, q \in Workers : Holds(p, f)' => link'.client # f /\ worker'[q].old.client # f
    BY <2>1, <2>2, <2>3, <2>4 DEF FlowInv
  <2>8. \A p, q \in Workers : Holds(p, f)' /\ Holds(q, f)' => p = q
    BY <2>1, <2>2 DEF FlowInv
  <2> QED
    BY <2>1, <2>6, <2>7, <2>8 DEF FlowInv
<1> QED
  BY <1>2, <1>3 DEF LinkInv

LEMMA FinishStep ==
    ASSUME LinkOK, LinkInv, NEW t \in Workers, NEW word \in Linked, Finish(t, word)
    PROVE  LinkInv'
<1> DEFINE f == worker[t].flow  new == [client |-> f, token |-> worker[t].got, status |-> word]
<1>1. /\ worker[t].op = "poll" /\ worker[t].got # NoToken /\ Commit(t, new)
      /\ raced' = (link # worker[t].old) /\ registry' \subseteq registry
      /\ worker' = [worker EXCEPT ![t] = Resting]
      /\ UNCHANGED <<started, authorised, issued, lost>>
  BY DEF Finish, Ends
<1>2. /\ LinkTypeOK /\ f \in Flows /\ worker[t].got = [of |-> f, n |-> 1] /\ issued[f] = 1
      /\ Bounded(worker[t].got) /\ Bounded(link.token) /\ worker[t].got \in Tokens
  BY <1>1 DEF LinkInv, WorkerInv, LinkTypeOK, Worker
<1>3. new \in Link /\ new.client = f /\ new.token = worker[t].got /\ new.status = word
  BY <1>2 DEF Link, Clients, Linked, Statuses
<1> HIDE DEF new
<1>4. /\ link' \in Link
      /\ link'.client \in {link.client, f} /\ link'.token \in {link.token, worker[t].got}
      /\ ~raced' => link' = new
  BY <1>1, <1>2, <1>3, Committed
<1>5. Resting \in Worker /\ Resting.op = "none"
  BY DEF Resting, Worker, Unlinked, Link, Clients, Statuses
<1>6. LinkTypeOK'
  BY <1>1, <1>2, <1>4, <1>5 DEF LinkTypeOK
<1>7. LinkCoherent' /\ StatusTrue' /\ TokenNewest'
  <2>1. f # NoClient /\ worker[t].got # NoToken /\ worker[t].got.of = f /\ word # "disconnected"
    BY <1>1, <1>2 DEF LinkOK, Linked
  <2>2. LinkCoherent'
    BY <1>3, <1>4, <2>1 DEF LinkCoherent
  <2>3. StatusTrue'
    BY <1>3, <1>4, <2>1 DEF StatusTrue
  <2>4. TokenNewest'
    BY <1>1, <1>2, <1>3, <1>4 DEF TokenNewest
  <2> QED
    BY <2>2, <2>3, <2>4
<1>8. Bounded(link.token)'
  BY <1>1, <1>2, <1>4 DEF Bounded
<1>9. Holds(t, f)
  BY <1>1 DEF Holds
<1> QED
  BY <1>1, <1>2, <1>4, <1>6, <1>7, <1>8, <1>9, Written

LEMMA DisconnectStep ==
    ASSUME LinkOK, LinkInv, NEW t \in Workers, Disconnect(t)
    PROVE  LinkInv'
<1>1. /\ worker[t].op = "disconnect" /\ Commit(t, Unlinked)
      /\ raced' = (link # worker[t].old)
      /\ worker' = [worker EXCEPT ![t] = Resting]
      /\ UNCHANGED <<registry, started, authorised, issued, lost>>
  BY DEF Disconnect, Ends
<1>2. /\ LinkTypeOK /\ Bounded(link.token)
      /\ Unlinked \in Link /\ Unlinked.client = NoClient /\ Unlinked.token = NoToken
      /\ Unlinked.status = "disconnected"
  BY DEF LinkInv, Unlinked, Link, Clients, Statuses
<1>3. /\ link' \in Link
      /\ link'.client \in {link.client, NoClient} /\ link'.token \in {link.token, NoToken}
      /\ ~raced' => link' = Unlinked
  BY <1>1, <1>2, Committed
<1>4. Resting \in Worker /\ Resting.op = "none"
  BY DEF Resting, Worker, Unlinked, Link, Clients, Statuses
<1>5. LinkTypeOK'
  BY <1>1, <1>2, <1>3, <1>4 DEF LinkTypeOK
<1>6. LinkCoherent' /\ StatusTrue' /\ TokenNewest'
  BY <1>2, <1>3 DEF LinkCoherent, StatusTrue, TokenNewest, Linked
<1>7. Bounded(link.token)'
  BY <1>1, <1>2, <1>3 DEF Bounded
<1>8. \A g \in Flows : link'.client = g => link.client = g
  BY <1>3 DEF LinkOK
<1> QED
  BY <1>1, <1>5, <1>6, <1>7, <1>8, Written

\* A token stored over the one it was asked with is newer than that: when it is not the
\* newest, the thread with the newest has it still.
LEMMA StoreTokenStep ==
    ASSUME LinkOK, LinkInv, NEW t \in Workers, StoreToken(t)
    PROVE  LinkInv'
<1> DEFINE old == worker[t].old  got == worker[t].got  new == [old EXCEPT !.token = got]
<1>1. /\ worker[t].op = "ensure" /\ got # NoToken /\ Commit(t, new)
      /\ raced' = (raced \/ link.client # old.client \/ link.token # old.token)
      /\ worker' = [worker EXCEPT ![t] = Resting]
      /\ UNCHANGED <<registry, started, authorised, issued, lost>>
  BY DEF StoreToken, Ends
<1>2. /\ LinkTypeOK /\ WorkerInv(t) /\ Bounded(link.token) /\ old \in Link /\ got \in Tokens
      /\ NoClient \notin Flows /\ NoToken \notin Tokens
  BY <1>1 DEF LinkInv, LinkTypeOK, Worker, LinkOK
<1>3. /\ old.client \in Flows /\ old.token \in Tokens
      /\ got.of = old.client /\ old.token.of = old.client /\ got.n > old.token.n
      /\ got.n <= issued[got.of]
  BY <1>1, <1>2 DEF WorkerInv, Bounded
<1>4. new \in Link /\ new.client = old.client /\ new.token = got /\ new.status = old.status
  BY <1>2 DEF Link
<1> HIDE DEF new
<1>5. /\ link' \in Link /\ link'.client = link.client /\ link'.status = link.status
      /\ link'.token \in {link.token, got} /\ (link.token = old.token => link'.token = got)
  BY <1>1, <1>2, <1>4, Committed
<1>6. Resting \in Worker /\ Resting.op = "none" /\ Resting.got = NoToken
  BY DEF Resting, Worker, Unlinked, Link, Clients, Statuses
<1>7. LinkTypeOK'
  BY <1>1, <1>2, <1>5, <1>6 DEF LinkTypeOK
<1>8. LinkCoherent'
  BY <1>1, <1>2, <1>3, <1>5 DEF LinkCoherent
<1>9. StatusTrue'
  BY <1>1, <1>5 DEF LinkInv, StatusTrue
<1>10. TokenNewest'
  <2> SUFFICES ASSUME ~raced', link.client # NoClient, link.client \notin lost
               PROVE  LET newest == [of |-> link.client, n |-> issued[link.client]]
                      IN link'.token = newest \/ \E q \in Workers : worker'[q].got = newest
    BY <1>1, <1>5 DEF TokenNewest
  <2> DEFINE newest == [of |-> link.client, n |-> issued[link.client]]
  <2>1. ~raced /\ link.client = old.client /\ link.token = old.token /\ link'.token = got
    BY <1>1, <1>5
  <2>2. link.token = newest \/ \E q \in Workers : worker[q].got = newest
    BY <2>1 DEF LinkInv, TokenNewest
  <2>3. issued[link.client] \in Nat /\ got.n \in Nat /\ link.token.n \in Nat
    BY <1>2, <1>3, <2>1 DEF LinkTypeOK, Tokens
  <2>4. link.token # newest
    BY <1>3, <2>1, <2>3
  <2>5. PICK q \in Workers : worker[q].got = newest
    BY <2>2, <2>4
  <2>6. CASE q = t
    BY <2>1, <2>5, <2>6
  <2>7. CASE q # t
    BY <1>1, <1>2, <2>5, <2>7 DEF LinkTypeOK
  <2> QED
    BY <2>6, <2>7
<1>11. Bounded(link.token)'
  BY <1>1, <1>2, <1>3, <1>5 DEF Bounded
<1> QED
  BY <1>1, <1>5, <1>7, <1>8, <1>9, <1>10, <1>11, Written

LEMMA LinkStepInv == ASSUME LinkOK, LinkInv, [LinkNext]_linkVars PROVE LinkInv'
BY PlainStep, IssueStep, FinishStep, DisconnectStep, StoreTokenStep DEF LinkNext

\* The stored token is of the stored client and the page tells the truth about the link,
\* unless a request wrote over the row that another had changed in the meantime.
THEOREM LinkIsCoherent == ASSUME LinkOK PROVE LinkSpec => [](LinkCoherent /\ StatusTrue)
<1>1. LinkInit => LinkInv
  BY LinkInitInv
<1>2. LinkInv /\ [LinkNext]_linkVars => LinkInv'
  BY LinkStepInv
<1>3. LinkInv => LinkCoherent /\ StatusTrue
  BY DEF LinkInv
<1> QED
  BY <1>1, <1>2, <1>3, PTL DEF LinkSpec

\* No refresh replaces the newest token of a client by an older one, unless it wrote over
\* a row that was changed in the meantime.
THEOREM NewestTokenKept == ASSUME LinkOK PROVE LinkSpec => []TokenNewest
<1>1. LinkInit => LinkInv
  BY LinkInitInv
<1>2. LinkInv /\ [LinkNext]_linkVars => LinkInv'
  BY LinkStepInv
<1>3. LinkInv => TokenNewest
  BY DEF LinkInv
<1> QED
  BY <1>1, <1>2, <1>3, PTL DEF LinkSpec

-----------------------------------------------------------------------------
(* Promotion: what a promotion keeps in order, for any number of attempts, *)
(* releases and failures, and that GitHub's records are those of           *)
(* DeploymentRecord.  As in the model, finalizers are run by promotions    *)
(* only, and images are rolled back between promotions only.               *)

\* The lock is held by the one process that is under way.
LockOK == \A a \in Attempts : lock = a <=> pc[a] \notin {"idle", "done"}

\* The journal says how far the process has come.
JournalOK ==
    \A a \in Attempts :
        /\ pc[a] \in {"idle", "preflight", "create", "journal"} => journal[a] = "none"
        /\ pc[a] \in {"announce", "backup", "backed"} => journal[a] = "deployment-created"
        /\ pc[a] \in {"retain", "tagged"} => journal[a] = "backup-verified"
        /\ pc[a] \in {"launch", "wait", "health", "inspect"} => journal[a] = "finalizer-running"
        /\ pc[a] \in {"report", "close"} => journal[a] = "health-verified"
        /\ pc[a] \in {"auditReport", "auditClose"} => journal[a] \in {"health-verified", "audit-pending"}

\* So does the status at GitHub, which is never ahead of the journal.
StatusOK ==
    \A a \in Attempts :
        /\ pc[a] \in {"idle", "preflight", "create"} => status[a] = "none"
        /\ pc[a] = "journal" => status[a] = "created"
        /\ pc[a] = "announce" => status[a] \in {"created", "in_progress"}
        /\ pc[a] \in {"backup", "backed", "retain", "tagged", "launch", "wait", "health",
                      "inspect", "report"} => status[a] = "in_progress"
        /\ pc[a] \in {"close", "auditClose"} => status[a] = "success"
        /\ journal[a] \in {"health-verified", "audit-pending"}
             => status[a] \in {"in_progress", "success"}
        /\ journal[a] = "deployment-recorded" => status[a] = "success"
        /\ status[a] = "success" => journal[a] \in Verified

\* The backup and the rollback image are there before the finalizer starts.
EvidenceOK ==
    \A a \in Attempts :
        /\ pc[a] \in {"idle", "preflight"} => rollback[a] = {}
        /\ rollback[a] \subseteq previous[a] \cup {Fallback}
        /\ pc[a] \in {"backed", "retain", "tagged", "launch", "wait", "health", "inspect"} => backup[a]
        /\ pc[a] \in {"tagged", "launch", "wait", "health", "inspect"} => rollback[a] # {}
        /\ pc[a] \in {"idle", "preflight", "create", "journal", "announce", "backup", "backed",
                      "retain", "tagged", "launch"} => finalizer[a] = "none"
        /\ finalizer[a] # "none" => backup[a] /\ rollback[a] # {}
        /\ finalizer[a] # "none" =>
             journal[a] \notin {"none", "deployment-created", "backup-verified"}

\* A finalizer that runs is waited for, or astray.
AliveOK ==
    \A a \in Attempts :
        finalizer[a] \in Alive => a \in stray \/ (lock = a /\ pc[a] = "wait")

\* What runs, as long as no finalizer is astray.
ImageOK ==
    stray = {} =>
        \A a \in Attempts :
            /\ pc[a] \in {"create", "journal", "announce", "backup", "backed", "retain",
                          "tagged", "launch"} => previous[a] = {deployed}
            /\ finalizer[a] = "checking" => previous[a] = {deployed}
            /\ pc[a] = "wait" /\ finalizer[a] \in {"replaced", "ok"} => deployed.by = a
            /\ pc[a] \in {"health", "inspect"} => deployed.by = a
            /\ pc[a] = "inspect" => deployed.version = Target[a]
            /\ journal[a] \in Verified => image[a] = {[by |-> a, version |-> Target[a]]}

Inv == TypeOK /\ LockOK /\ JournalOK /\ StatusOK /\ EvidenceOK /\ AliveOK /\ ImageOK

-----------------------------------------------------------------------------
LEMMA TypeStep ==
  ASSUME ConstantsOK, TypeOK, [Next]_vars
  PROVE  TypeOK'
PROOF
  <1>1. ASSUME NEW a \in Attempts, Begin(a)
        PROVE  TypeOK'
    BY <1>1 DEF ConstantsOK, TypeOK, Image, Locations, Stages, Mutating, Auditing, Verified, Ended, Alive, Begin, Goes, world, evidence
  <1>2. ASSUME NEW a \in Attempts, Preflight(a)
        PROVE  TypeOK'
    BY <1>2 DEF ConstantsOK, TypeOK, Image, Locations, Stages, Mutating, Auditing, Verified, Ended, Alive, Preflight, Goes, world
  <1>3. ASSUME NEW a \in Attempts, StopsEarly(a)
        PROVE  TypeOK'
    BY <1>3 DEF ConstantsOK, TypeOK, Image, Locations, Stages, Mutating, Auditing, Verified, Ended, Alive, StopsEarly, Leaves, Goes, Posts, world, evidence
  <1>4. ASSUME NEW a \in Attempts, CreateDeployment(a)
        PROVE  TypeOK'
    BY <1>4 DEF ConstantsOK, TypeOK, Image, Locations, Stages, Mutating, Auditing, Verified, Ended, Alive, CreateDeployment, Posts, Goes, world, evidence
  <1>5. ASSUME NEW a \in Attempts, FirstJournal(a)
        PROVE  TypeOK'
    BY <1>5 DEF ConstantsOK, TypeOK, Image, Locations, Stages, Mutating, Auditing, Verified, Ended, Alive, FirstJournal, Writes, Goes, world, evidence
  <1>6. ASSUME NEW a \in Attempts, Announce(a)
        PROVE  TypeOK'
    BY <1>6 DEF ConstantsOK, TypeOK, Image, Locations, Stages, Mutating, Auditing, Verified, Ended, Alive, Announce, Posts, Goes, world, evidence
  <1>7. ASSUME NEW a \in Attempts, BackUp(a)
        PROVE  TypeOK'
    BY <1>7 DEF ConstantsOK, TypeOK, Image, Locations, Stages, Mutating, Auditing, Verified, Ended, Alive, BackUp, Goes, world
  <1>8. ASSUME NEW a \in Attempts, JournalBackup(a)
        PROVE  TypeOK'
    BY <1>8 DEF ConstantsOK, TypeOK, Image, Locations, Stages, Mutating, Auditing, Verified, Ended, Alive, JournalBackup, Writes, Goes, world, evidence
  <1>9. ASSUME NEW a \in Attempts, Retain(a)
        PROVE  TypeOK'
    BY <1>9 DEF ConstantsOK, TypeOK, Image, Locations, Stages, Mutating, Auditing, Verified, Ended, Alive, Retain, Goes, world
  <1>10. ASSUME NEW a \in Attempts, JournalFinalizer(a)
        PROVE  TypeOK'
    BY <1>10 DEF ConstantsOK, TypeOK, Image, Locations, Stages, Mutating, Auditing, Verified, Ended, Alive, JournalFinalizer, Writes, Goes, world, evidence
  <1>11. ASSUME NEW a \in Attempts, Launch(a)
        PROVE  TypeOK'
    BY <1>11 DEF ConstantsOK, TypeOK, Image, Locations, Stages, Mutating, Auditing, Verified, Ended, Alive, Launch, Goes, world, evidence
  <1>12. ASSUME NEW a \in Attempts, FinalizerDone(a)
        PROVE  TypeOK'
    BY <1>12 DEF ConstantsOK, TypeOK, Image, Locations, Stages, Mutating, Auditing, Verified, Ended, Alive, FinalizerDone, Goes, world, evidence
  <1>13. ASSUME NEW a \in Attempts, Health(a)
        PROVE  TypeOK'
    BY <1>13 DEF ConstantsOK, TypeOK, Image, Locations, Stages, Mutating, Auditing, Verified, Ended, Alive, Health, Goes, world, evidence
  <1>14. ASSUME NEW a \in Attempts, Inspect(a)
        PROVE  TypeOK'
    BY <1>14 DEF ConstantsOK, TypeOK, Image, Locations, Stages, Mutating, Auditing, Verified, Ended, Alive, Inspect, Writes, Goes, world, evidence
  <1>15. ASSUME NEW a \in Attempts, Fails(a)
        PROVE  TypeOK'
    BY <1>15 DEF ConstantsOK, TypeOK, Image, Locations, Stages, Mutating, Auditing, Verified, Ended, Alive, Fails, Leaves, Goes, Writes, Posts, world, evidence
  <1>16. ASSUME NEW a \in Attempts, TimesOut(a)
        PROVE  TypeOK'
    BY <1>16 DEF ConstantsOK, TypeOK, Image, Locations, Stages, Mutating, Auditing, Verified, Ended, Alive, TimesOut, world, evidence
  <1>17. ASSUME NEW a \in Attempts, CleanupUncertain(a)
        PROVE  TypeOK'
    BY <1>17 DEF ConstantsOK, TypeOK, Image, Locations, Stages, Mutating, Auditing, Verified, Ended, Alive, CleanupUncertain, Leaves, Goes, Writes, world, evidence
  <1>18. ASSUME NEW a \in Attempts, Report(a)
        PROVE  TypeOK'
    BY <1>18 DEF ConstantsOK, TypeOK, Image, Locations, Stages, Mutating, Auditing, Verified, Ended, Alive, Report, Posts, Goes, Writes, Leaves, world, evidence
  <1>19. ASSUME NEW a \in Attempts, Close(a)
        PROVE  TypeOK'
    BY <1>19 DEF ConstantsOK, TypeOK, Image, Locations, Stages, Mutating, Auditing, Verified, Ended, Alive, Close, Writes, Leaves, Goes, world, evidence
  <1>20. ASSUME NEW a \in Attempts, AuditBegin(a)
        PROVE  TypeOK'
    BY <1>20 DEF ConstantsOK, TypeOK, Image, Locations, Stages, Mutating, Auditing, Verified, Ended, Alive, AuditBegin, Goes, world, evidence
  <1>21. ASSUME NEW a \in Attempts, AuditCheck(a)
        PROVE  TypeOK'
    BY <1>21 DEF ConstantsOK, TypeOK, Image, Locations, Stages, Mutating, Auditing, Verified, Ended, Alive, AuditCheck, Goes, world, evidence
  <1>22. ASSUME NEW a \in Attempts, AuditReport(a)
        PROVE  TypeOK'
    BY <1>22 DEF ConstantsOK, TypeOK, Image, Locations, Stages, Mutating, Auditing, Verified, Ended, Alive, AuditReport, Posts, Goes, world, evidence
  <1>23. ASSUME NEW a \in Attempts, AuditStops(a)
        PROVE  TypeOK'
    BY <1>23 DEF ConstantsOK, TypeOK, Image, Locations, Stages, Mutating, Auditing, Verified, Ended, Alive, AuditStops, Leaves, Goes, Posts, world, evidence
  <1>24. ASSUME NEW a \in Attempts, FinalizerReplaces(a)
        PROVE  TypeOK'
    BY <1>24 DEF ConstantsOK, TypeOK, Image, Locations, Stages, Mutating, Auditing, Verified, Ended, Alive, FinalizerReplaces, world, evidence
  <1>25. ASSUME NEW a \in Attempts, FinalizerEnds(a)
        PROVE  TypeOK'
    BY <1>25 DEF ConstantsOK, TypeOK, Image, Locations, Stages, Mutating, Auditing, Verified, Ended, Alive, FinalizerEnds, world, evidence
  <1>26. ASSUME NEW a \in Attempts, Crash(a)
        PROVE  TypeOK'
    BY <1>26 DEF ConstantsOK, TypeOK, Image, Locations, Stages, Mutating, Auditing, Verified, Ended, Alive, Crash, Leaves, Goes, world, evidence
  <1>27. CASE WorldChanges
    BY <1>27 DEF ConstantsOK, TypeOK, Image, Locations, Stages, Mutating, Auditing, Verified, Ended, Alive, WorldChanges, evidence
  <1>28. CASE Rollback
    BY <1>28 DEF ConstantsOK, TypeOK, Image, Locations, Stages, Mutating, Auditing, Verified, Ended, Alive, Rollback, world, evidence
  <1>29. CASE UNCHANGED vars
    BY <1>29 DEF ConstantsOK, TypeOK, Image, Locations, Stages, Mutating, Auditing, Verified, Ended, Alive, vars, world, evidence
  <1> QED
    BY <1>1, <1>2, <1>3, <1>4, <1>5, <1>6, <1>7, <1>8, <1>9, <1>10, <1>11, <1>12, <1>13, <1>14, <1>15, <1>16, <1>17, <1>18, <1>19, <1>20, <1>21, <1>22, <1>23, <1>24, <1>25, <1>26, <1>27, <1>28, <1>29 DEF Next, Promote, RetryAudit

LEMMA LockStep ==
  ASSUME ConstantsOK, TypeOK, LockOK, [Next]_vars
  PROVE  LockOK'
PROOF
  <1>1. ASSUME NEW a \in Attempts, Begin(a)
        PROVE  LockOK'
    BY <1>1 DEF ConstantsOK, TypeOK, LockOK, Mutating, Auditing, Begin, Goes, world, evidence
  <1>2. ASSUME NEW a \in Attempts, Preflight(a)
        PROVE  LockOK'
    BY <1>2 DEF ConstantsOK, TypeOK, LockOK, Mutating, Auditing, Preflight, Goes, world
  <1>3. ASSUME NEW a \in Attempts, StopsEarly(a)
        PROVE  LockOK'
    BY <1>3 DEF ConstantsOK, TypeOK, LockOK, Mutating, Auditing, StopsEarly, Leaves, Goes, Posts, world, evidence
  <1>4. ASSUME NEW a \in Attempts, CreateDeployment(a)
        PROVE  LockOK'
    BY <1>4 DEF ConstantsOK, TypeOK, LockOK, Mutating, Auditing, CreateDeployment, Posts, Goes, world, evidence
  <1>5. ASSUME NEW a \in Attempts, FirstJournal(a)
        PROVE  LockOK'
    BY <1>5 DEF ConstantsOK, TypeOK, LockOK, Mutating, Auditing, FirstJournal, Writes, Goes, world, evidence
  <1>6. ASSUME NEW a \in Attempts, Announce(a)
        PROVE  LockOK'
    BY <1>6 DEF ConstantsOK, TypeOK, LockOK, Mutating, Auditing, Announce, Posts, Goes, world, evidence
  <1>7. ASSUME NEW a \in Attempts, BackUp(a)
        PROVE  LockOK'
    BY <1>7 DEF ConstantsOK, TypeOK, LockOK, Mutating, Auditing, BackUp, Goes, world
  <1>8. ASSUME NEW a \in Attempts, JournalBackup(a)
        PROVE  LockOK'
    BY <1>8 DEF ConstantsOK, TypeOK, LockOK, Mutating, Auditing, JournalBackup, Writes, Goes, world, evidence
  <1>9. ASSUME NEW a \in Attempts, Retain(a)
        PROVE  LockOK'
    BY <1>9 DEF ConstantsOK, TypeOK, LockOK, Mutating, Auditing, Retain, Goes, world
  <1>10. ASSUME NEW a \in Attempts, JournalFinalizer(a)
        PROVE  LockOK'
    BY <1>10 DEF ConstantsOK, TypeOK, LockOK, Mutating, Auditing, JournalFinalizer, Writes, Goes, world, evidence
  <1>11. ASSUME NEW a \in Attempts, Launch(a)
        PROVE  LockOK'
    BY <1>11 DEF ConstantsOK, TypeOK, LockOK, Mutating, Auditing, Launch, Goes, world, evidence
  <1>12. ASSUME NEW a \in Attempts, FinalizerDone(a)
        PROVE  LockOK'
    BY <1>12 DEF ConstantsOK, TypeOK, LockOK, Mutating, Auditing, FinalizerDone, Goes, world, evidence
  <1>13. ASSUME NEW a \in Attempts, Health(a)
        PROVE  LockOK'
    BY <1>13 DEF ConstantsOK, TypeOK, LockOK, Mutating, Auditing, Health, Goes, world, evidence
  <1>14. ASSUME NEW a \in Attempts, Inspect(a)
        PROVE  LockOK'
    BY <1>14 DEF ConstantsOK, TypeOK, LockOK, Mutating, Auditing, Inspect, Writes, Goes, world, evidence
  <1>15. ASSUME NEW a \in Attempts, Fails(a)
        PROVE  LockOK'
    BY <1>15 DEF ConstantsOK, TypeOK, LockOK, Mutating, Auditing, Fails, Leaves, Goes, Writes, Posts, world, evidence
  <1>16. ASSUME NEW a \in Attempts, TimesOut(a)
        PROVE  LockOK'
    BY <1>16 DEF ConstantsOK, TypeOK, LockOK, Mutating, Auditing, TimesOut, world, evidence
  <1>17. ASSUME NEW a \in Attempts, CleanupUncertain(a)
        PROVE  LockOK'
    BY <1>17 DEF ConstantsOK, TypeOK, LockOK, Mutating, Auditing, CleanupUncertain, Leaves, Goes, Writes, world, evidence
  <1>18. ASSUME NEW a \in Attempts, Report(a)
        PROVE  LockOK'
    BY <1>18 DEF ConstantsOK, TypeOK, LockOK, Mutating, Auditing, Report, Posts, Goes, Writes, Leaves, world, evidence
  <1>19. ASSUME NEW a \in Attempts, Close(a)
        PROVE  LockOK'
    BY <1>19 DEF ConstantsOK, TypeOK, LockOK, Mutating, Auditing, Close, Writes, Leaves, Goes, world, evidence
  <1>20. ASSUME NEW a \in Attempts, AuditBegin(a)
        PROVE  LockOK'
    BY <1>20 DEF ConstantsOK, TypeOK, LockOK, Mutating, Auditing, AuditBegin, Goes, world, evidence
  <1>21. ASSUME NEW a \in Attempts, AuditCheck(a)
        PROVE  LockOK'
    BY <1>21 DEF ConstantsOK, TypeOK, LockOK, Mutating, Auditing, AuditCheck, Goes, world, evidence
  <1>22. ASSUME NEW a \in Attempts, AuditReport(a)
        PROVE  LockOK'
    BY <1>22 DEF ConstantsOK, TypeOK, LockOK, Mutating, Auditing, AuditReport, Posts, Goes, world, evidence
  <1>23. ASSUME NEW a \in Attempts, AuditStops(a)
        PROVE  LockOK'
    BY <1>23 DEF ConstantsOK, TypeOK, LockOK, Mutating, Auditing, AuditStops, Leaves, Goes, Posts, world, evidence
  <1>24. ASSUME NEW a \in Attempts, FinalizerReplaces(a)
        PROVE  LockOK'
    BY <1>24 DEF ConstantsOK, TypeOK, LockOK, Mutating, Auditing, FinalizerReplaces, world, evidence
  <1>25. ASSUME NEW a \in Attempts, FinalizerEnds(a)
        PROVE  LockOK'
    BY <1>25 DEF ConstantsOK, TypeOK, LockOK, Mutating, Auditing, FinalizerEnds, world, evidence
  <1>26. ASSUME NEW a \in Attempts, Crash(a)
        PROVE  LockOK'
    BY <1>26 DEF ConstantsOK, TypeOK, LockOK, Mutating, Auditing, Crash, Leaves, Goes, world, evidence
  <1>27. CASE WorldChanges
    BY <1>27 DEF ConstantsOK, TypeOK, LockOK, Mutating, Auditing, WorldChanges, evidence
  <1>28. CASE Rollback
    BY <1>28 DEF ConstantsOK, TypeOK, LockOK, Mutating, Auditing, Rollback, world, evidence
  <1>29. CASE UNCHANGED vars
    BY <1>29 DEF ConstantsOK, TypeOK, LockOK, Mutating, Auditing, vars, world, evidence
  <1> QED
    BY <1>1, <1>2, <1>3, <1>4, <1>5, <1>6, <1>7, <1>8, <1>9, <1>10, <1>11, <1>12, <1>13, <1>14, <1>15, <1>16, <1>17, <1>18, <1>19, <1>20, <1>21, <1>22, <1>23, <1>24, <1>25, <1>26, <1>27, <1>28, <1>29 DEF Next, Promote, RetryAudit

LEMMA JournalStep ==
  ASSUME ConstantsOK, TypeOK, JournalOK, [Next]_vars
  PROVE  JournalOK'
PROOF
  <1>1. ASSUME NEW a \in Attempts, Begin(a)
        PROVE  JournalOK'
    BY <1>1 DEF TypeOK, JournalOK, Mutating, Auditing, Begin, Goes, world, evidence
  <1>2. ASSUME NEW a \in Attempts, Preflight(a)
        PROVE  JournalOK'
    BY <1>2 DEF TypeOK, JournalOK, Mutating, Auditing, Preflight, Goes, world
  <1>3. ASSUME NEW a \in Attempts, StopsEarly(a)
        PROVE  JournalOK'
    BY <1>3 DEF TypeOK, JournalOK, Mutating, Auditing, StopsEarly, Leaves, Goes, Posts, world, evidence
  <1>4. ASSUME NEW a \in Attempts, CreateDeployment(a)
        PROVE  JournalOK'
    BY <1>4 DEF TypeOK, JournalOK, Mutating, Auditing, CreateDeployment, Posts, Goes, world, evidence
  <1>5. ASSUME NEW a \in Attempts, FirstJournal(a)
        PROVE  JournalOK'
    BY <1>5 DEF TypeOK, JournalOK, Mutating, Auditing, FirstJournal, Writes, Goes, world, evidence
  <1>6. ASSUME NEW a \in Attempts, Announce(a)
        PROVE  JournalOK'
    BY <1>6 DEF TypeOK, JournalOK, Mutating, Auditing, Announce, Posts, Goes, world, evidence
  <1>7. ASSUME NEW a \in Attempts, BackUp(a)
        PROVE  JournalOK'
    BY <1>7 DEF TypeOK, JournalOK, Mutating, Auditing, BackUp, Goes, world
  <1>8. ASSUME NEW a \in Attempts, JournalBackup(a)
        PROVE  JournalOK'
    BY <1>8 DEF TypeOK, JournalOK, Mutating, Auditing, JournalBackup, Writes, Goes, world, evidence
  <1>9. ASSUME NEW a \in Attempts, Retain(a)
        PROVE  JournalOK'
    BY <1>9 DEF TypeOK, JournalOK, Mutating, Auditing, Retain, Goes, world
  <1>10. ASSUME NEW a \in Attempts, JournalFinalizer(a)
        PROVE  JournalOK'
    BY <1>10 DEF TypeOK, JournalOK, Mutating, Auditing, JournalFinalizer, Writes, Goes, world, evidence
  <1>11. ASSUME NEW a \in Attempts, Launch(a)
        PROVE  JournalOK'
    BY <1>11 DEF TypeOK, JournalOK, Mutating, Auditing, Launch, Goes, world, evidence
  <1>12. ASSUME NEW a \in Attempts, FinalizerDone(a)
        PROVE  JournalOK'
    BY <1>12 DEF TypeOK, JournalOK, Mutating, Auditing, FinalizerDone, Goes, world, evidence
  <1>13. ASSUME NEW a \in Attempts, Health(a)
        PROVE  JournalOK'
    BY <1>13 DEF TypeOK, JournalOK, Mutating, Auditing, Health, Goes, world, evidence
  <1>14. ASSUME NEW a \in Attempts, Inspect(a)
        PROVE  JournalOK'
    BY <1>14 DEF TypeOK, JournalOK, Mutating, Auditing, Inspect, Writes, Goes, world, evidence
  <1>15. ASSUME NEW a \in Attempts, Fails(a)
        PROVE  JournalOK'
    BY <1>15 DEF TypeOK, JournalOK, Mutating, Auditing, Fails, Leaves, Goes, Writes, Posts, world, evidence
  <1>16. ASSUME NEW a \in Attempts, TimesOut(a)
        PROVE  JournalOK'
    BY <1>16 DEF TypeOK, JournalOK, Mutating, Auditing, TimesOut, world, evidence
  <1>17. ASSUME NEW a \in Attempts, CleanupUncertain(a)
        PROVE  JournalOK'
    BY <1>17 DEF TypeOK, JournalOK, Mutating, Auditing, CleanupUncertain, Leaves, Goes, Writes, world, evidence
  <1>18. ASSUME NEW a \in Attempts, Report(a)
        PROVE  JournalOK'
    BY <1>18 DEF TypeOK, JournalOK, Mutating, Auditing, Report, Posts, Goes, Writes, Leaves, world, evidence
  <1>19. ASSUME NEW a \in Attempts, Close(a)
        PROVE  JournalOK'
    BY <1>19 DEF TypeOK, JournalOK, Mutating, Auditing, Close, Writes, Leaves, Goes, world, evidence
  <1>20. ASSUME NEW a \in Attempts, AuditBegin(a)
        PROVE  JournalOK'
    BY <1>20 DEF TypeOK, JournalOK, Mutating, Auditing, AuditBegin, Goes, world, evidence
  <1>21. ASSUME NEW a \in Attempts, AuditCheck(a)
        PROVE  JournalOK'
    BY <1>21 DEF TypeOK, JournalOK, Mutating, Auditing, AuditCheck, Goes, world, evidence
  <1>22. ASSUME NEW a \in Attempts, AuditReport(a)
        PROVE  JournalOK'
    BY <1>22 DEF TypeOK, JournalOK, Mutating, Auditing, AuditReport, Posts, Goes, world, evidence
  <1>23. ASSUME NEW a \in Attempts, AuditStops(a)
        PROVE  JournalOK'
    BY <1>23 DEF TypeOK, JournalOK, Mutating, Auditing, AuditStops, Leaves, Goes, Posts, world, evidence
  <1>24. ASSUME NEW a \in Attempts, FinalizerReplaces(a)
        PROVE  JournalOK'
    BY <1>24 DEF TypeOK, JournalOK, Mutating, Auditing, FinalizerReplaces, world, evidence
  <1>25. ASSUME NEW a \in Attempts, FinalizerEnds(a)
        PROVE  JournalOK'
    BY <1>25 DEF TypeOK, JournalOK, Mutating, Auditing, FinalizerEnds, world, evidence
  <1>26. ASSUME NEW a \in Attempts, Crash(a)
        PROVE  JournalOK'
    BY <1>26 DEF TypeOK, JournalOK, Mutating, Auditing, Crash, Leaves, Goes, world, evidence
  <1>27. CASE WorldChanges
    BY <1>27 DEF TypeOK, JournalOK, Mutating, Auditing, WorldChanges, evidence
  <1>28. CASE Rollback
    BY <1>28 DEF TypeOK, JournalOK, Mutating, Auditing, Rollback, world, evidence
  <1>29. CASE UNCHANGED vars
    BY <1>29 DEF TypeOK, JournalOK, Mutating, Auditing, vars, world, evidence
  <1> QED
    BY <1>1, <1>2, <1>3, <1>4, <1>5, <1>6, <1>7, <1>8, <1>9, <1>10, <1>11, <1>12, <1>13, <1>14, <1>15, <1>16, <1>17, <1>18, <1>19, <1>20, <1>21, <1>22, <1>23, <1>24, <1>25, <1>26, <1>27, <1>28, <1>29 DEF Next, Promote, RetryAudit

LEMMA StatusStep ==
  ASSUME ConstantsOK, TypeOK, JournalOK, StatusOK, [Next]_vars
  PROVE  StatusOK'
PROOF
  <1>1. ASSUME NEW a \in Attempts, Begin(a)
        PROVE  StatusOK'
    BY <1>1 DEF TypeOK, JournalOK, StatusOK, Verified, Mutating, Auditing, Begin, Goes, world, evidence
  <1>2. ASSUME NEW a \in Attempts, Preflight(a)
        PROVE  StatusOK'
    BY <1>2 DEF TypeOK, JournalOK, StatusOK, Verified, Mutating, Auditing, Preflight, Goes, world
  <1>3. ASSUME NEW a \in Attempts, StopsEarly(a)
        PROVE  StatusOK'
    BY <1>3 DEF TypeOK, JournalOK, StatusOK, Verified, Mutating, Auditing, StopsEarly, Leaves, Goes, Posts, world, evidence
  <1>4. ASSUME NEW a \in Attempts, CreateDeployment(a)
        PROVE  StatusOK'
    BY <1>4 DEF TypeOK, JournalOK, StatusOK, Verified, Mutating, Auditing, CreateDeployment, Posts, Goes, world, evidence
  <1>5. ASSUME NEW a \in Attempts, FirstJournal(a)
        PROVE  StatusOK'
    BY <1>5 DEF TypeOK, JournalOK, StatusOK, Verified, Mutating, Auditing, FirstJournal, Writes, Goes, world, evidence
  <1>6. ASSUME NEW a \in Attempts, Announce(a)
        PROVE  StatusOK'
    BY <1>6 DEF TypeOK, JournalOK, StatusOK, Verified, Mutating, Auditing, Announce, Posts, Goes, world, evidence
  <1>7. ASSUME NEW a \in Attempts, BackUp(a)
        PROVE  StatusOK'
    BY <1>7 DEF TypeOK, JournalOK, StatusOK, Verified, Mutating, Auditing, BackUp, Goes, world
  <1>8. ASSUME NEW a \in Attempts, JournalBackup(a)
        PROVE  StatusOK'
    BY <1>8 DEF TypeOK, JournalOK, StatusOK, Verified, Mutating, Auditing, JournalBackup, Writes, Goes, world, evidence
  <1>9. ASSUME NEW a \in Attempts, Retain(a)
        PROVE  StatusOK'
    BY <1>9 DEF TypeOK, JournalOK, StatusOK, Verified, Mutating, Auditing, Retain, Goes, world
  <1>10. ASSUME NEW a \in Attempts, JournalFinalizer(a)
        PROVE  StatusOK'
    BY <1>10 DEF TypeOK, JournalOK, StatusOK, Verified, Mutating, Auditing, JournalFinalizer, Writes, Goes, world, evidence
  <1>11. ASSUME NEW a \in Attempts, Launch(a)
        PROVE  StatusOK'
    BY <1>11 DEF TypeOK, JournalOK, StatusOK, Verified, Mutating, Auditing, Launch, Goes, world, evidence
  <1>12. ASSUME NEW a \in Attempts, FinalizerDone(a)
        PROVE  StatusOK'
    BY <1>12 DEF TypeOK, JournalOK, StatusOK, Verified, Mutating, Auditing, FinalizerDone, Goes, world, evidence
  <1>13. ASSUME NEW a \in Attempts, Health(a)
        PROVE  StatusOK'
    BY <1>13 DEF TypeOK, JournalOK, StatusOK, Verified, Mutating, Auditing, Health, Goes, world, evidence
  <1>14. ASSUME NEW a \in Attempts, Inspect(a)
        PROVE  StatusOK'
    BY <1>14 DEF TypeOK, JournalOK, StatusOK, Verified, Mutating, Auditing, Inspect, Writes, Goes, world, evidence
  <1>15. ASSUME NEW a \in Attempts, Fails(a)
        PROVE  StatusOK'
    BY <1>15 DEF TypeOK, JournalOK, StatusOK, Verified, Mutating, Auditing, Fails, Leaves, Goes, Writes, Posts, world, evidence
  <1>16. ASSUME NEW a \in Attempts, TimesOut(a)
        PROVE  StatusOK'
    BY <1>16 DEF TypeOK, JournalOK, StatusOK, Verified, Mutating, Auditing, TimesOut, world, evidence
  <1>17. ASSUME NEW a \in Attempts, CleanupUncertain(a)
        PROVE  StatusOK'
    BY <1>17 DEF TypeOK, JournalOK, StatusOK, Verified, Mutating, Auditing, CleanupUncertain, Leaves, Goes, Writes, world, evidence
  <1>18. ASSUME NEW a \in Attempts, Report(a)
        PROVE  StatusOK'
    BY <1>18 DEF TypeOK, JournalOK, StatusOK, Verified, Mutating, Auditing, Report, Posts, Goes, Writes, Leaves, world, evidence
  <1>19. ASSUME NEW a \in Attempts, Close(a)
        PROVE  StatusOK'
    BY <1>19 DEF TypeOK, JournalOK, StatusOK, Verified, Mutating, Auditing, Close, Writes, Leaves, Goes, world, evidence
  <1>20. ASSUME NEW a \in Attempts, AuditBegin(a)
        PROVE  StatusOK'
    BY <1>20 DEF TypeOK, JournalOK, StatusOK, Verified, Mutating, Auditing, AuditBegin, Goes, world, evidence
  <1>21. ASSUME NEW a \in Attempts, AuditCheck(a)
        PROVE  StatusOK'
    BY <1>21 DEF TypeOK, JournalOK, StatusOK, Verified, Mutating, Auditing, AuditCheck, Goes, world, evidence
  <1>22. ASSUME NEW a \in Attempts, AuditReport(a)
        PROVE  StatusOK'
    BY <1>22 DEF TypeOK, JournalOK, StatusOK, Verified, Mutating, Auditing, AuditReport, Posts, Goes, world, evidence
  <1>23. ASSUME NEW a \in Attempts, AuditStops(a)
        PROVE  StatusOK'
    BY <1>23 DEF TypeOK, JournalOK, StatusOK, Verified, Mutating, Auditing, AuditStops, Leaves, Goes, Posts, world, evidence
  <1>24. ASSUME NEW a \in Attempts, FinalizerReplaces(a)
        PROVE  StatusOK'
    BY <1>24 DEF TypeOK, JournalOK, StatusOK, Verified, Mutating, Auditing, FinalizerReplaces, world, evidence
  <1>25. ASSUME NEW a \in Attempts, FinalizerEnds(a)
        PROVE  StatusOK'
    BY <1>25 DEF TypeOK, JournalOK, StatusOK, Verified, Mutating, Auditing, FinalizerEnds, world, evidence
  <1>26. ASSUME NEW a \in Attempts, Crash(a)
        PROVE  StatusOK'
    BY <1>26 DEF TypeOK, JournalOK, StatusOK, Verified, Mutating, Auditing, Crash, Leaves, Goes, world, evidence
  <1>27. CASE WorldChanges
    BY <1>27 DEF TypeOK, JournalOK, StatusOK, Verified, Mutating, Auditing, WorldChanges, evidence
  <1>28. CASE Rollback
    BY <1>28 DEF TypeOK, JournalOK, StatusOK, Verified, Mutating, Auditing, Rollback, world, evidence
  <1>29. CASE UNCHANGED vars
    BY <1>29 DEF TypeOK, JournalOK, StatusOK, Verified, Mutating, Auditing, vars, world, evidence
  <1> QED
    BY <1>1, <1>2, <1>3, <1>4, <1>5, <1>6, <1>7, <1>8, <1>9, <1>10, <1>11, <1>12, <1>13, <1>14, <1>15, <1>16, <1>17, <1>18, <1>19, <1>20, <1>21, <1>22, <1>23, <1>24, <1>25, <1>26, <1>27, <1>28, <1>29 DEF Next, Promote, RetryAudit

LEMMA EvidenceStep ==
  ASSUME ConstantsOK, TypeOK, JournalOK, EvidenceOK, [Next]_vars
  PROVE  EvidenceOK'
PROOF
  <1>1. ASSUME NEW a \in Attempts, Begin(a)
        PROVE  EvidenceOK'
    BY <1>1 DEF TypeOK, JournalOK, EvidenceOK, Alive, Mutating, Auditing, Begin, Goes, world, evidence
  <1>2. ASSUME NEW a \in Attempts, Preflight(a)
        PROVE  EvidenceOK'
    BY <1>2 DEF TypeOK, JournalOK, EvidenceOK, Alive, Mutating, Auditing, Preflight, Goes, world
  <1>3. ASSUME NEW a \in Attempts, StopsEarly(a)
        PROVE  EvidenceOK'
    BY <1>3 DEF TypeOK, JournalOK, EvidenceOK, Alive, Mutating, Auditing, StopsEarly, Leaves, Goes, Posts, world, evidence
  <1>4. ASSUME NEW a \in Attempts, CreateDeployment(a)
        PROVE  EvidenceOK'
    BY <1>4 DEF TypeOK, JournalOK, EvidenceOK, Alive, Mutating, Auditing, CreateDeployment, Posts, Goes, world, evidence
  <1>5. ASSUME NEW a \in Attempts, FirstJournal(a)
        PROVE  EvidenceOK'
    BY <1>5 DEF TypeOK, JournalOK, EvidenceOK, Alive, Mutating, Auditing, FirstJournal, Writes, Goes, world, evidence
  <1>6. ASSUME NEW a \in Attempts, Announce(a)
        PROVE  EvidenceOK'
    BY <1>6 DEF TypeOK, JournalOK, EvidenceOK, Alive, Mutating, Auditing, Announce, Posts, Goes, world, evidence
  <1>7. ASSUME NEW a \in Attempts, BackUp(a)
        PROVE  EvidenceOK'
    BY <1>7 DEF TypeOK, JournalOK, EvidenceOK, Alive, Mutating, Auditing, BackUp, Goes, world
  <1>8. ASSUME NEW a \in Attempts, JournalBackup(a)
        PROVE  EvidenceOK'
    BY <1>8 DEF TypeOK, JournalOK, EvidenceOK, Alive, Mutating, Auditing, JournalBackup, Writes, Goes, world, evidence
  <1>9. ASSUME NEW a \in Attempts, Retain(a)
        PROVE  EvidenceOK'
    BY <1>9 DEF TypeOK, JournalOK, EvidenceOK, Alive, Mutating, Auditing, Retain, Goes, world
  <1>10. ASSUME NEW a \in Attempts, JournalFinalizer(a)
        PROVE  EvidenceOK'
    BY <1>10 DEF TypeOK, JournalOK, EvidenceOK, Alive, Mutating, Auditing, JournalFinalizer, Writes, Goes, world, evidence
  <1>11. ASSUME NEW a \in Attempts, Launch(a)
        PROVE  EvidenceOK'
    BY <1>11 DEF TypeOK, JournalOK, EvidenceOK, Alive, Mutating, Auditing, Launch, Goes, world, evidence
  <1>12. ASSUME NEW a \in Attempts, FinalizerDone(a)
        PROVE  EvidenceOK'
    BY <1>12 DEF TypeOK, JournalOK, EvidenceOK, Alive, Mutating, Auditing, FinalizerDone, Goes, world, evidence
  <1>13. ASSUME NEW a \in Attempts, Health(a)
        PROVE  EvidenceOK'
    BY <1>13 DEF TypeOK, JournalOK, EvidenceOK, Alive, Mutating, Auditing, Health, Goes, world, evidence
  <1>14. ASSUME NEW a \in Attempts, Inspect(a)
        PROVE  EvidenceOK'
    BY <1>14 DEF TypeOK, JournalOK, EvidenceOK, Alive, Mutating, Auditing, Inspect, Writes, Goes, world, evidence
  <1>15. ASSUME NEW a \in Attempts, Fails(a)
        PROVE  EvidenceOK'
    BY <1>15 DEF TypeOK, JournalOK, EvidenceOK, Alive, Mutating, Auditing, Fails, Leaves, Goes, Writes, Posts, world, evidence
  <1>16. ASSUME NEW a \in Attempts, TimesOut(a)
        PROVE  EvidenceOK'
    BY <1>16 DEF TypeOK, JournalOK, EvidenceOK, Alive, Mutating, Auditing, TimesOut, world, evidence
  <1>17. ASSUME NEW a \in Attempts, CleanupUncertain(a)
        PROVE  EvidenceOK'
    BY <1>17 DEF TypeOK, JournalOK, EvidenceOK, Alive, Mutating, Auditing, CleanupUncertain, Leaves, Goes, Writes, world, evidence
  <1>18. ASSUME NEW a \in Attempts, Report(a)
        PROVE  EvidenceOK'
    BY <1>18 DEF TypeOK, JournalOK, EvidenceOK, Alive, Mutating, Auditing, Report, Posts, Goes, Writes, Leaves, world, evidence
  <1>19. ASSUME NEW a \in Attempts, Close(a)
        PROVE  EvidenceOK'
    BY <1>19 DEF TypeOK, JournalOK, EvidenceOK, Alive, Mutating, Auditing, Close, Writes, Leaves, Goes, world, evidence
  <1>20. ASSUME NEW a \in Attempts, AuditBegin(a)
        PROVE  EvidenceOK'
    BY <1>20 DEF TypeOK, JournalOK, EvidenceOK, Alive, Mutating, Auditing, AuditBegin, Goes, world, evidence
  <1>21. ASSUME NEW a \in Attempts, AuditCheck(a)
        PROVE  EvidenceOK'
    BY <1>21 DEF TypeOK, JournalOK, EvidenceOK, Alive, Mutating, Auditing, AuditCheck, Goes, world, evidence
  <1>22. ASSUME NEW a \in Attempts, AuditReport(a)
        PROVE  EvidenceOK'
    BY <1>22 DEF TypeOK, JournalOK, EvidenceOK, Alive, Mutating, Auditing, AuditReport, Posts, Goes, world, evidence
  <1>23. ASSUME NEW a \in Attempts, AuditStops(a)
        PROVE  EvidenceOK'
    BY <1>23 DEF TypeOK, JournalOK, EvidenceOK, Alive, Mutating, Auditing, AuditStops, Leaves, Goes, Posts, world, evidence
  <1>24. ASSUME NEW a \in Attempts, FinalizerReplaces(a)
        PROVE  EvidenceOK'
    BY <1>24 DEF TypeOK, JournalOK, EvidenceOK, Alive, Mutating, Auditing, FinalizerReplaces, world, evidence
  <1>25. ASSUME NEW a \in Attempts, FinalizerEnds(a)
        PROVE  EvidenceOK'
    BY <1>25 DEF TypeOK, JournalOK, EvidenceOK, Alive, Mutating, Auditing, FinalizerEnds, world, evidence
  <1>26. ASSUME NEW a \in Attempts, Crash(a)
        PROVE  EvidenceOK'
    BY <1>26 DEF TypeOK, JournalOK, EvidenceOK, Alive, Mutating, Auditing, Crash, Leaves, Goes, world, evidence
  <1>27. CASE WorldChanges
    BY <1>27 DEF TypeOK, JournalOK, EvidenceOK, Alive, Mutating, Auditing, WorldChanges, evidence
  <1>28. CASE Rollback
    BY <1>28 DEF TypeOK, JournalOK, EvidenceOK, Alive, Mutating, Auditing, Rollback, world, evidence
  <1>29. CASE UNCHANGED vars
    BY <1>29 DEF TypeOK, JournalOK, EvidenceOK, Alive, Mutating, Auditing, vars, world, evidence
  <1> QED
    BY <1>1, <1>2, <1>3, <1>4, <1>5, <1>6, <1>7, <1>8, <1>9, <1>10, <1>11, <1>12, <1>13, <1>14, <1>15, <1>16, <1>17, <1>18, <1>19, <1>20, <1>21, <1>22, <1>23, <1>24, <1>25, <1>26, <1>27, <1>28, <1>29 DEF Next, Promote, RetryAudit

LEMMA AliveStep ==
  ASSUME ConstantsOK, TypeOK, LockOK, EvidenceOK, AliveOK, [Next]_vars
  PROVE  AliveOK'
PROOF
  <1>1. ASSUME NEW a \in Attempts, Begin(a)
        PROVE  AliveOK'
    BY <1>1 DEF ConstantsOK, TypeOK, LockOK, EvidenceOK, AliveOK, Alive, Mutating, Auditing, Begin, Goes, world, evidence
  <1>2. ASSUME NEW a \in Attempts, Preflight(a)
        PROVE  AliveOK'
    BY <1>2 DEF ConstantsOK, TypeOK, LockOK, EvidenceOK, AliveOK, Alive, Mutating, Auditing, Preflight, Goes, world
  <1>3. ASSUME NEW a \in Attempts, StopsEarly(a)
        PROVE  AliveOK'
    BY <1>3 DEF ConstantsOK, TypeOK, LockOK, EvidenceOK, AliveOK, Alive, Mutating, Auditing, StopsEarly, Leaves, Goes, Posts, world, evidence
  <1>4. ASSUME NEW a \in Attempts, CreateDeployment(a)
        PROVE  AliveOK'
    BY <1>4 DEF ConstantsOK, TypeOK, LockOK, EvidenceOK, AliveOK, Alive, Mutating, Auditing, CreateDeployment, Posts, Goes, world, evidence
  <1>5. ASSUME NEW a \in Attempts, FirstJournal(a)
        PROVE  AliveOK'
    BY <1>5 DEF ConstantsOK, TypeOK, LockOK, EvidenceOK, AliveOK, Alive, Mutating, Auditing, FirstJournal, Writes, Goes, world, evidence
  <1>6. ASSUME NEW a \in Attempts, Announce(a)
        PROVE  AliveOK'
    BY <1>6 DEF ConstantsOK, TypeOK, LockOK, EvidenceOK, AliveOK, Alive, Mutating, Auditing, Announce, Posts, Goes, world, evidence
  <1>7. ASSUME NEW a \in Attempts, BackUp(a)
        PROVE  AliveOK'
    BY <1>7 DEF ConstantsOK, TypeOK, LockOK, EvidenceOK, AliveOK, Alive, Mutating, Auditing, BackUp, Goes, world
  <1>8. ASSUME NEW a \in Attempts, JournalBackup(a)
        PROVE  AliveOK'
    BY <1>8 DEF ConstantsOK, TypeOK, LockOK, EvidenceOK, AliveOK, Alive, Mutating, Auditing, JournalBackup, Writes, Goes, world, evidence
  <1>9. ASSUME NEW a \in Attempts, Retain(a)
        PROVE  AliveOK'
    BY <1>9 DEF ConstantsOK, TypeOK, LockOK, EvidenceOK, AliveOK, Alive, Mutating, Auditing, Retain, Goes, world
  <1>10. ASSUME NEW a \in Attempts, JournalFinalizer(a)
        PROVE  AliveOK'
    BY <1>10 DEF ConstantsOK, TypeOK, LockOK, EvidenceOK, AliveOK, Alive, Mutating, Auditing, JournalFinalizer, Writes, Goes, world, evidence
  <1>11. ASSUME NEW a \in Attempts, Launch(a)
        PROVE  AliveOK'
    BY <1>11 DEF ConstantsOK, TypeOK, LockOK, EvidenceOK, AliveOK, Alive, Mutating, Auditing, Launch, Goes, world, evidence
  <1>12. ASSUME NEW a \in Attempts, FinalizerDone(a)
        PROVE  AliveOK'
    BY <1>12 DEF ConstantsOK, TypeOK, LockOK, EvidenceOK, AliveOK, Alive, Mutating, Auditing, FinalizerDone, Goes, world, evidence
  <1>13. ASSUME NEW a \in Attempts, Health(a)
        PROVE  AliveOK'
    BY <1>13 DEF ConstantsOK, TypeOK, LockOK, EvidenceOK, AliveOK, Alive, Mutating, Auditing, Health, Goes, world, evidence
  <1>14. ASSUME NEW a \in Attempts, Inspect(a)
        PROVE  AliveOK'
    BY <1>14 DEF ConstantsOK, TypeOK, LockOK, EvidenceOK, AliveOK, Alive, Mutating, Auditing, Inspect, Writes, Goes, world, evidence
  <1>15. ASSUME NEW a \in Attempts, Fails(a)
        PROVE  AliveOK'
    BY <1>15 DEF ConstantsOK, TypeOK, LockOK, EvidenceOK, AliveOK, Alive, Mutating, Auditing, Fails, Leaves, Goes, Writes, Posts, world, evidence
  <1>16. ASSUME NEW a \in Attempts, TimesOut(a)
        PROVE  AliveOK'
    BY <1>16 DEF ConstantsOK, TypeOK, LockOK, EvidenceOK, AliveOK, Alive, Mutating, Auditing, TimesOut, world, evidence
  <1>17. ASSUME NEW a \in Attempts, CleanupUncertain(a)
        PROVE  AliveOK'
    BY <1>17 DEF ConstantsOK, TypeOK, LockOK, EvidenceOK, AliveOK, Alive, Mutating, Auditing, CleanupUncertain, Leaves, Goes, Writes, world, evidence
  <1>18. ASSUME NEW a \in Attempts, Report(a)
        PROVE  AliveOK'
    BY <1>18 DEF ConstantsOK, TypeOK, LockOK, EvidenceOK, AliveOK, Alive, Mutating, Auditing, Report, Posts, Goes, Writes, Leaves, world, evidence
  <1>19. ASSUME NEW a \in Attempts, Close(a)
        PROVE  AliveOK'
    BY <1>19 DEF ConstantsOK, TypeOK, LockOK, EvidenceOK, AliveOK, Alive, Mutating, Auditing, Close, Writes, Leaves, Goes, world, evidence
  <1>20. ASSUME NEW a \in Attempts, AuditBegin(a)
        PROVE  AliveOK'
    BY <1>20 DEF ConstantsOK, TypeOK, LockOK, EvidenceOK, AliveOK, Alive, Mutating, Auditing, AuditBegin, Goes, world, evidence
  <1>21. ASSUME NEW a \in Attempts, AuditCheck(a)
        PROVE  AliveOK'
    BY <1>21 DEF ConstantsOK, TypeOK, LockOK, EvidenceOK, AliveOK, Alive, Mutating, Auditing, AuditCheck, Goes, world, evidence
  <1>22. ASSUME NEW a \in Attempts, AuditReport(a)
        PROVE  AliveOK'
    BY <1>22 DEF ConstantsOK, TypeOK, LockOK, EvidenceOK, AliveOK, Alive, Mutating, Auditing, AuditReport, Posts, Goes, world, evidence
  <1>23. ASSUME NEW a \in Attempts, AuditStops(a)
        PROVE  AliveOK'
    BY <1>23 DEF ConstantsOK, TypeOK, LockOK, EvidenceOK, AliveOK, Alive, Mutating, Auditing, AuditStops, Leaves, Goes, Posts, world, evidence
  <1>24. ASSUME NEW a \in Attempts, FinalizerReplaces(a)
        PROVE  AliveOK'
    BY <1>24 DEF ConstantsOK, TypeOK, LockOK, EvidenceOK, AliveOK, Alive, Mutating, Auditing, FinalizerReplaces, world, evidence
  <1>25. ASSUME NEW a \in Attempts, FinalizerEnds(a)
        PROVE  AliveOK'
    BY <1>25 DEF ConstantsOK, TypeOK, LockOK, EvidenceOK, AliveOK, Alive, Mutating, Auditing, FinalizerEnds, world, evidence
  <1>26. ASSUME NEW a \in Attempts, Crash(a)
        PROVE  AliveOK'
    BY <1>26 DEF ConstantsOK, TypeOK, LockOK, EvidenceOK, AliveOK, Alive, Mutating, Auditing, Crash, Leaves, Goes, world, evidence
  <1>27. CASE WorldChanges
    BY <1>27 DEF ConstantsOK, TypeOK, LockOK, EvidenceOK, AliveOK, Alive, Mutating, Auditing, WorldChanges, evidence
  <1>28. CASE Rollback
    BY <1>28 DEF ConstantsOK, TypeOK, LockOK, EvidenceOK, AliveOK, Alive, Mutating, Auditing, Rollback, world, evidence
  <1>29. CASE UNCHANGED vars
    BY <1>29 DEF ConstantsOK, TypeOK, LockOK, EvidenceOK, AliveOK, Alive, Mutating, Auditing, vars, world, evidence
  <1> QED
    BY <1>1, <1>2, <1>3, <1>4, <1>5, <1>6, <1>7, <1>8, <1>9, <1>10, <1>11, <1>12, <1>13, <1>14, <1>15, <1>16, <1>17, <1>18, <1>19, <1>20, <1>21, <1>22, <1>23, <1>24, <1>25, <1>26, <1>27, <1>28, <1>29 DEF Next, Promote, RetryAudit

LEMMA ImageStep ==
  ASSUME ConstantsOK, TypeOK, LockOK, JournalOK, EvidenceOK, AliveOK, ImageOK, [Next]_vars
  PROVE  ImageOK'
PROOF
  <1>1. ASSUME NEW a \in Attempts, Begin(a)
        PROVE  ImageOK'
    BY <1>1 DEF ConstantsOK, TypeOK, Image, LockOK, JournalOK, EvidenceOK, AliveOK, ImageOK, Alive, Verified, Mutating, Auditing, Begin, Goes, world, evidence
  <1>2. ASSUME NEW a \in Attempts, Preflight(a)
        PROVE  ImageOK'
    BY <1>2 DEF ConstantsOK, TypeOK, Image, LockOK, JournalOK, EvidenceOK, AliveOK, ImageOK, Alive, Verified, Mutating, Auditing, Preflight, Goes, world
  <1>3. ASSUME NEW a \in Attempts, StopsEarly(a)
        PROVE  ImageOK'
    BY <1>3 DEF ConstantsOK, TypeOK, Image, LockOK, JournalOK, EvidenceOK, AliveOK, ImageOK, Alive, Verified, Mutating, Auditing, StopsEarly, Leaves, Goes, Posts, world, evidence
  <1>4. ASSUME NEW a \in Attempts, CreateDeployment(a)
        PROVE  ImageOK'
    BY <1>4 DEF ConstantsOK, TypeOK, Image, LockOK, JournalOK, EvidenceOK, AliveOK, ImageOK, Alive, Verified, Mutating, Auditing, CreateDeployment, Posts, Goes, world, evidence
  <1>5. ASSUME NEW a \in Attempts, FirstJournal(a)
        PROVE  ImageOK'
    BY <1>5 DEF ConstantsOK, TypeOK, Image, LockOK, JournalOK, EvidenceOK, AliveOK, ImageOK, Alive, Verified, Mutating, Auditing, FirstJournal, Writes, Goes, world, evidence
  <1>6. ASSUME NEW a \in Attempts, Announce(a)
        PROVE  ImageOK'
    BY <1>6 DEF ConstantsOK, TypeOK, Image, LockOK, JournalOK, EvidenceOK, AliveOK, ImageOK, Alive, Verified, Mutating, Auditing, Announce, Posts, Goes, world, evidence
  <1>7. ASSUME NEW a \in Attempts, BackUp(a)
        PROVE  ImageOK'
    BY <1>7 DEF ConstantsOK, TypeOK, Image, LockOK, JournalOK, EvidenceOK, AliveOK, ImageOK, Alive, Verified, Mutating, Auditing, BackUp, Goes, world
  <1>8. ASSUME NEW a \in Attempts, JournalBackup(a)
        PROVE  ImageOK'
    BY <1>8 DEF ConstantsOK, TypeOK, Image, LockOK, JournalOK, EvidenceOK, AliveOK, ImageOK, Alive, Verified, Mutating, Auditing, JournalBackup, Writes, Goes, world, evidence
  <1>9. ASSUME NEW a \in Attempts, Retain(a)
        PROVE  ImageOK'
    BY <1>9 DEF ConstantsOK, TypeOK, Image, LockOK, JournalOK, EvidenceOK, AliveOK, ImageOK, Alive, Verified, Mutating, Auditing, Retain, Goes, world
  <1>10. ASSUME NEW a \in Attempts, JournalFinalizer(a)
        PROVE  ImageOK'
    BY <1>10 DEF ConstantsOK, TypeOK, Image, LockOK, JournalOK, EvidenceOK, AliveOK, ImageOK, Alive, Verified, Mutating, Auditing, JournalFinalizer, Writes, Goes, world, evidence
  <1>11. ASSUME NEW a \in Attempts, Launch(a)
        PROVE  ImageOK'
    BY <1>11 DEF ConstantsOK, TypeOK, Image, LockOK, JournalOK, EvidenceOK, AliveOK, ImageOK, Alive, Verified, Mutating, Auditing, Launch, Goes, world, evidence
  <1>12. ASSUME NEW a \in Attempts, FinalizerDone(a)
        PROVE  ImageOK'
    BY <1>12 DEF ConstantsOK, TypeOK, Image, LockOK, JournalOK, EvidenceOK, AliveOK, ImageOK, Alive, Verified, Mutating, Auditing, FinalizerDone, Goes, world, evidence
  <1>13. ASSUME NEW a \in Attempts, Health(a)
        PROVE  ImageOK'
    BY <1>13 DEF ConstantsOK, TypeOK, Image, LockOK, JournalOK, EvidenceOK, AliveOK, ImageOK, Alive, Verified, Mutating, Auditing, Health, Goes, world, evidence
  <1>14. ASSUME NEW a \in Attempts, Inspect(a)
        PROVE  ImageOK'
    BY <1>14 DEF ConstantsOK, TypeOK, Image, LockOK, JournalOK, EvidenceOK, AliveOK, ImageOK, Alive, Verified, Mutating, Auditing, Inspect, Writes, Goes, world, evidence
  <1>15. ASSUME NEW a \in Attempts, Fails(a)
        PROVE  ImageOK'
    BY <1>15 DEF ConstantsOK, TypeOK, Image, LockOK, JournalOK, EvidenceOK, AliveOK, ImageOK, Alive, Verified, Mutating, Auditing, Fails, Leaves, Goes, Writes, Posts, world, evidence
  <1>16. ASSUME NEW a \in Attempts, TimesOut(a)
        PROVE  ImageOK'
    BY <1>16 DEF ConstantsOK, TypeOK, Image, LockOK, JournalOK, EvidenceOK, AliveOK, ImageOK, Alive, Verified, Mutating, Auditing, TimesOut, world, evidence
  <1>17. ASSUME NEW a \in Attempts, CleanupUncertain(a)
        PROVE  ImageOK'
    BY <1>17 DEF ConstantsOK, TypeOK, Image, LockOK, JournalOK, EvidenceOK, AliveOK, ImageOK, Alive, Verified, Mutating, Auditing, CleanupUncertain, Leaves, Goes, Writes, world, evidence
  <1>18. ASSUME NEW a \in Attempts, Report(a)
        PROVE  ImageOK'
    BY <1>18 DEF ConstantsOK, TypeOK, Image, LockOK, JournalOK, EvidenceOK, AliveOK, ImageOK, Alive, Verified, Mutating, Auditing, Report, Posts, Goes, Writes, Leaves, world, evidence
  <1>19. ASSUME NEW a \in Attempts, Close(a)
        PROVE  ImageOK'
    BY <1>19 DEF ConstantsOK, TypeOK, Image, LockOK, JournalOK, EvidenceOK, AliveOK, ImageOK, Alive, Verified, Mutating, Auditing, Close, Writes, Leaves, Goes, world, evidence
  <1>20. ASSUME NEW a \in Attempts, AuditBegin(a)
        PROVE  ImageOK'
    BY <1>20 DEF ConstantsOK, TypeOK, Image, LockOK, JournalOK, EvidenceOK, AliveOK, ImageOK, Alive, Verified, Mutating, Auditing, AuditBegin, Goes, world, evidence
  <1>21. ASSUME NEW a \in Attempts, AuditCheck(a)
        PROVE  ImageOK'
    BY <1>21 DEF ConstantsOK, TypeOK, Image, LockOK, JournalOK, EvidenceOK, AliveOK, ImageOK, Alive, Verified, Mutating, Auditing, AuditCheck, Goes, world, evidence
  <1>22. ASSUME NEW a \in Attempts, AuditReport(a)
        PROVE  ImageOK'
    BY <1>22 DEF ConstantsOK, TypeOK, Image, LockOK, JournalOK, EvidenceOK, AliveOK, ImageOK, Alive, Verified, Mutating, Auditing, AuditReport, Posts, Goes, world, evidence
  <1>23. ASSUME NEW a \in Attempts, AuditStops(a)
        PROVE  ImageOK'
    BY <1>23 DEF ConstantsOK, TypeOK, Image, LockOK, JournalOK, EvidenceOK, AliveOK, ImageOK, Alive, Verified, Mutating, Auditing, AuditStops, Leaves, Goes, Posts, world, evidence
  <1>24. ASSUME NEW a \in Attempts, FinalizerReplaces(a)
        PROVE  ImageOK'
    BY <1>24 DEF ConstantsOK, TypeOK, Image, LockOK, JournalOK, EvidenceOK, AliveOK, ImageOK, Alive, Verified, Mutating, Auditing, FinalizerReplaces, world, evidence
  <1>25. ASSUME NEW a \in Attempts, FinalizerEnds(a)
        PROVE  ImageOK'
    BY <1>25 DEF ConstantsOK, TypeOK, Image, LockOK, JournalOK, EvidenceOK, AliveOK, ImageOK, Alive, Verified, Mutating, Auditing, FinalizerEnds, world, evidence
  <1>26. ASSUME NEW a \in Attempts, Crash(a)
        PROVE  ImageOK'
    BY <1>26 DEF ConstantsOK, TypeOK, Image, LockOK, JournalOK, EvidenceOK, AliveOK, ImageOK, Alive, Verified, Mutating, Auditing, Crash, Leaves, Goes, world, evidence
  <1>27. CASE WorldChanges
    BY <1>27 DEF ConstantsOK, TypeOK, Image, LockOK, JournalOK, EvidenceOK, AliveOK, ImageOK, Alive, Verified, Mutating, Auditing, WorldChanges, evidence
  <1>28. CASE Rollback
    BY <1>28 DEF ConstantsOK, TypeOK, Image, LockOK, JournalOK, EvidenceOK, AliveOK, ImageOK, Alive, Verified, Mutating, Auditing, Rollback, world, evidence
  <1>29. CASE UNCHANGED vars
    BY <1>29 DEF ConstantsOK, TypeOK, Image, LockOK, JournalOK, EvidenceOK, AliveOK, ImageOK, Alive, Verified, Mutating, Auditing, vars, world, evidence
  <1> QED
    BY <1>1, <1>2, <1>3, <1>4, <1>5, <1>6, <1>7, <1>8, <1>9, <1>10, <1>11, <1>12, <1>13, <1>14, <1>15, <1>16, <1>17, <1>18, <1>19, <1>20, <1>21, <1>22, <1>23, <1>24, <1>25, <1>26, <1>27, <1>28, <1>29 DEF Next, Promote, RetryAudit

-----------------------------------------------------------------------------
(* The specification.                                                       *)

LEMMA InitInv == ASSUME ConstantsOK, Init PROVE Inv
PROOF
  <1>1. TypeOK
    BY DEF ConstantsOK, Init, TypeOK, Image, Locations, Stages, Mutating, Auditing, Verified,
           Ended, Alive
  <1>2. LockOK /\ JournalOK /\ StatusOK /\ EvidenceOK
    BY DEF ConstantsOK, Init, LockOK, JournalOK, StatusOK, EvidenceOK, Verified
  <1>3. AliveOK /\ ImageOK
    BY DEF Init, AliveOK, ImageOK, Alive, Verified
  <1> QED  BY <1>1, <1>2, <1>3 DEF Inv

LEMMA StepInv == ASSUME ConstantsOK, Inv, [Next]_vars PROVE Inv'
  BY TypeStep, LockStep, JournalStep, StatusStep, EvidenceStep, AliveStep, ImageStep DEF Inv

\* The inductive invariant: lock, journal, status and evidence move together
\* through every failure, lost answer and crash.
THEOREM PromotionInvariant == ASSUME ConstantsOK PROVE Spec => []Inv
PROOF
  <1>1. Init => Inv  BY InitInv
  <1>2. Inv /\ [Next]_vars => Inv'  BY StepInv
  <1> QED  BY <1>1, <1>2, PTL DEF Spec

\* Production is not touched before the backup is verified, an image is kept
\* and the journal says so.
THEOREM MutationBackedUp == ASSUME ConstantsOK PROVE Spec => []BackedUpFirst
PROOF
  <1>1. Inv => BackedUpFirst  BY DEF Inv, EvidenceOK, BackedUpFirst
  <1> QED  BY <1>1, PromotionInvariant, PTL

\* Two finalizers run at a time only if one was left behind.
THEOREM FinalizersExclusive == ASSUME ConstantsOK PROVE Spec => []OneFinalizer
PROOF
  <1>1. Inv => OneFinalizer  BY DEF ConstantsOK, Inv, AliveOK, OneFinalizer
  <1> QED  BY <1>1, PromotionInvariant, PTL

\* GitHub reports a success only with a verified journal, a recorded journal
\* only with the success, and a failure never with a verified journal.
THEOREM JournalAgreesWithGitHub == ASSUME ConstantsOK PROVE Spec => []RecordsAgree
PROOF
  <1>1. Inv => RecordsAgree
    BY DEF Inv, TypeOK, StatusOK, RecordsAgree, Verified
  <1> QED  BY <1>1, PromotionInvariant, PTL

\* A verified journal names the image this promotion built of the approved
\* release, if no finalizer was left behind.
THEOREM VerifiedImageBuilt == ASSUME ConstantsOK PROVE Spec => []VerifiedImage
PROOF
  <1>1. Inv => VerifiedImage  BY DEF Inv, ImageOK, VerifiedImage
  <1> QED  BY <1>1, PromotionInvariant, PTL

\* The image kept for a rollback is the one about to be replaced, under the
\* same condition.
THEOREM RollbackKept == ASSUME ConstantsOK PROVE Spec => []RollbackIsPrevious
PROOF
  <1>1. Inv => RollbackIsPrevious  BY DEF Inv, ImageOK, RollbackIsPrevious
  <1> QED  BY <1>1, PromotionInvariant, PTL

\* A journal that has ended is never rewritten.
LEMMA EndedStep ==
  ASSUME ConstantsOK, Inv, [Next]_vars, NEW e \in Attempts, journal[e] \in Ended
  PROVE  journal'[e] = journal[e]
PROOF
  <1>1. pc[e] \in {"done", "audit"}
    BY DEF Inv, TypeOK, JournalOK, Ended, Locations, Mutating, Auditing
  <1>2. ASSUME NEW a \in Attempts,
               FirstJournal(a) \/ JournalBackup(a) \/ JournalFinalizer(a) \/ Inspect(a)
        PROVE  journal'[e] = journal[e]
    BY <1>1, <1>2 DEF Inv, TypeOK, FirstJournal, JournalBackup, JournalFinalizer, Inspect, Writes
  <1>3. ASSUME NEW a \in Attempts,
               Fails(a) \/ CleanupUncertain(a) \/ Report(a) \/ Close(a)
        PROVE  journal'[e] = journal[e]
    BY <1>1, <1>3 DEF Inv, TypeOK, Fails, CleanupUncertain, Report, Close, Writes, Mutating
  <1>4. ASSUME NEW a \in Attempts,
               \/ Begin(a) \/ Preflight(a) \/ StopsEarly(a) \/ CreateDeployment(a)
               \/ Announce(a) \/ BackUp(a) \/ Retain(a) \/ Launch(a) \/ FinalizerDone(a)
               \/ Health(a) \/ TimesOut(a) \/ RetryAudit(a)
               \/ FinalizerReplaces(a) \/ FinalizerEnds(a) \/ Crash(a)
        PROVE  UNCHANGED journal
    BY <1>4 DEF Begin, Preflight, StopsEarly, CreateDeployment, Announce, BackUp, Retain,
       Launch, FinalizerDone, Health, TimesOut, RetryAudit, AuditBegin, AuditCheck,
       AuditReport, AuditStops, FinalizerReplaces, FinalizerEnds, Crash
  <1>5. WorldChanges \/ Rollback \/ UNCHANGED vars => UNCHANGED journal
    BY DEF WorldChanges, Rollback, vars
  <1> QED  BY <1>2, <1>3, <1>4, <1>5 DEF Next, Promote

THEOREM EndedJournalsKept == ASSUME ConstantsOK PROVE Spec => EndedForGood
PROOF
  <1> DEFINE Kept == \A a \in Attempts : journal[a] \in Ended => journal'[a] = journal[a]
  <1>1. Inv /\ [Next]_vars => Kept  BY EndedStep
  <1> HIDE DEF Kept
  <1>2. Inv /\ [Next]_vars => [Kept]_vars  BY <1>1
  <1> QED  BY <1>2, PromotionInvariant, PTL DEF Spec, EndedForGood, Kept

-----------------------------------------------------------------------------
(* The refinement.                                                          *)

VerifiedAttempts == {a \in Attempts : journal[a] \in Verified}

\* A step that keeps the verified journals keeps the set of them.
LEMMA SameVerified ==
  ASSUME \A x \in Attempts : journal'[x] \in Verified <=> journal[x] \in Verified
  PROVE  VerifiedAttempts' = VerifiedAttempts
  BY DEF VerifiedAttempts

LEMMA RecordStep ==
  ASSUME ConstantsOK, Inv, [Next]_vars
  PROVE  Record!Next \/ (UNCHANGED <<status, VerifiedAttempts>>)
PROOF
  <1> DEFINE Kept == VerifiedAttempts' = VerifiedAttempts
  <1> USE DEF Inv, TypeOK, Record!Next, VerifiedAttempts
  <1>1. ASSUME NEW a \in Attempts, CreateDeployment(a) PROVE Record!Open(a)
    BY <1>1 DEF CreateDeployment, StatusOK, Posts, Record!Open, Record!Becomes
  <1>2. ASSUME NEW a \in Attempts, StopsEarly(a)
        PROVE  Record!Open(a) \/ Record!Fail(a) \/ UNCHANGED <<status, VerifiedAttempts>>
    BY <1>2 DEF StopsEarly, JournalOK, StatusOK, Posts, Verified, Record!Open, Record!Fail, Record!Becomes
  <1>3. ASSUME NEW a \in Attempts, Announce(a)
        PROVE  Record!Progress(a) \/ UNCHANGED <<status, VerifiedAttempts>>
    BY <1>3 DEF Announce, StatusOK, Posts, Record!Progress, Record!Becomes
  <1>4. ASSUME NEW a \in Attempts, Inspect(a) PROVE Record!Verify(a)
    BY <1>4 DEF Inspect, StatusOK, Writes, Verified, Record!Verify
  <1>5. ASSUME NEW a \in Attempts, Fails(a)
        PROVE  Record!Fail(a) \/ UNCHANGED <<status, VerifiedAttempts>>
    <2>1. Kept /\ a \notin VerifiedAttempts
      BY <1>5 DEF Fails, JournalOK, Writes, Verified, Mutating
    <2>2. status[a] \in {"created", "in_progress"}
      BY <1>5 DEF Fails, StatusOK, Mutating
    <2> QED  BY <1>5, <2>1, <2>2 DEF Fails, Posts, Record!Fail, Record!Becomes
  <1>6. ASSUME NEW a \in Attempts, Report(a)
        PROVE  Record!Succeed(a) \/ UNCHANGED <<status, VerifiedAttempts>>
    <2>1. Kept /\ a \in VerifiedAttempts
      BY <1>6 DEF Report, JournalOK, Writes, Verified
    <2> QED  BY <1>6, <2>1 DEF Report, StatusOK, Posts, Record!Succeed, Record!Becomes
  <1>7. ASSUME NEW a \in Attempts, AuditReport(a) \/ AuditStops(a)
        PROVE  Record!Succeed(a) \/ UNCHANGED <<status, VerifiedAttempts>>
    <2>1. Kept
      BY <1>7 DEF AuditReport, AuditStops
    <2>2. pc[a] = "auditReport" => a \in VerifiedAttempts /\ status[a] \in {"in_progress", "success"}
      BY DEF JournalOK, StatusOK, Verified
    <2> QED  BY <1>7, <2>1, <2>2 DEF AuditReport, AuditStops, Posts, Record!Succeed, Record!Becomes
  <1>8. ASSUME NEW a \in Attempts,
               \/ FirstJournal(a) \/ JournalBackup(a) \/ JournalFinalizer(a)
               \/ CleanupUncertain(a) \/ Close(a)
        PROVE  UNCHANGED <<status, VerifiedAttempts>>
    <2>1. Kept
      BY <1>8 DEF FirstJournal, JournalBackup, JournalFinalizer, CleanupUncertain, Close,
         JournalOK, Writes, Verified
    <2> QED  BY <1>8, <2>1 DEF FirstJournal, JournalBackup, JournalFinalizer, CleanupUncertain, Close
  <1>9. ASSUME NEW a \in Attempts,
               \/ Begin(a) \/ Preflight(a) \/ BackUp(a) \/ Retain(a) \/ Launch(a)
               \/ FinalizerDone(a) \/ Health(a) \/ TimesOut(a) \/ AuditBegin(a) \/ AuditCheck(a)
               \/ FinalizerReplaces(a) \/ FinalizerEnds(a) \/ Crash(a)
        PROVE  UNCHANGED <<status, VerifiedAttempts>>
    BY <1>9 DEF Begin, Preflight, BackUp, Retain, Launch, FinalizerDone, Health, TimesOut,
       AuditBegin, AuditCheck, FinalizerReplaces, FinalizerEnds, Crash
  <1>10. WorldChanges \/ Rollback \/ UNCHANGED vars => UNCHANGED <<status, VerifiedAttempts>>
    BY DEF WorldChanges, Rollback, vars
  <1> QED
    BY <1>1, <1>2, <1>3, <1>4, <1>5, <1>6, <1>7, <1>8, <1>9, <1>10
    DEF Next, Promote, RetryAudit

\* The promotion implements the record GitHub shows: its readers see openings,
\* progress, and one final outcome that the host has verified.
THEOREM RecordImplemented == ASSUME ConstantsOK PROVE Spec => ImplementsRecord
PROOF
  <1>1. Init => Record!Init
    BY DEF Init, Record!Init, Verified
  <1>2. Inv /\ [Next]_vars => [Record!Next]_<<status, VerifiedAttempts>>
    BY RecordStep
  <1>3. Inv /\ [Next]_vars => [Record!Next]_Record!vars
    BY <1>2 DEF Record!vars, VerifiedAttempts
  <1> QED  BY <1>1, <1>3, PromotionInvariant, PTL DEF Spec, ImplementsRecord, Record!Spec

=============================================================================
