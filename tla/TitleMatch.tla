----------------------------- MODULE TitleMatch -----------------------------
(***************************************************************************)
(* Which rule a title of the Stremio library belongs to (_match_rule,      *)
(* _sync_existing_rule and _create_rule_for_item of stremio.py) and which  *)
(* item of the Jellyfin library a rule is about (_match_library_item of    *)
(* jellyfin.py).                                                           *)
(*                                                                         *)
(* Titles stand for normalized titles, which are compared as they are.     *)
(***************************************************************************)

CONSTANTS Ids,     \* rules
          Items,   \* ids of titles in the Stremio library
          Titles, Imdbs, Years,
          NoImdb, NoLink, NoYear

Media == {"movie", "series"}

\* A rule as far as matching goes; titles: of _match_library_item, three columns,
\* of which _resolved_rule_title takes the first that is not empty.
RuleRow == [link : Items \cup {NoLink}, media : Media, imdb : Imdbs \cup {NoImdb},
            title : Titles, titles : SUBSET Titles, year : Years \cup {NoYear}]

\* names: the normalized title and the IMDb id, taken for a title.
StremioItem == [id : Items, media : Media, imdb : Imdbs \cup {NoImdb}, title : Titles,
                names : SUBSET Titles]

\* class JellyfinLibraryRecord, with both of its normalized names.
LibraryRecord == [imdb : Imdbs \cup {NoImdb}, titles : SUBSET Titles, year : Years \cup {NoYear}]

-----------------------------------------------------------------------------
\* A search that finds one candidate matches it, and one that finds more is
\* ambiguous.
NotFound == [kind |-> "none"]
Ambiguous == [kind |-> "ambiguous"]
Match(x) == [kind |-> "match", of |-> x]

IsOnly(x, S) == S = {x}
OneOf(S) == IF \E x \in S : IsOnly(x, S) THEN Match(CHOOSE x \in S : IsOnly(x, S))
            ELSE IF S = {} THEN NotFound ELSE Ambiguous

\* _select_link_candidate: rules of another title are left out.
SelectLinkCandidate(rules, candidates, item) ==
  OneOf({r \in candidates : rules[r].link \in {NoLink, item.id}})

\* _match_rule, over the rows of a set of rules: linked, else of the same IMDb id,
\* else of the same title.
MatchRule(rules, item) ==
  LET ids    == DOMAIN rules
      linked == {r \in ids : rules[r].link = item.id}
      byImdb == {r \in ids : /\ item.imdb # NoImdb
                             /\ rules[r].media = item.media /\ rules[r].imdb = item.imdb}
      byTitle == {r \in ids : rules[r].media = item.media /\ rules[r].title \in item.names}
      first  == SelectLinkCandidate(rules, byImdb, item)
  IN IF linked # {} THEN OneOf(linked)
     ELSE IF first # NotFound THEN first
     ELSE SelectLinkCandidate(rules, byTitle, item)

\* The columns of _sync_existing_rule that matter to later matches: the link, and
\* the media type and the IMDb id, which are Stremio's for a rule it manages.
Link(row, item, managed) ==
  [row EXCEPT !.link = item.id,
              !.media = IF managed THEN item.media ELSE @,
              !.imdb = IF managed \/ @ = NoImdb THEN item.imdb ELSE @]

\* One title of sync_rules: a match is linked, no match makes a rule, and an
\* ambiguous one is skipped.
SyncTitle(rules, item, fresh, managed) ==
  LET match == MatchRule(rules, item)
  IN CASE match.kind = "match" ->
            [rules EXCEPT ![match.of] = Link(@, item, managed)]
       [] match.kind = "none" ->
            [r \in DOMAIN rules \cup {fresh} |->
               IF r = fresh
               THEN [link |-> item.id, media |-> item.media, imdb |-> item.imdb,
                     title |-> item.title, titles |-> {item.title}, year |-> NoYear]
               ELSE rules[r]]
       [] OTHER -> rules

-----------------------------------------------------------------------------
\* _match_library_item: by IMDb id, else by title, narrowed to the year if that
\* leaves something and to items that do not contradict the IMDb id.
MatchLibraryItem(row, catalog) ==
  LET byImdb  == {i \in catalog : row.imdb # NoImdb /\ i.imdb = row.imdb}
      byTitle == {i \in catalog : i.titles \cap row.titles # {}}
      ofYear  == {i \in byTitle : row.year # NoYear /\ i.year = row.year}
      narrowed == IF ofYear # {} THEN ofYear ELSE byTitle
  IN IF byImdb # {} THEN OneOf(byImdb)
     ELSE OneOf({i \in narrowed : row.imdb = NoImdb \/ i.imdb \in {NoImdb, row.imdb}})
=============================================================================
