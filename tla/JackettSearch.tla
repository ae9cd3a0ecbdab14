---------------------------- MODULE JackettSearch ----------------------------
(* One search of a rule through Jackett (JackettClient.search) and what the  *)
(* fetch of the rule saves of it (execute_rule_fetch).                       *)
(*                                                                           *)
(* A standard search asks every indexer of its scope every wording of the    *)
(* title.  A search by IMDb id asks for the id first, of all indexers at     *)
(* once or of each capable one, then for the exact title, and if need be for *)
(* the title alone, whose rows make the fallback section.  Every request may *)
(* time out, be refused as unsupported (HTTP 400), fail with another HTTP    *)
(* status, or fail to reach Jackett.  The rows of a section are grouped as   *)
(* in ResultMerge, of which only the keys of the groups are kept here.       *)

EXTENDS Naturals

CONSTANTS
    Indexers, All,      \* the configured indexers, and the one that asks them all
    Chosen,             \* payload.indexer
    Filter,             \* payload.filter_indexers, with All for one that is no slug
    ImdbFirst,          \* payload.imdb_id_only: of a movie or series with an IMDb id
    Structured,         \* of music or a book with artist, author, ...
    NeedsBroad,         \* the primary section filters by other terms than the rule
    Queries,            \* wordings of the title
    MaxAttempts,        \* variants of one request: without category, episode, ...
    Rows, Keys, KeyOf,  \* what indexers return, and the key each row is grouped by
    SameTitle,          \* rows with the exact title of the rule
    Exact,              \* ... that also pass the filters of the primary section
    CloudRows,          \* what Real-Debrid may hold for the rule
    Responses           \* what Jackett may do with a request

VARIABLES
    stage,          \* the part of the search that comes next
    query,          \* ... and the wording it asks for
    primary, primaryKeys, fallback, fallbackKeys,   \* the sections and their groups
    seen,           \* keys that this part does not add again
    labelled,       \* some request is listed as answered (request_variants)
    errors,         \* kinds of failure remembered for the end
    result,         \* "none", "run" or "error": what the search returned
    saved,          \* the rows of the rule's snapshot
    heard,          \* history: some indexer answered
    found,          \* history: what was returned
    cleared         \* history: the snapshot was replaced

vars == <<stage, query, primary, primaryKeys, fallback, fallbackKeys, seen, labelled,
          errors, result, saved, heard, found, cleared>>

Failures == {"timeout", "bad", "http", "client"}
Response == [kind : {"rows"}, rows : SUBSET Rows] \cup [kind : Failures, rows : {{}}]

SearchOK ==
    /\ All \notin Indexers /\ Chosen \in Indexers \cup {All}
    /\ Filter \subseteq Indexers \cup {All}
    /\ ImdbFirst \in BOOLEAN /\ Structured \in BOOLEAN /\ NeedsBroad \in BOOLEAN
    /\ Queries \in Nat \ {0} /\ MaxAttempts \in Nat \ {0}
    /\ KeyOf \in [Rows -> Keys]
    /\ SameTitle \subseteq Rows /\ Exact \subseteq SameTitle
    /\ Responses \subseteq Response

KeysOf(S) == {KeyOf[r] : r \in S}

\* The indexers a search asks: the chosen one, or those of the rule's feeds.
Scope == IF Chosen # All THEN {Chosen}
         ELSE IF Filter = {} \/ All \in Filter THEN {All} ELSE Filter
Single == \E i \in Indexers \cup {All} : Scope = {i}
Direct == Chosen = All /\ Scope # {All}

-----------------------------------------------------------------------------
(* Requests.                                                                 *)

\* What comes of the attempts of a request (_search_variant): a timeout or a 400
\* passes to the next, as does an empty answer; any other failure ends it.
Called(answers, n) ==
    LET ends(i) == answers[i].kind \in {"http", "client"} \/ answers[i].rows # {}
        first(i) == ends(i) /\ \A j \in 1..(i - 1) : ~ends(j)
        some(kind) == \E i \in 1..n : answers[i].kind = kind
    IN IF \E i \in 1..n : first(i) THEN answers[CHOOSE i \in 1..n : first(i)]
       ELSE [kind |-> IF some("rows") THEN "rows" ELSE IF some("bad") THEN "bad" ELSE "timeout",
             rows |-> {}]

Call == {Called(answers, MaxAttempts) : answers \in [1..MaxAttempts -> Responses]}

Kinds(calls, S) == {calls[i].kind : i \in S}
Returned(calls, S) == {r \in Rows : \E i \in S : r \in calls[i].rows}
Answered(calls, S) == \E i \in S : calls[i].kind = "rows"
Failed(calls, S) == \E i \in S : calls[i].kind \in Failures

\* Jackett's list of the indexers that can be asked for the id or the structured
\* fields, those of the scope: it fails like any request.
Listed == {S \in SUBSET Indexers : Scope # {All} => S \subseteq Scope}
ListingFails(kind) == \E r \in Responses : r.kind = kind /\ kind \in Failures
ListingWorks == \E r \in Responses : r.kind = "rows"

\* What comes of asking the capable indexers S (_search_variant_across_capable_...).
Across(calls, S, outcome) ==
    IF Answered(calls, S)
    THEN outcome = [kind |-> "rows", rows |-> Returned(calls, S)]
    ELSE /\ outcome.rows = {}
         /\ IF Kinds(calls, S) \cap {"bad", "http"} # {}
            THEN outcome.kind \in Kinds(calls, S) \cap {"bad", "http"}
            ELSE outcome.kind = IF "timeout" \in Kinds(calls, S) THEN "timeout" ELSE "client"

AskCapable(outcome) ==
    \/ ListingFails(outcome.kind) /\ outcome.rows = {}
    \/ ListingWorks /\ \E S \in Listed : \E calls \in [S -> Call] : Across(calls, S, outcome)

-----------------------------------------------------------------------------
(* The search.                                                               *)

SearchTypeOK ==
    /\ stage \in {"structured", "standard", "id", "probe", "exact", "title", "end", "saved"}
    /\ query \in 1..Queries
    /\ primary \subseteq Rows /\ fallback \subseteq Rows
    /\ primaryKeys \subseteq Keys /\ fallbackKeys \subseteq Keys /\ seen \subseteq Keys
    /\ labelled \in BOOLEAN
    /\ errors \subseteq Failures
    /\ result \in {"none", "run", "error"}
    /\ saved \subseteq Rows \cup CloudRows
    /\ heard \in BOOLEAN /\ found \subseteq Rows
    /\ cleared \in BOOLEAN

SearchInit ==
    /\ stage = IF ImdbFirst THEN "id" ELSE IF Structured THEN "structured" ELSE "standard"
    /\ query = 1
    /\ primary = {} /\ primaryKeys = {} /\ fallback = {} /\ fallbackKeys = {} /\ seen = {}
    /\ labelled = FALSE /\ errors = {} /\ result = "none"
    /\ saved \in SUBSET (Rows \cup CloudRows)
    /\ heard = FALSE /\ found = {} /\ cleared = FALSE

\* The groups of a section, new rows added: the keys of some of its rows.
Grouped(keys, keysNow, S) == keysNow \in SUBSET (keys \cup KeysOf(S))

ToPrimary(S) ==
    /\ primary' = primary \cup S
    /\ Grouped(primaryKeys, primaryKeys', S)
ToFallback(S) ==
    /\ fallback' = fallback \cup S
    /\ Grouped(fallbackKeys, fallbackKeys', S)

Hear(S, yes) == found' = found \cup S /\ heard' = (heard \/ yes)
Return(outcome) == stage' = "end" /\ result' = outcome
Stays == UNCHANGED <<saved, cleared>>

\* Music and books: the capable indexers by their structured fields, and if they
\* have nothing the search is a standard one.  A list that fails fails the search.
AskStructured ==
    /\ stage = "structured"
    /\ \/ /\ \E kind \in Failures : ListingFails(kind)
          /\ Return("error")
          /\ UNCHANGED <<primary, primaryKeys, labelled, heard, found>>
       \/ /\ ListingWorks
          /\ \E S \in Listed : \E calls \in [S -> Responses] :
               /\ ToPrimary(Returned(calls, S))
               /\ labelled' = Answered(calls, S)
               /\ Hear(Returned(calls, S), Answered(calls, S))
          /\ IF primary' = {} THEN stage' = "standard" /\ result' = "none"
                             ELSE Return("run")
    /\ UNCHANGED <<query, fallback, fallbackKeys, seen, errors>>
    /\ Stays

\* One wording, of every indexer of the scope.  With a scope of one its failure,
\* unless a timeout, is that of the search; with more it is a warning, and after
\* the last wording a failure is returned if nothing was answered.
AskStandard ==
    /\ stage = "standard"
    /\ \E calls \in [Scope -> Call] :
         /\ Hear(Returned(calls, Scope), Answered(calls, Scope))
         /\ IF Single /\ Kinds(calls, Scope) \cap {"bad", "http", "client"} # {}
            THEN /\ Return("error")
                 /\ UNCHANGED <<query, primary, primaryKeys, labelled, errors>>
            ELSE /\ ToPrimary(Returned(calls, Scope))
                 /\ labelled' = (labelled \/ Answered(calls, Scope))
                 /\ errors' = errors \cup (Kinds(calls, Scope) \cap Failures)
                 /\ IF query < Queries
                    THEN query' = query + 1 /\ UNCHANGED <<stage, result>>
                    ELSE /\ Return(IF labelled' \/ errors' = {} THEN "run" ELSE "error")
                         /\ UNCHANGED query
    /\ UNCHANGED <<fallback, fallbackKeys, seen>>
    /\ Stays

\* By IMDb id: of each capable indexer of a scope, or of the one that is chosen.
\* Only an HTTP failure other than 400 is returned; after a 400 the requests are
\* listed as if answered.  The capable indexers are asked next if they were not
\* yet, after a 400 or if there is no row, and else come the exact titles.
AskId ==
    /\ stage = "id"
    /\ \E outcome \in Response :
         /\ IF Direct THEN AskCapable(outcome)
                      ELSE outcome \in Call
         /\ Hear(outcome.rows, outcome.kind = "rows")
         /\ ToPrimary(outcome.rows)
         /\ labelled' = (outcome.kind \in {"rows", "bad"})
         /\ errors' = IF outcome.kind = "timeout" THEN {"timeout"} ELSE {}
         /\ IF outcome.kind = "http" THEN Return("error")
            ELSE /\ stage' = IF Chosen = All /\ ~Direct /\ outcome.rows = {}
                             THEN "probe" ELSE "exact"
                 /\ UNCHANGED result
    /\ seen' = primaryKeys'
    /\ UNCHANGED <<query, fallback, fallbackKeys>>
    /\ Stays

\* The capable indexers, when asking all at once gave nothing: no failure counts.
Probe ==
    /\ stage = "probe"
    /\ \E outcome \in Response :
         /\ AskCapable(outcome)
         /\ Hear(outcome.rows, outcome.kind = "rows")
         /\ ToPrimary(outcome.rows)
         /\ labelled' = (labelled \/ outcome.kind = "rows")
    /\ stage' = "exact"
    /\ seen' = primaryKeys'
    /\ UNCHANGED <<query, fallback, fallbackKeys, errors, result>>
    /\ Stays

\* The end of a search by IMDb id: only if nothing was answered and a request for
\* the id timed out, the timeout is returned.
Conclude == Return(IF ~labelled' /\ "timeout" \in errors THEN "error" ELSE "run")

\* The wordings of the title, until one returns rows.
NextQuery(rows, after) ==
    IF rows = {} /\ query < Queries
    THEN query' = query + 1 /\ UNCHANGED <<stage, result>>
    ELSE query' = 1 /\ after

\* Rows with the exact title, one for each new key: those that pass the filters are
\* added to the primary section and the others to the fallback section.
AskExact ==
    /\ stage = "exact"
    /\ \E calls \in [Scope -> Call], new \in SUBSET SameTitle :
         LET rows == Returned(calls, Scope)
             candidates == {r \in rows \cap SameTitle : KeyOf[r] \notin seen}
         IN /\ new \subseteq candidates /\ KeysOf(new) = KeysOf(candidates)
            /\ \A r, q \in new : KeyOf[r] = KeyOf[q] => r = q
            /\ Hear(rows, Answered(calls, Scope))
            /\ ToPrimary(new \cap Exact) /\ ToFallback(new \ Exact)
            /\ labelled' = (labelled \/ Answered(calls, Scope))
            /\ IF rows = {} /\ query < Queries
               THEN /\ query' = query + 1
                    /\ seen' = seen \cup KeysOf(new)
                    /\ UNCHANGED <<stage, result>>
               ELSE /\ query' = 1
                    /\ seen' = primaryKeys'
                    /\ IF NeedsBroad \/ primary' = {}
                       THEN stage' = "title" /\ UNCHANGED result
                       ELSE Conclude
    /\ UNCHANGED <<errors>>
    /\ Stays

\* Rows of the title alone, with keys that the primary section does not have.
AskTitle ==
    /\ stage = "title"
    /\ \E calls \in [Scope -> Call], new \in SUBSET Rows :
         LET rows == Returned(calls, Scope)
             candidates == {r \in rows : KeyOf[r] \notin seen}
         IN /\ new \subseteq candidates /\ KeysOf(new) = KeysOf(candidates)
            /\ Hear(rows, Answered(calls, Scope))
            /\ ToFallback(new)
            /\ labelled' = (labelled \/ Answered(calls, Scope))
            /\ seen' = seen \cup KeysOf(rows)
            /\ NextQuery(rows, Conclude)
    /\ UNCHANGED <<primary, primaryKeys, errors>>
    /\ Stays

\* The fetch of the rule saves what Jackett and Real-Debrid returned, if one did.
Save ==
    /\ stage = "end"
    /\ \E cloud \in SUBSET CloudRows, answers \in BOOLEAN :
         /\ answers \/ cloud = {}
         /\ IF result = "run" \/ answers
            THEN /\ saved' = IF result = "run" THEN primary \cup fallback \cup cloud ELSE cloud
                 /\ cleared' = TRUE
            ELSE UNCHANGED <<saved, cleared>>
    /\ stage' = "saved"
    /\ UNCHANGED <<query, primary, primaryKeys, fallback, fallbackKeys, seen, labelled,
                   errors, result, heard, found>>

SearchNext ==
    AskStructured \/ AskStandard \/ AskId \/ Probe \/ AskExact \/ AskTitle \/ Save

SearchSpec == SearchInit /\ [][SearchNext]_vars

-----------------------------------------------------------------------------
(* Properties.                                                               *)

\* A result is shown in one section only (existing_merge_keys, seen_merge_keys).
DisjointSections == primaryKeys \cap fallbackKeys = {}

\* A search that fails had nothing to show, unless it is a standard search of one
\* indexer, which drops the rows of earlier wordings (search).
FailureDropsNothing ==
    result = "error" /\ (ImdbFirst \/ ~Single) => found = {}

\* A standard search returns what the indexers returned, all of it, and only if one
\* of them answered (search; the snapshot is not replaced by an outage).
StandardComplete ==
    ~ImdbFirst /\ result = "run" => heard /\ primary = found

\* What an outage of Jackett does to a rule with an IMDb id: the search "succeeds" with
\* nothing, and the rows saved before are gone (_search_imdb_first, execute_rule_fetch).
OutageClears == stage = "saved" => cleared /\ saved \subseteq CloudRows
=============================================================================
