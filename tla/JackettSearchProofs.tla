------------------------- MODULE JackettSearchProofs -------------------------
(* What a search of Jackett promises for all scopes, wordings and failures.   *)

EXTENDS JackettSearch, SearchFilter, TLAPS

LEMMA CallIsResponse == ASSUME SearchOK PROVE Call \subseteq Response
  <1> SUFFICES ASSUME NEW answers \in [1..MaxAttempts -> Responses]
               PROVE  Called(answers, MaxAttempts) \in Response
    BY DEF Call
  <1> DEFINE ends(i) == answers[i].kind \in {"http", "client"} \/ answers[i].rows # {}
             first(i) == ends(i) /\ \A j \in 1..(i - 1) : ~ends(j)
             some(kind) == \E i \in 1..MaxAttempts : answers[i].kind = kind
  <1>1. CASE \E i \in 1..MaxAttempts : first(i)
    <2>1. (CHOOSE i \in 1..MaxAttempts : first(i)) \in 1..MaxAttempts
      BY <1>1
    <2>2. Called(answers, MaxAttempts) = answers[CHOOSE i \in 1..MaxAttempts : first(i)]
      BY <1>1 DEF Called
    <2> QED
      BY <2>1, <2>2 DEF SearchOK
  <1>2. CASE ~\E i \in 1..MaxAttempts : first(i)
    <2>1. Called(answers, MaxAttempts)
          = [kind |-> IF some("rows") THEN "rows" ELSE IF some("bad") THEN "bad" ELSE "timeout",
             rows |-> {}]
      BY <1>2 DEF Called
    <2> QED
      BY <2>1 DEF Response, Failures
  <1> QED
    BY <1>1, <1>2

LEMMA ResponseParts ==
    ASSUME NEW r \in Response
    PROVE  /\ r.kind \in Failures \cup {"rows"} /\ r.rows \subseteq Rows
           /\ r.rows # {} => r.kind = "rows"
           /\ r.kind = "rows" => r.kind \notin Failures
  BY DEF Response, Failures

LEMMA ScopeAsks == ASSUME SearchOK PROVE \E i \in Scope : TRUE
  BY DEF SearchOK, Scope

LEMMA CallsParts ==
    ASSUME SearchOK, NEW S, NEW calls \in [S -> Response]
    PROVE  /\ Returned(calls, S) \subseteq Rows
           /\ Kinds(calls, S) \subseteq Failures \cup {"rows"}
           /\ "rows" \in Kinds(calls, S) <=> Answered(calls, S)
           /\ Returned(calls, S) # {} => Answered(calls, S)
           /\ ~Answered(calls, S) /\ Kinds(calls, S) \cap Failures = {} => S = {}
  <1>1. \A i \in S : /\ calls[i].kind \in Failures \cup {"rows"} /\ calls[i].rows \subseteq Rows
                     /\ calls[i].rows # {} => calls[i].kind = "rows"
    BY ResponseParts
  <1>2. \A i \in S : calls[i].kind \in Kinds(calls, S)
    BY DEF Kinds
  <1>3. \A k \in Kinds(calls, S) : \E i \in S : k = calls[i].kind
    BY DEF Kinds
  <1> QED
    BY <1>1, <1>2, <1>3 DEF Returned, Answered

\* The indexers are asked in calls of which each has an outcome of _search_variant.
LEMMA ScopeCalls ==
    ASSUME SearchOK, NEW calls \in [Scope -> Call]
    PROVE  /\ Returned(calls, Scope) \subseteq Rows
           /\ Kinds(calls, Scope) \subseteq Failures \cup {"rows"}
           /\ Returned(calls, Scope) # {} => Answered(calls, Scope)
           /\ Kinds(calls, Scope) \cap Failures = {} => Answered(calls, Scope)
           /\ Single /\ Answered(calls, Scope) => Kinds(calls, Scope) \cap Failures = {}
  <1>1. calls \in [Scope -> Response]
    BY CallIsResponse
  <1>2. Single /\ Answered(calls, Scope) => Kinds(calls, Scope) \cap Failures = {}
    BY DEF Single, Answered, Kinds, Failures
  <1> QED
    BY <1>1, <1>2, CallsParts, ScopeAsks

-----------------------------------------------------------------------------
StandardStage == stage \in {"structured", "standard"}
IdStage == stage \in {"id", "probe", "exact", "title"}

SearchInv ==
    /\ SearchTypeOK
    /\ DisjointSections
    /\ stage \in {"structured", "standard", "id", "probe"} => fallbackKeys = {}
    /\ stage = "exact" => primaryKeys \cup fallbackKeys \subseteq seen
    /\ stage = "title" => primaryKeys \subseteq seen
    /\ StandardStage => ~ImdbFirst
    /\ IdStage => ImdbFirst
    /\ stage \in {"structured", "id"} => ~labelled
    /\ result = "none" <=> StandardStage \/ IdStage
    /\ ~labelled => found = {}
    /\ ~ImdbFirst => (labelled <=> heard) /\ primary = found
    /\ result = "error" /\ (ImdbFirst \/ ~Single) => ~labelled
    /\ result = "run" /\ ~ImdbFirst => labelled

LEMMA SearchInitInv == ASSUME SearchOK, SearchInit PROVE SearchInv
  <1>1. SearchTypeOK
    <2>1. query \in 1..Queries
      BY DEF SearchOK, SearchInit
    <2>2. stage \in {"structured", "standard", "id"}
      BY DEF SearchInit
    <2> QED
      BY <2>1, <2>2 DEF SearchInit, SearchTypeOK
  <1>2. DisjointSections
    BY DEF SearchInit, DisjointSections
  <1>3. /\ stage \in {"structured", "standard", "id"} /\ (stage = "id" <=> ImdbFirst)
        /\ fallbackKeys = {} /\ ~labelled /\ ~heard /\ found = {} /\ primary = {} /\ result = "none"
    BY DEF SearchOK, SearchInit
  <1> QED
    BY <1>1, <1>2, <1>3 DEF SearchInv, StandardStage, IdStage

LEMMA StructuredKeeps == ASSUME SearchOK, SearchInv, AskStructured PROVE SearchInv'
  <1> USE DEF SearchInv, StandardStage, IdStage
  <1>1. /\ stage = "structured" /\ result = "none" /\ ~ImdbFirst /\ ~labelled /\ ~heard
        /\ found = {} /\ primary = {} /\ fallbackKeys = {}
        /\ UNCHANGED <<query, fallback, fallbackKeys, seen, errors, saved, cleared>>
    BY DEF AskStructured, Stays, SearchTypeOK
  <1>2. CASE /\ Return("error")
             /\ UNCHANGED <<primary, primaryKeys, labelled, heard, found>>
    BY <1>1, <1>2 DEF Return, SearchTypeOK, DisjointSections
  <1>3. ASSUME NEW S \in Listed, NEW calls \in [S -> Responses],
               ToPrimary(Returned(calls, S)), labelled' = Answered(calls, S),
               Hear(Returned(calls, S), Answered(calls, S)),
               IF primary' = {} THEN stage' = "standard" /\ result' = "none" ELSE Return("run")
        PROVE  SearchInv'
    <2>1. /\ Returned(calls, S) \subseteq Rows /\ Answered(calls, S) \in BOOLEAN
          /\ Returned(calls, S) # {} => Answered(calls, S)
      BY CallsParts DEF SearchOK, Answered
    <2>2. KeysOf(Returned(calls, S)) \subseteq Keys
      BY <2>1 DEF KeysOf, SearchOK
    <2>3. /\ primary' = Returned(calls, S) /\ found' = primary' /\ (heard' <=> labelled')
          /\ primaryKeys' \subseteq Keys /\ heard' \in BOOLEAN
      BY <1>1, <1>3, <2>2 DEF ToPrimary, Grouped, Hear, SearchTypeOK
    <2>4. SearchTypeOK'
      BY <1>1, <1>3, <2>1, <2>3 DEF SearchTypeOK, Return
    <2>5. DisjointSections'
      BY <1>1 DEF DisjointSections
    <2> QED
      BY <1>1, <1>3, <2>1, <2>3, <2>4, <2>5 DEF Return
  <1> QED
    BY <1>2, <1>3 DEF AskStructured

LEMMA StandardKeeps == ASSUME SearchOK, SearchInv, AskStandard PROVE SearchInv'
  <1> USE DEF SearchInv, StandardStage, IdStage
  <1>1. PICK calls \in [Scope -> Call] :
         /\ Hear(Returned(calls, Scope), Answered(calls, Scope))
         /\ IF Single /\ Kinds(calls, Scope) \cap {"bad", "http", "client"} # {}
            THEN /\ Return("error")
                 /\ UNCHANGED <<query, primary, primaryKeys, labelled, errors>>
            ELSE /\ ToPrimary(Returned(calls, Scope))
                 /\ labelled' = (labelled \/ Answered(calls, Scope))
                 /\ errors' = errors \cup (Kinds(calls, Scope) \cap Failures)
                 /\ IF query < Queries
                    THEN query' = query + 1 /\ UNCHANGED <<stage, result>>
                    ELSE /\ Return(IF labelled' \/ errors' = {} THEN "run" ELSE "error")
                         /\ UNCHANGED query
    BY DEF AskStandard
  <1>2. /\ stage = "standard" /\ result = "none" /\ ~ImdbFirst /\ fallbackKeys = {}
        /\ (labelled <=> heard) /\ primary = found
        /\ UNCHANGED <<fallback, fallbackKeys, seen, saved, cleared>>
    BY DEF AskStandard, Stays
  <1> DEFINE rows == Returned(calls, Scope)  answered == Answered(calls, Scope)
  <1>3. /\ rows \subseteq Rows /\ answered \in BOOLEAN /\ (rows # {} => answered)
        /\ Kinds(calls, Scope) \cap Failures = {} => answered
        /\ Single /\ answered => Kinds(calls, Scope) \cap Failures = {}
    BY ScopeCalls DEF Answered
  <1>4. KeysOf(rows) \subseteq Keys
    BY <1>3 DEF KeysOf, SearchOK
  <1>5. DisjointSections'
    BY <1>2 DEF DisjointSections
  <1>6. found' = found \cup rows /\ heard' = (heard \/ answered)
    BY <1>1 DEF Hear
  <1> HIDE DEF rows, answered
  <1>7. CASE Single /\ Kinds(calls, Scope) \cap {"bad", "http", "client"} # {}
    <2>1. Return("error") /\ UNCHANGED <<query, primary, primaryKeys, labelled, errors>>
      BY <1>1, <1>7
    <2>2. ~answered /\ rows = {}
      BY <1>3, <1>7 DEF Failures
    <2>3. found' = found /\ (heard' <=> heard) /\ heard' \in BOOLEAN
      BY <1>2, <1>6, <2>2 DEF SearchTypeOK
    <2>4. SearchTypeOK'
      BY <1>2, <2>1, <2>3 DEF Return, SearchTypeOK
    <2> QED
      BY <1>2, <1>5, <1>7, <2>1, <2>3, <2>4 DEF Return
  <1>8. CASE ~(Single /\ Kinds(calls, Scope) \cap {"bad", "http", "client"} # {})
    <2>1. /\ primary' = primary \cup rows /\ primaryKeys' \subseteq primaryKeys \cup KeysOf(rows)
          /\ labelled' = (labelled \/ answered)
          /\ errors' = errors \cup (Kinds(calls, Scope) \cap Failures)
      BY <1>1, <1>8 DEF ToPrimary, Grouped, rows, answered
    <2>2. \/ query < Queries /\ query' = query + 1 /\ UNCHANGED <<stage, result>>
          \/ /\ Return(IF labelled' \/ errors' = {} THEN "run" ELSE "error")
             /\ UNCHANGED query
      BY <1>1, <1>8
    <2>3. SearchTypeOK'
      BY <1>2, <1>3, <1>4, <1>6, <2>1, <2>2 DEF SearchTypeOK, Return, SearchOK
    <2>4. errors' = {} => labelled'
      BY <1>3, <2>1
    <2>5. /\ ~labelled' => found' = {}
          /\ (labelled' <=> heard') /\ primary' = found'
      BY <1>2, <1>3, <1>6, <2>1
    <2> QED
      BY <1>2, <1>5, <2>2, <2>3, <2>4, <2>5 DEF Return
  <1> QED
    BY <1>7, <1>8

LEMMA CapableOutcome ==
    ASSUME SearchOK, NEW outcome \in Response PROVE outcome.rows # {} => outcome.kind = "rows"
  BY ResponseParts

LEMMA IdKeeps == ASSUME SearchOK, SearchInv, AskId PROVE SearchInv'
  <1> USE DEF SearchInv, StandardStage, IdStage
  <1>1. PICK outcome \in Response :
         /\ Hear(outcome.rows, outcome.kind = "rows")
         /\ ToPrimary(outcome.rows)
         /\ labelled' = (outcome.kind \in {"rows", "bad"})
         /\ errors' = IF outcome.kind = "timeout" THEN {"timeout"} ELSE {}
         /\ IF outcome.kind = "http" THEN Return("error")
            ELSE /\ stage' = IF Chosen = All /\ ~Direct /\ outcome.rows = {}
                             THEN "probe" ELSE "exact"
                 /\ UNCHANGED result
    BY DEF AskId
  <1>2. /\ stage = "id" /\ result = "none" /\ ImdbFirst /\ fallbackKeys = {} /\ found = {}
        /\ ~labelled /\ seen' = primaryKeys'
        /\ UNCHANGED <<query, fallback, fallbackKeys, saved, cleared>>
    BY DEF AskId, Stays
  <1>3. outcome.rows \subseteq Rows /\ (outcome.rows # {} => outcome.kind = "rows")
    BY ResponseParts
  <1>4. KeysOf(outcome.rows) \subseteq Keys
    BY <1>3 DEF KeysOf, SearchOK
  <1>5. /\ primary' \subseteq Rows /\ primaryKeys' \subseteq Keys
        /\ found' = outcome.rows /\ heard' \in BOOLEAN
    BY <1>1, <1>2, <1>3, <1>4 DEF ToPrimary, Grouped, Hear, SearchTypeOK
  <1>6. SearchTypeOK'
    BY <1>1, <1>2, <1>3, <1>5 DEF SearchTypeOK, Return, Failures
  <1>7. DisjointSections'
    BY <1>2 DEF DisjointSections
  <1> QED
    BY <1>1, <1>2, <1>3, <1>5, <1>6, <1>7 DEF Return

LEMMA ProbeKeeps == ASSUME SearchOK, SearchInv, Probe PROVE SearchInv'
  <1> USE DEF SearchInv, StandardStage, IdStage
  <1>1. PICK outcome \in Response :
         /\ Hear(outcome.rows, outcome.kind = "rows")
         /\ ToPrimary(outcome.rows)
         /\ labelled' = (labelled \/ outcome.kind = "rows")
    BY DEF Probe
  <1>2. /\ stage = "probe" /\ result = "none" /\ ImdbFirst /\ fallbackKeys = {}
        /\ stage' = "exact" /\ seen' = primaryKeys'
        /\ UNCHANGED <<query, fallback, fallbackKeys, errors, result, saved, cleared>>
    BY DEF Probe, Stays
  <1>3. outcome.rows \subseteq Rows /\ (outcome.rows # {} => outcome.kind = "rows")
    BY ResponseParts
  <1>4. KeysOf(outcome.rows) \subseteq Keys
    BY <1>3 DEF KeysOf, SearchOK
  <1>5. /\ primary' \subseteq Rows /\ primaryKeys' \subseteq Keys
        /\ found' = found \cup outcome.rows /\ heard' \in BOOLEAN
    BY <1>1, <1>3, <1>4 DEF ToPrimary, Grouped, Hear, SearchTypeOK
  <1>6. SearchTypeOK'
    BY <1>1, <1>2, <1>3, <1>5 DEF SearchTypeOK
  <1>7. DisjointSections'
    BY <1>2 DEF DisjointSections
  <1> QED
    BY <1>1, <1>2, <1>3, <1>5, <1>6, <1>7

LEMMA ExactKeeps == ASSUME SearchOK, SearchInv, AskExact PROVE SearchInv'
  <1> USE DEF SearchInv, StandardStage, IdStage
  <1>1. PICK calls \in [Scope -> Call], new \in SUBSET SameTitle :
         LET rows == Returned(calls, Scope)
             candidates == {r \in rows \cap SameTitle : KeyOf[r] \notin seen}
         IN /\ new \subseteq candidates /\ KeysOf(new) = KeysOf(candidates)
            /\ \A r, q \in new : KeyOf[r] = KeyOf[q] => r = q
            /\ Hear(rows, Answered(calls, Scope))
            /\ ToPrimary(new \cap Exact) /\ ToFallback(new \ Exact)
            /\ labelled' = (labelled \/ Answered(calls, Scope))
            /\ IF rows = {} /\ query < Queries
               THEN /\ query' = query + 1
                    /\ seen' = seen \cup KeysOf(new)
                    /\ UNCHANGED <<stage, result>>
               ELSE /\ query' = 1
                    /\ seen' = primaryKeys'
                    /\ IF NeedsBroad \/ primary' = {}
                       THEN stage' = "title" /\ UNCHANGED result
                       ELSE Conclude
    BY DEF AskExact
  <1> DEFINE rows == Returned(calls, Scope)  answered == Answered(calls, Scope)
  <1>2. /\ stage = "exact" /\ result = "none" /\ ImdbFirst
        /\ primaryKeys \cup fallbackKeys \subseteq seen
        /\ UNCHANGED <<errors, saved, cleared>>
    BY DEF AskExact, Stays
  <1>3. rows \subseteq Rows /\ answered \in BOOLEAN /\ (rows # {} => answered)
    BY ScopeCalls DEF Answered
  <1>4. /\ new \subseteq Rows
        /\ \A r \in new : KeyOf[r] \in Keys \ seen
        /\ \A r, q \in new : KeyOf[r] = KeyOf[q] => r = q
    BY <1>1, <1>3 DEF SearchOK
  <1>5. /\ primary' = primary \cup (new \cap Exact) /\ fallback' = fallback \cup (new \ Exact)
        /\ primaryKeys' \subseteq primaryKeys \cup KeysOf(new \cap Exact)
        /\ fallbackKeys' \subseteq fallbackKeys \cup KeysOf(new \ Exact)
        /\ found' = found \cup rows /\ heard' = (heard \/ answered)
        /\ labelled' = (labelled \/ answered)
    BY <1>1 DEF ToPrimary, ToFallback, Grouped, Hear
  <1>6. /\ KeysOf(new \cap Exact) \subseteq Keys \ seen /\ KeysOf(new \ Exact) \subseteq Keys \ seen
        /\ KeysOf(new \cap Exact) \cap KeysOf(new \ Exact) = {}
        /\ KeysOf(new \cap Exact) \cup KeysOf(new \ Exact) = KeysOf(new)
    BY <1>4 DEF KeysOf
  <1>7. \/ query < Queries /\ query' = query + 1 /\ UNCHANGED <<stage, result>>
           /\ seen' = seen \cup KeysOf(new)
        \/ query' = 1 /\ seen' = primaryKeys' /\ stage' = "title" /\ UNCHANGED result
        \/ query' = 1 /\ seen' = primaryKeys' /\ Conclude
    BY <1>1
  <1> HIDE DEF rows, answered
  <1>8. DisjointSections'
    BY <1>2, <1>5, <1>6 DEF DisjointSections
  <1>9. primaryKeys' \subseteq Keys /\ fallbackKeys' \subseteq Keys /\ seen' \subseteq Keys
    BY <1>5, <1>6, <1>7 DEF SearchTypeOK
  <1>10. SearchTypeOK'
    <2>1. query' \in 1..Queries
      BY <1>7 DEF SearchTypeOK, SearchOK
    <2>2. stage' \in {"exact", "title", "end"} /\ result' \in {"none", "run", "error"}
      BY <1>2, <1>7 DEF Conclude, Return
    <2>3. primary' \subseteq Rows /\ fallback' \subseteq Rows /\ found' \subseteq Rows
      BY <1>3, <1>4, <1>5 DEF SearchTypeOK
    <2>4. heard' \in BOOLEAN /\ labelled' \in BOOLEAN
      BY <1>5
    <2> QED
      BY <1>2, <1>9, <2>1, <2>2, <2>3, <2>4 DEF SearchTypeOK
  <1>11. ~labelled' => found' = {}
    BY <1>3, <1>5
  <1>12. stage' = "exact" => primaryKeys' \cup fallbackKeys' \subseteq seen'
    BY <1>2, <1>5, <1>6, <1>7 DEF Conclude, Return
  <1>13. stage' = "title" => primaryKeys' \subseteq seen'
    BY <1>2, <1>7 DEF Conclude, Return
  <1>14. /\ stage' \in {"exact", "title", "end"}
         /\ result' = "none" <=> stage' \in {"exact", "title"}
         /\ result' = "error" => ~labelled'
    BY <1>2, <1>7 DEF Conclude, Return
  <1> QED
    BY <1>2, <1>8, <1>10, <1>11, <1>12, <1>13, <1>14

LEMMA TitleKeeps == ASSUME SearchOK, SearchInv, AskTitle PROVE SearchInv'
  <1> USE DEF SearchInv, StandardStage, IdStage
  <1>1. PICK calls \in [Scope -> Call], new \in SUBSET Rows :
         LET rows == Returned(calls, Scope)
             candidates == {r \in rows : KeyOf[r] \notin seen}
         IN /\ new \subseteq candidates /\ KeysOf(new) = KeysOf(candidates)
            /\ Hear(rows, Answered(calls, Scope))
            /\ ToFallback(new)
            /\ labelled' = (labelled \/ Answered(calls, Scope))
            /\ seen' = seen \cup KeysOf(rows)
            /\ NextQuery(rows, Conclude)
    BY DEF AskTitle
  <1> DEFINE rows == Returned(calls, Scope)  answered == Answered(calls, Scope)
  <1>2. /\ stage = "title" /\ result = "none" /\ ImdbFirst /\ primaryKeys \subseteq seen
        /\ UNCHANGED <<primary, primaryKeys, errors, saved, cleared>>
    BY DEF AskTitle, Stays
  <1>3. rows \subseteq Rows /\ answered \in BOOLEAN /\ (rows # {} => answered)
    BY ScopeCalls DEF Answered
  <1>4. new \subseteq Rows /\ \A r \in new : KeyOf[r] \in Keys \ seen
    BY <1>1, <1>3 DEF SearchOK
  <1>5. /\ fallback' = fallback \cup new /\ fallbackKeys' \subseteq fallbackKeys \cup KeysOf(new)
        /\ found' = found \cup rows /\ heard' = (heard \/ answered)
        /\ labelled' = (labelled \/ answered) /\ seen' = seen \cup KeysOf(rows)
    BY <1>1 DEF ToFallback, Grouped, Hear
  <1>6. KeysOf(new) \subseteq Keys \ seen /\ KeysOf(rows) \subseteq Keys
    BY <1>3, <1>4 DEF KeysOf, SearchOK
  <1>7. \/ query < Queries /\ query' = query + 1 /\ UNCHANGED <<stage, result>>
        \/ query' = 1 /\ Conclude
    BY <1>1 DEF NextQuery
  <1> HIDE DEF rows, answered
  <1>8. DisjointSections'
    BY <1>2, <1>5, <1>6 DEF DisjointSections
  <1>9. SearchTypeOK'
    <2>1. query' \in 1..Queries
      BY <1>7 DEF SearchTypeOK, SearchOK
    <2>2. stage' \in {"title", "end"} /\ result' \in {"none", "run", "error"}
      BY <1>2, <1>7 DEF Conclude, Return
    <2>3. fallback' \subseteq Rows /\ found' \subseteq Rows
      BY <1>3, <1>4, <1>5 DEF SearchTypeOK
    <2>4. heard' \in BOOLEAN /\ labelled' \in BOOLEAN
      BY <1>5
    <2>5. fallbackKeys' \subseteq Keys /\ seen' \subseteq Keys
      BY <1>5, <1>6 DEF SearchTypeOK
    <2> QED
      BY <1>2, <2>1, <2>2, <2>3, <2>4, <2>5 DEF SearchTypeOK
  <1>10. ~labelled' => found' = {}
    BY <1>3, <1>5
  <1>11. primaryKeys' \subseteq seen'
    BY <1>2, <1>5
  <1>12. /\ stage' \in {"title", "end"}
         /\ result' = "none" <=> stage' = "title"
         /\ result' = "error" => ~labelled'
    BY <1>2, <1>7 DEF Conclude, Return
  <1> QED
    BY <1>2, <1>8, <1>9, <1>10, <1>11, <1>12

LEMMA SaveKeeps == ASSUME SearchOK, SearchInv, Save PROVE SearchInv'
  <1> USE DEF SearchInv, StandardStage, IdStage
  <1>1. /\ stage = "end" /\ stage' = "saved"
        /\ UNCHANGED <<query, primary, primaryKeys, fallback, fallbackKeys, seen, labelled,
                       errors, result, heard, found>>
    BY DEF Save
  <1>2. saved' \subseteq Rows \cup CloudRows /\ cleared' \in BOOLEAN
    BY DEF Save, SearchTypeOK
  <1> QED
    BY <1>1, <1>2 DEF SearchTypeOK, DisjointSections

LEMMA SearchStepInv == ASSUME SearchOK, SearchInv, [SearchNext]_vars PROVE SearchInv'
  <1>1. CASE SearchNext
    BY <1>1, StructuredKeeps, StandardKeeps, IdKeeps, ProbeKeeps, ExactKeeps, TitleKeeps,
       SaveKeeps DEF SearchNext
  <1>2. CASE UNCHANGED vars
    BY <1>2 DEF vars, SearchInv, SearchTypeOK, DisjointSections, StandardStage, IdStage
  <1> QED
    BY <1>1, <1>2

LEMMA SearchInvariant == ASSUME SearchOK PROVE SearchSpec => []SearchInv
  <1>1. SearchInit => SearchInv
    BY SearchInitInv
  <1>2. SearchInv /\ [SearchNext]_vars => SearchInv'
    BY SearchStepInv
  <1> QED
    BY <1>1, <1>2, PTL DEF SearchSpec

-----------------------------------------------------------------------------
\* A torrent that the primary section shows is not repeated in the fallback section,
\* under the key it is grouped by (_search_precise_title_primary, _search_title_fallback).
THEOREM SectionsStayDisjoint == ASSUME SearchOK PROVE SearchSpec => []DisjointSections
  <1>1. SearchInv => DisjointSections
    BY DEF SearchInv
  <1> QED
    BY <1>1, SearchInvariant, PTL

\* A search that returns an error drops no row, unless it is a standard search of one
\* indexer (search, _search_imdb_first).
THEOREM FailureIsEmpty == ASSUME SearchOK PROVE SearchSpec => []FailureDropsNothing
  <1>1. SearchInv => FailureDropsNothing
    BY DEF SearchInv, FailureDropsNothing
  <1> QED
    BY <1>1, SearchInvariant, PTL

\* A standard search returns all that was found, and only after an answer (search).
THEOREM StandardRunComplete == ASSUME SearchOK PROVE SearchSpec => []StandardComplete
  <1>1. SearchInv => StandardComplete
    BY DEF SearchInv, StandardComplete
  <1> QED
    BY <1>1, SearchInvariant, PTL

-----------------------------------------------------------------------------
(* Jackett cannot be reached.                                                *)

Refused == [kind |-> "client", rows |-> {}]
Outage == Responses = {Refused}

LEMMA OutageCalls ==
    ASSUME SearchOK, Outage
    PROVE  /\ \A call \in Call : call = Refused
           /\ \A outcome \in Response : AskCapable(outcome) => outcome = Refused
  <1>1. ASSUME NEW answers \in [1..MaxAttempts -> Responses]
        PROVE  Called(answers, MaxAttempts) = Refused
    <2> DEFINE ends(i) == answers[i].kind \in {"http", "client"} \/ answers[i].rows # {}
               first(i) == ends(i) /\ \A j \in 1..(i - 1) : ~ends(j)
    <2>1. 1 \in 1..MaxAttempts /\ \A i \in 1..MaxAttempts : answers[i] = Refused
      BY DEF SearchOK, Outage
    <2>2. first(1)
      BY <2>1 DEF Refused
    <2>3. (CHOOSE i \in 1..MaxAttempts : first(i)) \in 1..MaxAttempts
      BY <2>1, <2>2
    <2>4. Called(answers, MaxAttempts) = answers[CHOOSE i \in 1..MaxAttempts : first(i)]
      BY <2>1, <2>2 DEF Called
    <2> QED
      BY <2>1, <2>3, <2>4
  <1>2. ASSUME NEW outcome \in Response, AskCapable(outcome) PROVE outcome = Refused
    <2>1. ~ListingWorks
      BY DEF ListingWorks, Outage, Refused
    <2>2. ListingFails(outcome.kind) /\ outcome.rows = {}
      BY <1>2, <2>1 DEF AskCapable
    <2>3. outcome.kind = "client"
      BY <2>2 DEF ListingFails, Outage, Refused
    <2> QED
      BY <2>2, <2>3 DEF Response, Refused
  <1> QED
    BY <1>1, <1>2 DEF Call

LEMMA OutageScope ==
    ASSUME SearchOK, Outage, NEW calls \in [Scope -> Call]
    PROVE  Returned(calls, Scope) = {} /\ ~Answered(calls, Scope)
  <1>1. \A i \in Scope : calls[i] = Refused
    BY OutageCalls
  <1> QED
    BY <1>1 DEF Returned, Answered, Refused

OutageInv ==
    /\ stage \in {"id", "probe", "exact", "title", "end", "saved"}
    /\ primary = {} /\ fallback = {} /\ errors = {} /\ result # "error"
    /\ stage \in {"end", "saved"} => result = "run"
    /\ OutageClears

LEMMA OutageStep ==
    ASSUME SearchOK, ImdbFirst, Outage, OutageInv, [SearchNext]_vars PROVE OutageInv'
  <1> USE DEF OutageInv, OutageClears
  <1>1. CASE AskStructured \/ AskStandard
    BY <1>1 DEF AskStructured, AskStandard
  <1>2. CASE AskId
    <2>1. PICK outcome \in Response :
            /\ outcome = Refused
            /\ primary' = primary \cup outcome.rows
            /\ errors' = IF outcome.kind = "timeout" THEN {"timeout"} ELSE {}
            /\ outcome.kind # "http" => /\ stage' \in {"probe", "exact"}
                                        /\ UNCHANGED result
      BY <1>2, OutageCalls DEF AskId, ToPrimary
    <2> QED
      BY <1>2, <2>1 DEF AskId, Refused
  <1>3. CASE Probe
    <2>1. PICK outcome \in Response : outcome = Refused /\ primary' = primary \cup outcome.rows
      BY <1>3, OutageCalls DEF Probe, ToPrimary
    <2> QED
      BY <1>3, <2>1 DEF Probe, Refused
  <1>4. CASE AskExact
    <2>1. PICK calls \in [Scope -> Call], new \in SUBSET SameTitle :
            /\ new \subseteq Returned(calls, Scope)
            /\ primary' = primary \cup (new \cap Exact) /\ fallback' = fallback \cup (new \ Exact)
            /\ \/ UNCHANGED <<stage, result>>
               \/ stage' = "title" /\ UNCHANGED result
               \/ Conclude
      BY <1>4 DEF AskExact, ToPrimary, ToFallback
    <2>2. new = {}
      BY <2>1, OutageScope
    <2> QED
      BY <1>4, <2>1, <2>2 DEF AskExact, Conclude, Return
  <1>5. CASE AskTitle
    <2>1. PICK calls \in [Scope -> Call], new \in SUBSET Rows :
            /\ new \subseteq Returned(calls, Scope)
            /\ fallback' = fallback \cup new
            /\ UNCHANGED <<stage, result>> \/ Conclude
      BY <1>5 DEF AskTitle, ToFallback, NextQuery
    <2>2. new = {}
      BY <2>1, OutageScope
    <2> QED
      BY <1>5, <2>1, <2>2 DEF AskTitle, Conclude, Return
  <1>6. CASE Save
    BY <1>6 DEF Save
  <1>7. CASE UNCHANGED vars
    BY <1>7 DEF vars
  <1> QED
    BY <1>1, <1>2, <1>3, <1>4, <1>5, <1>6, <1>7 DEF SearchNext

\* With Jackett unreachable, a search by IMDb id never fails: it "succeeds" with nothing,
\* and the saved rows of the rule are replaced (_search_imdb_first, execute_rule_fetch).
THEOREM OutageClearsRows ==
    ASSUME SearchOK, ImdbFirst, Outage PROVE SearchSpec => [](result # "error" /\ OutageClears)
  <1>1. SearchInit => OutageInv
    BY DEF SearchInit, OutageInv, OutageClears
  <1>2. OutageInv /\ [SearchNext]_vars => OutageInv'
    BY OutageStep
  <1>3. OutageInv => result # "error" /\ OutageClears
    BY DEF OutageInv
  <1> QED
    BY <1>1, <1>2, <1>3, PTL DEF SearchSpec

-----------------------------------------------------------------------------
(* Filters (SearchFilter).                                                   *)

\* The primary section shows whatever passes all the filters of a rule, if no term that
\* the rule excludes by quality is an alternative of its other groups ...
THEOREM FirstShowsWanted ==
    ASSUME NEW rule \in SearchRule, NEW row \in Result,
           \A g \in Wanted(rule).any : g \cap rule.excluded # {} => g \in rule.quality,
           PassesTerms(row, Request(rule).wanted)
    PROVE  PassesTerms(row, FirstFilters(Request(rule)))
  <1> DEFINE other == IF rule.pattern THEN rule.patternGroups ELSE {}
             groups == rule.groups \cup other \cup rule.quality
             not == rule.excluded \cup (IF rule.pattern THEN rule.patternNot ELSE {})
  <1>1. Wanted(rule).any = groups \ {{}} /\ Wanted(rule).not = not \ UNION (groups \ {{}})
    BY DEF Wanted, FiltersOf
  <1>2. /\ WantedFirst(rule).all = {} /\ WantedFirst(rule).any = rule.quality \ {{}}
        /\ WantedFirst(rule).not = rule.excluded \ UNION (rule.quality \ {{}})
    BY DEF WantedFirst, FiltersOf
  <1>3. WantedFirst(rule).any \subseteq Wanted(rule).any
    BY <1>1, <1>2
  <1>4. WantedFirst(rule).not \subseteq Wanted(rule).not
    <2> SUFFICES ASSUME NEW t \in WantedFirst(rule).not PROVE t \notin UNION (groups \ {{}})
      BY <1>1, <1>2
    <2> SUFFICES ASSUME NEW g \in groups \ {{}}, t \in g PROVE FALSE
      OBVIOUS
    <2>1. g \in rule.quality
      BY <1>1, <1>2
    <2> QED
      BY <1>2, <2>1
  <1>5. PassesTerms(row, WantedFirst(rule))
    BY <1>2, <1>3, <1>4 DEF PassesTerms, Request
  <1> QED
    BY <1>5 DEF FirstFilters, Request

\* ... and else it may hide it: a result is dropped from the section that passes all the
\* filters of the rule and has a term that the quality tags exclude and another group
\* of the rule offers (JackettClient._local_filter_payload).
THEOREM WantedYetHidden ==
    ASSUME NEW rule \in SearchRule, NEW row \in Result,
           PassesTerms(row, Request(rule).wanted),
           NEW term \in rule.excluded, term \in row.hit,
           \A g \in rule.quality : term \notin g
    PROVE  ~PassesTerms(row, FirstFilters(Request(rule)))
  <1>1. term \in WantedFirst(rule).not
    BY DEF WantedFirst, FiltersOf
  <1>2. FirstFilters(Request(rule)) = WantedFirst(rule)
    BY <1>1 DEF FirstFilters, Request
  <1> QED
    BY <1>1, <1>2 DEF PassesTerms

\* A term that a rule requires is not required once some group offers it too.
THEOREM RequiredTermDropped ==
    ASSUME NEW rule \in SearchRule, NEW term \in rule.singles, NEW g \in rule.groups, term \in g
    PROVE  term \notin Request(rule).wanted.all
  BY DEF Request, Wanted, FiltersOf

\* A request reduced to its limits excludes and requires no more than the rule, and
\* finds less only by the alternatives that its groups have lost.
THEOREM ReducedFindsLessByGroups ==
    ASSUME NEW filters \in Filters, NEW reduced \in Filters, Reduced(filters, reduced),
           NEW row \in Result, PassesTerms(row, filters),
           \A g \in reduced.any : g \in filters.any
    PROVE  PassesTerms(row, reduced)
  BY DEF Reduced, PassesTerms

\* With an IMDb id a result of another title passes only by the id itself, and a
\* result of another id never (classify_imdb_backed_result_identity).
THEOREM IdentityHolds ==
    ASSUME NEW row \in Result, NEW request, request.imdb \in Imdbs, NoImdb \notin Imdbs,
           Identified(row, request, TRUE)
    PROVE  /\ row.imdb \in {request.imdb, NoImdb}
           /\ row.imdb = request.imdb \/ row.exact
  BY DEF Identified, Identity

\* A rule searches for one episode: a later one that a title names does not pass,
\* unless the title names a range or its whole season.
THEOREM LaterEpisodeHidden ==
    ASSUME NEW row \in Result, NEW request, request.series,
           request.season \in Nat, request.episode \in Nat, NoNumber \notin Nat,
           NEW s \in row.spans, row.spans = {s},
           s.first > request.episode
    PROVE  ~PassesEpisode(row, request)
  BY DEF PassesEpisode, NamesEpisode, Result

=============================================================================
