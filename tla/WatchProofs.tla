----------------------------- MODULE WatchProofs -----------------------------
(***************************************************************************)
(* What the arbitration of floors, completion evidence (WatchState) and    *)
(* watch progress (WatchProgress) promises for all records, when a write   *)
(* of its winner settles the matter, and that matching (TitleMatch) never  *)
(* hands a rule of one title to another.                                   *)
(***************************************************************************)
EXTENDS WatchState, WatchProgress, TitleMatch, WatchSync, FiniteSetTheorems, TLAPS

USE DEF None

-----------------------------------------------------------------------------
\* The floor after an episode is the next episode number there is: none lies
\* between, and the last one, S99E99, stays where it is.
THEOREM IncrementFloorNext ==
  ASSUME NEW e \in Episode
  PROVE  /\ IncrementFloor(e) \in Episode
         /\ e # 9999 => IncrementFloor(e) > e
         /\ \A f \in Episode : e < f /\ f < IncrementFloor(e) => Number(f) = 0
<1>1. PICK s \in 0 .. 99, n \in 0 .. 99 : e = 100 * s + n /\ Season(e) = s /\ Number(e) = n
  <2>1. /\ Season(e) \in 0 .. 99 /\ Number(e) \in 0 .. 99
        /\ e = 100 * Season(e) + Number(e)
    BY DEF Episode, Season, Number
  <2> QED
    BY <2>1
<1> DEFINE next == IncrementFloor(e)
<1>2. next = IF n < 99 THEN e + 1 ELSE IF s < 99 THEN 100 * (s + 1) + 1 ELSE e
  BY <1>1 DEF IncrementFloor
<1>3. CASE n < 99
  <2>1. next = e + 1 /\ e < 9999
    BY <1>1, <1>2, <1>3
  <2>2. e + 1 \in Episode /\ e + 1 > e
    BY <2>1 DEF Episode
  <2>3. ASSUME NEW f \in Episode PROVE ~(e < f /\ f < e + 1)
    BY DEF Episode
  <2> HIDE DEF next
  <2>4. next \in Episode /\ next > e /\ \A f \in Episode : ~(e < f /\ f < next)
    BY <2>1, <2>2, <2>3
  <2> QED
    BY <2>4 DEF next
<1>4. CASE n = 99 /\ s < 99
  <2>1. next = e + 2 /\ e + 1 = 100 * (s + 1) /\ e + 2 <= 9999
    BY <1>1, <1>2, <1>4
  <2>2. Number(e + 1) = 0
    BY <2>1 DEF Number
  <2>3. \A f \in Episode : e < f /\ f < e + 2 => f = e + 1
    BY DEF Episode
  <2>4. e + 2 \in Episode /\ e + 2 > e
    BY <2>1 DEF Episode
  <2> HIDE DEF next
  <2>5. next \in Episode /\ next > e /\ \A f \in Episode : e < f /\ f < next => Number(f) = 0
    BY <2>1, <2>2, <2>3, <2>4
  <2> QED
    BY <2>5 DEF next
<1>5. CASE n = 99 /\ s = 99
  <2>1. next = e /\ e = 9999
    BY <1>1, <1>2, <1>5
  <2> QED
    BY <2>1 DEF Episode
<1> QED
  BY <1>3, <1>4, <1>5

\* What DeriveFloor returns names two floors.
Proposes(derived) == derived.watchedNext \in Floor /\ derived.knownNext \in Floor

\* A source that may not correct floors ahead of it, which is Jellyfin always
\* and Stremio without a readable bitfield, never moves a floor back, except
\* from SxxE00 into the season before; and it moves it only to what it proposes.
THEOREM SelectFloorKept ==
  ASSUME NEW derived, Proposes(derived), NEW floor \in Int, NEW keep \in BOOLEAN,
         NEW source \in Sources
  PROVE  LET next == SelectFloor(derived, floor, keep, source, FALSE)
         IN /\ next >= floor \/ IsNextSeasonStart(floor, next)
            /\ next \in {floor, ProposedFloor(derived, keep, source)}
<1> DEFINE proposed == ProposedFloor(derived, keep, source)
           next == SelectFloor(derived, floor, keep, source, FALSE)
<1> HIDE DEF proposed
<1>1. proposed \in Int /\ floor \in Int
  <2>1. proposed \in Floor
    BY DEF proposed, ProposedFloor, Proposes
  <2> QED
    BY <2>1 DEF Floor, Episode
<1>2. \/ next = proposed /\ (floor < proposed \/ IsNextSeasonStart(floor, proposed))
      \/ next = floor
  BY DEF SelectFloor, proposed
<1> HIDE DEF next
<1>3. next >= floor \/ IsNextSeasonStart(floor, next)
  BY <1>1, <1>2
<1>4. next \in {floor, proposed}
  BY <1>2
<1> QED
  BY <1>3, <1>4 DEF proposed, next

\* A second look by the same source changes nothing: once the floor is selected
\* it stays until the library changes.
THEOREM SelectFloorStable ==
  ASSUME NEW derived, Proposes(derived), NEW floor \in Floor, NEW keep \in BOOLEAN,
         NEW source \in Sources, NEW correct \in BOOLEAN
  PROVE  LET next == SelectFloor(derived, floor, keep, source, correct)
         IN SelectFloor(derived, next, keep, source, correct) = next
<1> DEFINE proposed == ProposedFloor(derived, keep, source)
           next == SelectFloor(derived, floor, keep, source, correct)
<1>1. proposed \in Floor
  BY DEF ProposedFloor, Proposes
<1>2. next = proposed \/ next = floor
  BY DEF SelectFloor
<1>3. CASE next = proposed
  BY <1>3 DEF SelectFloor
<1>4. CASE next = floor
  BY <1>4
<1> QED
  BY <1>2, <1>3, <1>4

-----------------------------------------------------------------------------
(***************************************************************************)
(* Completion evidence of several sources.                                 *)
(***************************************************************************)

\* A source's word leaves the label of every other source as it was.
LEMMA OtherLabelsKept ==
  ASSUME NEW sources \in SUBSET Sources, NEW source \in Sources, NEW completed \in BOOLEAN
  PROVE  /\ EvidenceAfter(sources, source, completed) \in SUBSET Sources
         /\ source \in EvidenceAfter(sources, source, completed) <=> completed
         /\ \A q \in Sources \ {source} :
              q \in EvidenceAfter(sources, source, completed) <=> q \in sources
BY DEF EvidenceAfter

Verdicts == [enabled : BOOLEAN, auto : BOOLEAN]

\* Completion by whatever source disables a rule that does not keep searching,
\* and a rule the user disabled is never enabled by watch state.
THEOREM CompletionDisables ==
  ASSUME NEW sources \in SUBSET Sources, NEW source \in Sources, NEW completed \in BOOLEAN,
         NEW enabled \in BOOLEAN, NEW auto \in BOOLEAN, NEW keep \in BOOLEAN
  PROVE  LET after == SelectMovie(source, completed, sources, enabled, auto, keep)
         IN /\ after.sources # {} /\ ~keep => ~after.enabled
            /\ ~enabled /\ ~auto => ~after.enabled /\ ~after.auto
            /\ (after.enabled \/ after.auto) <=> (enabled \/ auto)
            /\ ~(after.enabled /\ after.auto)
BY DEF SelectMovie, ApplyEvidence

\* Two sources that see the same movie may be synced in either order: the rule
\* they leave is the same.
THEOREM OrderOfSources ==
  ASSUME NEW sources \in SUBSET Sources, NEW enabled \in BOOLEAN, NEW auto \in BOOLEAN,
         NEW keep \in BOOLEAN, NEW c1 \in BOOLEAN, NEW c2 \in BOOLEAN
  PROVE  LET j  == SelectMovie("jellyfin", c1, sources, enabled, auto, keep)
             js == SelectMovie("stremio", c2, j.sources, j.enabled, j.auto, keep)
             s  == SelectMovie("stremio", c2, sources, enabled, auto, keep)
             sj == SelectMovie("jellyfin", c1, s.sources, s.enabled, s.auto, keep)
         IN js = sj
<1> DEFINE both == EvidenceAfter(EvidenceAfter(sources, "jellyfin", c1), "stremio", c2)
<1>1. both = EvidenceAfter(EvidenceAfter(sources, "stremio", c2), "jellyfin", c1)
  BY DEF EvidenceAfter
<1> QED
  BY <1>1 DEF SelectMovie, ApplyEvidence

\* When both sources take their completion back, the rule is as it was before
\* they gave it, whichever came and went first.
THEOREM EvidenceRoundTrip ==
  ASSUME NEW enabled \in BOOLEAN, NEW keep \in BOOLEAN, NEW p \in Sources, NEW q \in Sources,
         p # q, NEW first \in {p, q}
  PROVE  LET a == SelectMovie(p, TRUE, {}, enabled, FALSE, keep)
             b == SelectMovie(q, TRUE, a.sources, a.enabled, a.auto, keep)
             c == SelectMovie(first, FALSE, b.sources, b.enabled, b.auto, keep)
             d == SelectMovie(IF first = p THEN q ELSE p, FALSE, c.sources, c.enabled, c.auto,
                              keep)
         IN d = [sources |-> {}, enabled |-> enabled, auto |-> FALSE]
<1> DEFINE a == SelectMovie(p, TRUE, {}, enabled, FALSE, keep)
           b == SelectMovie(q, TRUE, a.sources, a.enabled, a.auto, keep)
           c == SelectMovie(first, FALSE, b.sources, b.enabled, b.auto, keep)
           last == IF first = p THEN q ELSE p
           d == SelectMovie(last, FALSE, c.sources, c.enabled, c.auto, keep)
<1>1. a.sources = {p} /\ (a.enabled \/ a.auto) = enabled
  BY DEF SelectMovie, ApplyEvidence, EvidenceAfter
<1>2. b.sources = {p, q} /\ (b.enabled \/ b.auto) = enabled
  BY <1>1 DEF SelectMovie, ApplyEvidence, EvidenceAfter
<1>3. c.sources = {last} /\ (c.enabled \/ c.auto) = enabled
  <2>1. {p, q} \ {first} = {last}
    OBVIOUS
  <2> QED
    BY <1>2, <2>1 DEF SelectMovie, ApplyEvidence, EvidenceAfter
<1>4. d = [sources |-> {}, enabled |-> c.enabled \/ c.auto, auto |-> FALSE]
  BY <1>3 DEF SelectMovie, ApplyEvidence, EvidenceAfter
<1> QED
  BY <1>3, <1>4

\* A series with unseen episodes to keep searching for is not disabled, however
\* much of it the other source has seen.
THEOREM UnseenKeepsSearching ==
  ASSUME NEW sources \in SUBSET Sources, NEW source \in Sources, NEW finished \in BOOLEAN,
         NEW enabled \in BOOLEAN, NEW auto \in BOOLEAN, NEW unseen, unseen # {}
  PROVE  LET after == SelectSeries(source, finished, sources, enabled, auto, TRUE, unseen)
         IN after.enabled = (enabled \/ auto) /\ after.auto = FALSE
BY DEF SelectSeries, ApplyEvidence

-----------------------------------------------------------------------------
USE DEF NoTime, Whole

-----------------------------------------------------------------------------
(***************************************************************************)
(* The code calls the left record Jellyfin's.  Had it called it the right  *)
(* one, the winner would be the same whenever the times differ: newer      *)
(* progress wins, whoever has it.                                          *)
(***************************************************************************)
THEOREM NewerWins ==
  ASSUME NEW left \in Records, NEW right \in Records, left.updated # right.updated
  PROVE  /\ Choose(left, right) = "left" <=> Choose(right, left) = "right"
         /\ Choose(left, right) = "left" => left.updated > right.updated
         /\ Choose(left, right) = "right" => right.updated > left.updated
<1>1. Agree(left, right) <=> Agree(right, left)
  BY DEF Agree, Meaningful, Distance, Records
<1>2. /\ LeftWins(left, right) <=> left.updated > right.updated
      /\ LeftWins(right, left) <=> right.updated > left.updated
  BY DEF LeftWins, Records
<1>3. left.updated > right.updated <=> ~(right.updated > left.updated)
  BY DEF Records
<1> QED
  BY <1>1, <1>2, <1>3 DEF Choose

\* Missing progress never wins over a record of Jellyfin's, all of which are
\* meaningful: what Stremio shows of a title without progress has no time.
THEOREM MissingNeverWins ==
  ASSUME NEW left \in Records, Meaningful(left),
         NEW right \in Records, ~Meaningful(right) => right.updated = NoTime
  PROVE  Choose(left, right) = "right" => Meaningful(right)
<1> SUFFICES ASSUME Choose(left, right) = "right", ~Meaningful(right)
             PROVE  FALSE
  OBVIOUS
<1>1. ~LeftWins(left, right)
  BY DEF Choose
<1>2. right.updated = NoTime /\ ~right.completed
  BY DEF Meaningful
<1>3. left.updated = NoTime /\ left.completed # right.completed /\ ~left.completed
  BY <1>1, <1>2 DEF LeftWins
<1> QED
  BY <1>2, <1>3 DEF Records

LEMMA SameAgrees ==
  ASSUME NEW left \in Records, NEW right \in Records,
         left.completed = right.completed, left.position = right.position
  PROVE  Choose(left, right) = "none"
BY MinDeltaAssumption DEF Choose, Agree, Distance, Records

-----------------------------------------------------------------------------
\* One write into Jellyfin settles the matter: the next sync finds both sides
\* agreeing, or Jellyfin without any progress.
THEOREM SettledInJellyfin ==
  ASSUME NEW right \in Records, NEW item \in ItemStates, NEW key \in Nat
  PROVE  Choose(JellyfinRecord(key, WriteJellyfin(right, item)), right) = "none"
<1> DEFINE left == JellyfinRecord(key, WriteJellyfin(right, item))
<1>1. left \in Records
  BY DEF Records, ItemStates, JellyfinRecord, WriteJellyfin
<1>2. left.completed = right.completed /\ left.position = right.position
  BY DEF Records, ItemStates, JellyfinRecord, WriteJellyfin
<1> QED
  BY <1>1, <1>2, SameAgrees

\* So does one into Stremio, of an episode the catalog knows or that is not
\* completed, provided it is the last one written for its series.
THEOREM SettledInStremioSeries ==
  ASSUME NEW left \in Records, Meaningful(left), left.item # Whole,
         NEW series \in SeriesStates, NEW known \in SUBSET Nat,
         left.completed => left.item \in known
  PROVE  Choose(left, SeriesRecord(WriteSeries(left, series, known), known)) = "none"
<1> DEFINE written == WriteSeries(left, series, known)
           right   == SeriesRecord(written, known)
<1>1. /\ written.video = left.item /\ written.time = left.position
      /\ written.bits = SetVideo(series.bits, known, left.item, left.completed)
      /\ written.at = series.at
  BY DEF WriteSeries, SeriesStates
<1>2. (written.video \in known \cap written.bits) = left.completed
  <2>1. CASE left.item \in known
    BY <2>1, <1>1 DEF SetVideo, Records, SeriesStates
  <2>2. CASE left.item \notin known
    BY <2>2, <1>1 DEF Records
  <2> QED
    BY <2>1, <2>2
<1>3. left.position > 0 \/ left.completed
  BY DEF Meaningful
<1>4. right = [item |-> left.item, position |-> left.position,
               completed |-> left.completed, updated |-> series.at]
  BY <1>1, <1>2, <1>3 DEF SeriesRecord, Records
<1>5. right \in Records
  BY <1>4 DEF Records, SeriesStates
<1> QED
  BY <1>4, <1>5, SameAgrees

\* A movie is settled in Stremio if it was not watched there further than in
\* Jellyfin, and is not, by its position, completed when Jellyfin says it is not.
THEOREM SettledInStremioMovie ==
  ASSUME NEW left \in Records, Meaningful(left), NEW movie \in MovieStates,
         movie.overall < left.position + MinDelta,
         \/ left.completed \/ movie.duration = 0
         \/ left.position < (95 * movie.duration) \div 100
  PROVE  Choose(left, MovieRecord(WriteMovie(left, movie))) = "none"
<1> DEFINE written == WriteMovie(left, movie)
           overall == IF movie.overall >= left.position THEN movie.overall ELSE left.position
           right   == MovieRecord(written)
<1>1. /\ written.time = left.position /\ written.overall = overall
      /\ written.duration = movie.duration /\ written.marked = left.completed
      /\ written.at = movie.at
  BY DEF WriteMovie, MovieStates
<1>2. overall \in Nat /\ overall >= left.position /\ overall < left.position + MinDelta
  BY MinDeltaAssumption DEF Records, MovieStates
<1>3. MovieCompleted(written) = left.completed
  <2>1. CASE left.completed
    BY <2>1, <1>1 DEF MovieCompleted, Records
  <2>2. CASE ~left.completed
    <3>1. movie.duration = 0 \/ left.position < (95 * movie.duration) \div 100
      BY <2>2
    <3>2. (95 * movie.duration) \div 100 \in Int
      BY DEF MovieStates
    <3>3. ~(movie.duration > 0 /\ left.position >= (95 * movie.duration) \div 100)
      BY <3>1, <3>2 DEF Records, MovieStates
    <3>4. MovieCompleted(written) = FALSE
      BY <2>2, <1>1, <3>3 DEF MovieCompleted
    <3> QED
      BY <2>2, <3>4 DEF Records
  <2> QED
    BY <2>1, <2>2
<1>4. overall > 0 \/ left.completed
  BY <1>2 DEF Meaningful, Records
<1>5. right = [item |-> Whole, position |-> overall, completed |-> left.completed,
               updated |-> movie.at]
  BY <1>1, <1>2, <1>3, <1>4 DEF MovieRecord, Records
<1>6. Agree(left, right)
  BY <1>2, <1>5, MinDeltaAssumption DEF Agree, Distance, Records
<1> QED
  BY <1>6 DEF Choose

\* Otherwise it is never settled.  overallTimeWatched only grows and lastWatched
\* stays, so a movie that Stremio has watched further, and Jellyfin later, is
\* written again by every sync, though nothing changes any more.
THEOREM MovieRewrittenForEver ==
  ASSUME NEW left \in Records, left.updated # NoTime, Meaningful(left),
         NEW movie \in MovieStates,
         movie.overall >= left.position + MinDelta, left.updated >= movie.at
  PROVE  LET written == WriteMovie(left, movie)
         IN /\ Choose(left, MovieRecord(written)) = "left"
            /\ WriteMovie(left, written) = written
<1> DEFINE written == WriteMovie(left, movie)
           right   == MovieRecord(written)
<1>1. movie.overall > 0 /\ movie.overall >= left.position
  BY MinDeltaAssumption DEF Records, MovieStates
<1>2. written = [time |-> left.position, overall |-> movie.overall,
                 duration |-> movie.duration, marked |-> left.completed, at |-> movie.at]
  <2>1. written = [movie EXCEPT !.time = left.position, !.overall = movie.overall,
                                !.marked = left.completed]
    BY <1>1 DEF WriteMovie, MovieStates
  <2> QED
    BY <2>1 DEF MovieStates
<1>3. /\ right.position = movie.overall /\ right.updated = movie.at
  BY <1>2, <1>1 DEF MovieRecord
<1>4. ~Agree(left, right)
  <2>1. Distance(left.position, right.position) >= MinDelta
    BY <1>3, MinDeltaAssumption DEF Distance, Records, MovieStates
  <2>2. ~(Distance(left.position, right.position) < MinDelta)
    BY <2>1, <1>3, MinDeltaAssumption DEF Distance, Records, MovieStates
  <2> QED
    BY <2>2 DEF Agree
<1>5. LeftWins(left, right)
  BY <1>3 DEF LeftWins, Records, MovieStates
<1>6. WriteMovie(left, written) = written
  BY <1>2, <1>1 DEF WriteMovie, Records, MovieStates
<1> QED
  BY <1>4, <1>5, <1>6 DEF Choose

\* A write of an episode the catalog knows takes the watched mark from every later
\* episode, and from no earlier one.
THEOREM WriteForgetsLater ==
  ASSUME NEW bits \in SUBSET Nat, NEW known \in SUBSET Nat, NEW e \in known,
         NEW watched \in BOOLEAN
  PROVE  /\ \A later \in SetVideo(bits, known, e, watched) : later <= e
         /\ \A earlier \in Nat : earlier < e =>
              (earlier \in SetVideo(bits, known, e, watched) <=> earlier \in bits)
<1>1. e \in Nat
  OBVIOUS
<1> QED
  BY <1>1 DEF SetVideo

-----------------------------------------------------------------------------
LEMMA OneOfIsIn ==
  ASSUME NEW S, OneOf(S).kind = "match"
  PROVE  OneOf(S).of \in S /\ S = {OneOf(S).of}
<1>1. CASE \E x \in S : IsOnly(x, S)
  <2>1. OneOf(S) = Match(CHOOSE x \in S : IsOnly(x, S))
    BY <1>1 DEF OneOf
  <2>2. OneOf(S).of = CHOOSE x \in S : IsOnly(x, S)
    BY <2>1 DEF Match
  <2>3. IsOnly(OneOf(S).of, S) /\ OneOf(S).of \in S
    BY <1>1, <2>2
  <2> QED
    BY <2>3 DEF IsOnly
<1>2. CASE ~ \E x \in S : IsOnly(x, S)
  BY <1>2 DEF OneOf, NotFound, Ambiguous
<1> QED
  BY <1>1, <1>2

LEMMA OneOfOnly ==
  ASSUME NEW x
  PROVE  OneOf({x}).kind = "match" /\ OneOf({x}).of = x
<1>1. \E y \in {x} : IsOnly(y, {x})
  BY DEF IsOnly
<1>2. (CHOOSE y \in {x} : IsOnly(y, {x})) = x
  BY <1>1
<1> QED
  BY <1>1, <1>2 DEF OneOf, Match

\* A matched rule is linked to the title already or to none: no rule is taken
\* from another title.
THEOREM MatchTakesNone ==
  ASSUME NEW rules, NEW item, MatchRule(rules, item).kind = "match"
  PROVE  LET r == MatchRule(rules, item).of
         IN r \in DOMAIN rules /\ rules[r].link \in {NoLink, item.id}
<1> DEFINE linked == {r \in DOMAIN rules : rules[r].link = item.id}
           byImdb == {r \in DOMAIN rules : /\ item.imdb # NoImdb
                        /\ rules[r].media = item.media /\ rules[r].imdb = item.imdb}
           byTitle == {r \in DOMAIN rules :
                         rules[r].media = item.media /\ rules[r].title \in item.names}
           Free(S) == {r \in S : rules[r].link \in {NoLink, item.id}}
           match  == MatchRule(rules, item)
<1>1. CASE linked # {}
  <2>1. match = OneOf(linked)
    BY <1>1 DEF MatchRule
  <2>2. match.of \in linked
    BY <2>1, OneOfIsIn
  <2> QED
    BY <2>2
<1>2. CASE linked = {} /\ OneOf(Free(byImdb)) # NotFound
  <2>1. match = OneOf(Free(byImdb))
    BY <1>2 DEF MatchRule, SelectLinkCandidate
  <2>2. match.of \in Free(byImdb)
    BY <2>1, OneOfIsIn
  <2> QED
    BY <2>2
<1>3. CASE linked = {} /\ OneOf(Free(byImdb)) = NotFound
  <2>1. match = OneOf(Free(byTitle))
    BY <1>3 DEF MatchRule, SelectLinkCandidate
  <2>2. match.of \in Free(byTitle)
    BY <2>1, OneOfIsIn
  <2> QED
    BY <2>2
<1> QED
  BY <1>1, <1>2, <1>3

LEMMA MatchIsOnlyLinked ==
  ASSUME NEW rules, NEW item, MatchRule(rules, item).kind = "match",
         NEW s \in DOMAIN rules, rules[s].link = item.id
  PROVE  s = MatchRule(rules, item).of
<1> DEFINE linked == {r \in DOMAIN rules : rules[r].link = item.id}
<1>1. linked # {}
  OBVIOUS
<1>2. MatchRule(rules, item) = OneOf(linked)
  BY <1>1 DEF MatchRule
<1>3. linked = {MatchRule(rules, item).of}
  BY <1>2, OneOfIsIn
<1> QED
  BY <1>3

\* No two rules are linked to one title.
LinksInjective(rules) ==
  \A r, s \in DOMAIN rules : rules[r].link = rules[s].link /\ rules[r].link # NoLink => r = s

\* Synchronising a title never makes two rules share it, whatever the titles and
\* the IMDb ids of the rules look like.
THEOREM LinksStayInjective ==
  ASSUME NoLink \notin Items,
         NEW D \in SUBSET Ids, NEW rules \in [D -> RuleRow], LinksInjective(rules),
         NEW item \in StremioItem, NEW fresh \in Ids \ D, NEW managed \in BOOLEAN
  PROVE  LinksInjective(SyncTitle(rules, item, fresh, managed))
<1> DEFINE match == MatchRule(rules, item)
           after == SyncTitle(rules, item, fresh, managed)
<1>0. item.id # NoLink
  BY DEF StremioItem
<1>1. CASE match.kind = "match"
  <2>1. match.of \in D /\ rules[match.of].link \in {NoLink, item.id}
    BY <1>1, MatchTakesNone
  <2>2. after = [rules EXCEPT ![match.of] = Link(rules[match.of], item, managed)]
    BY <1>1 DEF SyncTitle
  <2>3. after[match.of].link = item.id
    BY <2>1, <2>2 DEF Link, RuleRow
  <2>4. \A s \in D \ {match.of} : after[s] = rules[s] /\ rules[s].link # item.id
    BY <1>1, <2>1, <2>2, MatchIsOnlyLinked
  <2>5. DOMAIN after = D
    BY <2>2
  <2> QED
    BY <2>1, <2>3, <2>4, <2>5 DEF LinksInjective
<1>2. CASE match.kind = "none"
  <2>1. /\ DOMAIN after = D \cup {fresh}
        /\ after[fresh].link = item.id
        /\ \A s \in D : after[s] = rules[s]
    BY <1>2 DEF SyncTitle
  <2>2. \A s \in D : rules[s].link # item.id
    <3> SUFFICES ASSUME NEW s \in D, rules[s].link = item.id PROVE FALSE
      OBVIOUS
    <3> DEFINE linked == {r \in D : rules[r].link = item.id}
    <3>1. linked = {s}
      BY <1>0 DEF LinksInjective
    <3>2. match = OneOf(linked)
      BY <3>1 DEF MatchRule
    <3> QED
      BY <1>2, <3>1, <3>2, OneOfOnly
  <2> QED
    BY <2>1, <2>2 DEF LinksInjective
<1>3. CASE match.kind \notin {"match", "none"}
  <2>1. after = rules
    BY <1>3 DEF SyncTitle
  <2> QED
    BY <2>1
<1> QED
  BY <1>1, <1>2, <1>3

\* A title keeps its rule: once linked, the next sync matches the same rule,
\* though its IMDb id, its title or its media type may by then fit another.
THEOREM MatchIsStable ==
  ASSUME NEW D \in SUBSET Ids, NEW rules \in [D -> RuleRow],
         NEW item \in StremioItem, NEW fresh, NEW managed \in BOOLEAN,
         MatchRule(rules, item).kind = "match"
  PROVE  LET next == MatchRule(SyncTitle(rules, item, fresh, managed), item)
         IN next.kind = "match" /\ next.of = MatchRule(rules, item).of
<1> DEFINE m == MatchRule(rules, item).of
           after == SyncTitle(rules, item, fresh, managed)
           linked == {r \in DOMAIN after : after[r].link = item.id}
<1>1. m \in D
  BY MatchTakesNone
<1>2. after = [rules EXCEPT ![m] = Link(rules[m], item, managed)]
  BY DEF SyncTitle
<1>3. DOMAIN after = D /\ after[m].link = item.id
  BY <1>1, <1>2 DEF Link, RuleRow
<1>4. \A s \in D \ {m} : after[s] = rules[s] /\ rules[s].link # item.id
  BY <1>1, <1>2, MatchIsOnlyLinked
<1>5. linked = {m}
  BY <1>1, <1>3, <1>4
<1>6. MatchRule(after, item) = OneOf({m})
  BY <1>5 DEF MatchRule
<1> QED
  BY <1>6, OneOfOnly

-----------------------------------------------------------------------------
\* Jellyfin's item for a rule never has another IMDb id than the rule's.
THEOREM LibraryMatchAgrees ==
  ASSUME NEW row, NEW library, MatchLibraryItem(row, library).kind = "match"
  PROVE  LET i == MatchLibraryItem(row, library).of
         IN /\ i \in library
            /\ row.imdb # NoImdb => i.imdb \in {NoImdb, row.imdb}
<1> DEFINE byImdb  == {i \in library : row.imdb # NoImdb /\ i.imdb = row.imdb}
           byTitle == {i \in library : i.titles \cap row.titles # {}}
           ofYear  == {i \in byTitle : row.year # NoYear /\ i.year = row.year}
           narrowed == IF ofYear # {} THEN ofYear ELSE byTitle
           safe    == {i \in narrowed : row.imdb = NoImdb \/ i.imdb \in {NoImdb, row.imdb}}
           match   == MatchLibraryItem(row, library)
<1>1. CASE byImdb # {}
  <2>1. match = OneOf(byImdb)
    BY <1>1 DEF MatchLibraryItem
  <2>2. match.of \in byImdb
    BY <2>1, OneOfIsIn
  <2> QED
    BY <2>2
<1>2. CASE byImdb = {}
  <2>1. match = OneOf(safe)
    BY <1>2 DEF MatchLibraryItem
  <2>2. match.of \in safe
    BY <2>1, OneOfIsIn
  <2> QED
    BY <2>2
<1> QED
  BY <1>1, <1>2

-----------------------------------------------------------------------------
(***************************************************************************)
(* The two synchronisations beside each other (WatchSync).  First, what a  *)
(* sync makes of a row.                                                    *)
(***************************************************************************)

\* Some number of a finite set is the last one, some number of a set of naturals the
\* first; and all sets of episodes are finite.
LEMMA LastExists ==
  ASSUME NEW S \in SUBSET Int, S # {}, IsFiniteSet(S)
  PROVE  \E e \in S : \A f \in S : e >= f
<1> DEFINE From(e) == {f \in S : f >= e}
           T == {From(e) : e \in S}
<1>2. T \subseteq FiniteSubsetsOf(S) /\ T # {}
  <2>1. \A e \in S : From(e) \subseteq S /\ IsFiniteSet(From(e))
    BY FS_Subset
  <2> HIDE DEF From
  <2>2. QED
    BY <2>1 DEF FiniteSubsetsOf
<1>3. PICK X \in T : \A Y \in T : ~(<<Y, X>> \in StrictSubsetOrdering(S))
  <2> HIDE DEF T
  <2>1. QED
    BY <1>2, FS_StrictSubsetOrderingWellFounded, WFMin
<1>4. PICK e \in S : X = From(e)
  BY <1>3
<1>5. ASSUME NEW f \in S, f > e PROVE FALSE
  <2>1. e \in Int /\ f \in Int
    OBVIOUS
  <2>2. f > e
    BY <1>5
  <2>3. From(f) \subseteq From(e)
    <3>1. \A g \in S : g >= f => g >= e
      BY <2>1, <2>2
    <3>2. QED
      BY <3>1
  <2>4. e \notin From(f) /\ e \in From(e)
    BY <2>1, <2>2
  <2>5. From(f) \in T /\ From(f) \in SUBSET S /\ From(e) \in SUBSET S
    OBVIOUS
  <2> HIDE DEF From, T
  <2>6. <<From(f), From(e)>> \in StrictSubsetOrdering(S)
    BY <2>3, <2>4, <2>5 DEF StrictSubsetOrdering
  <2>7. QED
    BY <1>3, <1>4, <2>5, <2>6
<1>6. \A f \in S : e >= f
  BY <1>5
<1>7. QED
  BY <1>6

LEMMA FirstExists ==
  ASSUME NEW S \in SUBSET Nat, S # {}
  PROVE  \E e \in S : \A f \in S : e <= f
<1>1. PICK n \in S : TRUE
  OBVIOUS
<1> DEFINE below == {f \in S : f <= n}
           T == {0 - f : f \in below}
<1>2. IsFiniteSet(T)
  <2>1. 0 - n \in Int /\ 0 \in Int
    OBVIOUS
  <2>2. IsFiniteSet((0 - n) .. 0)
    BY <2>1, FS_Interval
  <2>3. T \in SUBSET ((0 - n) .. 0)
    OBVIOUS
  <2> DEFINE upTo == (0 - n) .. 0
  <2> HIDE DEF T, upTo
  <2>4. IsFiniteSet(upTo) /\ T \in SUBSET upTo
    BY <2>2, <2>3 DEF upTo
  <2>5. QED
    BY <2>4, FS_Subset
<1>3. T \in SUBSET Int /\ T # {}
  <2>1. n \in below
    OBVIOUS
  <2>2. T # {}
    BY <2>1
  <2>3. T \subseteq Int
    OBVIOUS
  <2>4. QED
    BY <2>2, <2>3
<1>4. PICK t \in T : \A u \in T : t >= u
  <2> HIDE DEF T
  <2>1. QED
    BY <1>2, <1>3, LastExists
<1>5. PICK e \in below : t = 0 - e
  OBVIOUS
<1>6. ASSUME NEW f \in S PROVE e <= f
  <2>1. CASE f <= n
    <3>1. 0 - e >= 0 - f
      BY <1>4, <1>5, <2>1
    <3>2. QED
      BY <3>1
  <2>2. CASE ~(f <= n)
    BY <2>2
  <2>3. QED
    BY <2>1, <2>2
<1>7. QED
  BY <1>6

LEMMA EpisodesFinite ==
  ASSUME NEW S \in SUBSET Episode
  PROVE  IsFiniteSet(S) /\ S \in SUBSET Nat
<1>1. PICK lo \in Int, hi \in Int : lo = 0 /\ hi = 9999
  OBVIOUS
<1>2. IsFiniteSet(lo .. hi)
  BY FS_Interval
<1>3. Episode = lo .. hi /\ Episode \subseteq Nat
  BY <1>1 DEF Episode
<1>4. QED
  BY <1>2, <1>3, FS_Subset

LEMMA LatestIsLast ==
  ASSUME NEW S \in SUBSET Episode
  PROVE  /\ Latest(S) \in Floor
         /\ S # {} => Latest(S) \in S /\ \A e \in S : Latest(S) >= e
<1>1. CASE S = {}
  BY <1>1 DEF Latest, Floor
<1>2. CASE S # {}
  <2>1. Max(S) \in S /\ \A e \in S : Max(S) >= e
    <3>1. S \in SUBSET Int
      BY EpisodesFinite
    <3>2. QED
      BY <1>2, <3>1, EpisodesFinite, LastExists DEF Max
  <2>2. QED
    BY <1>2, <2>1 DEF Latest, Floor
<1>3. QED
  BY <1>1, <1>2

LEMMA MinIsFirst ==
  ASSUME NEW S \in SUBSET Episode, S # {}
  PROVE  Min(S) \in S
BY EpisodesFinite, FirstExists DEF Min

\* What a source derives from the episodes it knows.
LEMMA DeriveFloorTypes ==
  ASSUME NEW current \in SUBSET Episodes, NEW currentWatched \in SUBSET Episodes,
         NEW remembered \in SUBSET Episodes, NEW rememberedWatched \in SUBSET Episodes
  PROVE  LET d == DeriveFloor(current, currentWatched, remembered, rememberedWatched)
         IN /\ d.known = remembered \cup current
            /\ {d.known, d.watched, d.unseen} \subseteq SUBSET Episodes
            /\ d.known # {} => Proposes(d)
<1> DEFINE known   == remembered \cup current
           watched == rememberedWatched \cup currentWatched
           unseen  == {e \in current : e > Latest(watched)}
           d == DeriveFloor(current, currentWatched, remembered, rememberedWatched)
<1>1. /\ d.known = known /\ d.watched = watched /\ d.unseen = unseen
      /\ d.watchedNext = IF watched = {} THEN None
                         ELSE IF unseen # {} THEN Min(unseen) ELSE IncrementFloor(Latest(watched))
      /\ d.knownNext = IncrementFloor(Latest(known))
  BY DEF DeriveFloor
<1>2. Episodes \subseteq Episode
  BY WatchSyncAssumption DEF WatchSyncAssumption
<1>3. {known, watched, unseen} \subseteq SUBSET Episodes
  OBVIOUS
<1> HIDE DEF known, watched, unseen, d
<1>4. ASSUME NEW S \in SUBSET Episodes, S # {} PROVE IncrementFloor(Latest(S)) \in Episode
  <2>1. Latest(S) \in Episode
    BY <1>2, <1>4, LatestIsLast
  <2>2. QED
    BY <2>1, IncrementFloorNext
<1>5. unseen # {} => Min(unseen) \in Episode
  BY <1>2, <1>3, MinIsFirst
<1>6. d.watchedNext \in Floor
  BY <1>1, <1>3, <1>4, <1>5 DEF Floor
<1>7. known # {} => d.knownNext \in Floor
  BY <1>1, <1>3, <1>4 DEF Floor
<1>8. QED
  BY <1>1, <1>3, <1>6, <1>7 DEF Proposes, known, d

-----------------------------------------------------------------------------
\* The bitfield after any order of writes is one of the title's episodes, and is as
\* it was if the catalog knows none of them.  The recursion over the order is
\* unfolded here by hand: it has a solution for every length, because one for n
\* writes extends to one for n + 1.
LEMMA BitsAfterTypes ==
  ASSUME NEW bits \in SUBSET Episodes, NEW known \in SUBSET Episodes, NEW order,
         Len(order) \in Nat
  PROVE  /\ BitsAfter(bits, known, order) \in SUBSET Episodes
         /\ (\A i \in 1 .. Len(order) : order[i] \notin known)
              => BitsAfter(bits, known, order) = bits
<1> DEFINE N == Len(order)
           Write(f, i) == IF i = 0 THEN bits
                          ELSE SetVideo(f[i - 1], known, order[i], order[i] \in jellyfin.watched)
           Good(n) == {g \in [0 .. n -> SUBSET Episodes] : \A i \in 0 .. n : g[i] = Write(g, i)}
           after == CHOOSE f : f = [i \in 0 .. N |-> Write(f, i)]
<1>1. \A v \in SUBSET Episodes : \A e, w : SetVideo(v, known, e, w) \in SUBSET Episodes
  BY DEF SetVideo
<1>2. Good(0) # {}
  <2> DEFINE g == [i \in 0 .. 0 |-> bits]
  <2>1. g \in [0 .. 0 -> SUBSET Episodes] /\ \A i \in 0 .. 0 : g[i] = Write(g, i)
    OBVIOUS
  <2>2. g \in Good(0)
    BY <2>1
  <2>3. QED
    BY <2>2
<1>3. ASSUME NEW n \in Nat, Good(n) # {} PROVE Good(n + 1) # {}
  <2>1. PICK g \in [0 .. n -> SUBSET Episodes] : \A i \in 0 .. n : g[i] = Write(g, i)
    BY <1>3
  <2> DEFINE last == SetVideo(g[n], known, order[n + 1], order[n + 1] \in jellyfin.watched)
             h == [i \in 0 .. (n + 1) |-> IF i <= n THEN g[i] ELSE last]
  <2>2. last \in SUBSET Episodes
    <3>1. g[n] \in SUBSET Episodes
      OBVIOUS
    <3>2. QED
      BY <3>1, <1>1, Zenon
  <2> HIDE DEF last
  <2>3. h \in [0 .. (n + 1) -> SUBSET Episodes]
    BY <2>2
  <2>4. /\ \A i \in 0 .. n : h[i] = g[i]
        /\ h[n + 1] = last
    OBVIOUS
  <2> HIDE DEF h
  <2>5. ASSUME NEW i \in 0 .. (n + 1) PROVE h[i] = Write(h, i)
    <3>1. CASE i = 0
      BY <2>1, <2>4, <3>1
    <3>2. CASE i # 0 /\ i <= n
      <4>1. i \in 0 .. n /\ i - 1 \in 0 .. n
        BY <3>2
      <4>2. h[i] = g[i] /\ h[i - 1] = g[i - 1] /\ g[i] = Write(g, i)
        BY <4>1, <2>1, <2>4
      <4>3. QED
        BY <3>2, <4>2
    <3>3. CASE i = n + 1
      <4>1. i # 0 /\ i - 1 = n /\ h[i - 1] = g[n]
        BY <3>3, <2>4
      <4>2. QED
        BY <3>3, <4>1, <2>4 DEF last
    <3>4. QED
      BY <3>1, <3>2, <3>3
  <2>6. h \in Good(n + 1)
    BY <2>3, <2>5
  <2>7. QED
    BY <2>6
<1> HIDE DEF Good
<1>4. Good(N) # {}
  <2> DEFINE bad == {n \in Nat : Good(n) = {}}
  <2>1. SUFFICES ASSUME bad # {} PROVE FALSE
    OBVIOUS
  <2>2. PICK m \in bad : \A n \in bad : m <= n
    <3>1. bad \in SUBSET Nat
      OBVIOUS
    <3> HIDE DEF bad
    <3>2. QED
      BY <2>1, <3>1, FirstExists
  <2>3. m # 0 /\ m \in Nat
    BY <1>2
  <2>4. m - 1 \in Nat /\ m - 1 \notin bad
    BY <2>2, <2>3
  <2>5. Good((m - 1) + 1) # {}
    BY <2>4, <1>3
  <2>6. QED
    BY <2>3, <2>5
<1>5. PICK g : g = [i \in 0 .. N |-> Write(g, i)]
  <2>1. PICK g \in [0 .. N -> SUBSET Episodes] : \A i \in 0 .. N : g[i] = Write(g, i)
    BY <1>4 DEF Good
  <2>2. g = [i \in 0 .. N |-> Write(g, i)]
    BY <2>1
  <2>3. QED
    BY <2>2
<1>6. after = [i \in 0 .. N |-> Write(after, i)]
  BY <1>5
<1>7. BitsAfter(bits, known, order) = after[N]
  BY DEF BitsAfter
<1> HIDE DEF after
<1>8. /\ after[0] = bits
      /\ \A i \in 1 .. N :
           after[i] = SetVideo(after[i - 1], known, order[i], order[i] \in jellyfin.watched)
  BY <1>6
<1>9. \A i \in 0 .. N : after[i] \in SUBSET Episodes
  <2> DEFINE bad == {i \in 0 .. N : after[i] \notin SUBSET Episodes}
  <2>1. SUFFICES ASSUME bad # {} PROVE FALSE
    OBVIOUS
  <2>2. PICK m \in bad : \A n \in bad : m <= n
    <3>1. bad \in SUBSET Nat
      OBVIOUS
    <3> HIDE DEF bad
    <3>2. QED
      BY <2>1, <3>1, FirstExists
  <2>3. m \in 1 .. N
    BY <1>8
  <2>4. after[m - 1] \in SUBSET Episodes
    BY <2>2, <2>3
  <2>5. after[m] = SetVideo(after[m - 1], known, order[m], order[m] \in jellyfin.watched)
    BY <1>8, <2>3
  <2>6. after[m] \in SUBSET Episodes
    BY <1>1, <2>4, <2>5, Zenon
  <2>7. QED
    BY <2>6
<1>10. ASSUME \A i \in 1 .. N : order[i] \notin known
       PROVE  \A i \in 0 .. N : after[i] = bits
  <2> DEFINE bad == {i \in 0 .. N : after[i] # bits}
  <2>1. SUFFICES ASSUME bad # {} PROVE FALSE
    OBVIOUS
  <2>2. PICK m \in bad : \A n \in bad : m <= n
    <3>1. bad \in SUBSET Nat
      OBVIOUS
    <3> HIDE DEF bad
    <3>2. QED
      BY <2>1, <3>1, FirstExists
  <2>3. m \in 1 .. N
    BY <1>8
  <2>4. after[m - 1] = bits
    BY <2>2, <2>3
  <2>5. after[m] = bits
    BY <1>8, <1>10, <2>3, <2>4 DEF SetVideo
  <2>6. QED
    BY <2>5
<1>11. QED
  BY <1>7, <1>9, <1>10

-----------------------------------------------------------------------------
\* What the commit of _record_status may still write of a row: the remembered
\* episodes.
OnlyRemembers(old, new) == new = [old EXCEPT !.sKnown = new.sKnown, !.sWatched = new.sWatched]

FloorHeld(old, new) ==
  RuleFloor(new) >= RuleFloor(old) \/ IsNextSeasonStart(RuleFloor(old), RuleFloor(new))

HasReason(p, old, result) ==
  \/ old.auto \/ old.legacy \/ old.sauto
  \/ p = "stremio" /\ ~old.auto /\ ~(old.media = "movie" /\ result.completed)

\* What the sync of p makes of a row: the label of the other provider stays; one
\* that could tell writes its own as it reports and obeys all evidence; a row it
\* enables had a reason; Jellyfin's holds the floor.
Sound(p, old, result) ==
  LET row == result.row
  IN /\ row.media = old.media /\ (old.live => row.live) /\ (old.linked => row.linked)
     /\ \A q \in Sources \ {p} : q \in row.sources <=> q \in old.sources
     /\ ~result.evaluated => row.sources = old.sources
     /\ result.evaluated =>
          /\ p \in row.sources <=> result.completed
          /\ row.live /\ (p = "stremio" => row.linked)
          /\ row.sources # {} /\ ~row.keep => ~row.enabled
     /\ ~result.changed => OnlyRemembers(old, row)
     /\ old.live /\ ~old.enabled /\ row.enabled => HasReason(p, old, result)
     /\ p = "jellyfin" => FloorHeld(old, row)

Outcomes == [row : Row, changed : BOOLEAN, evaluated : BOOLEAN, completed : BOOLEAN]
Sessions == [stage : Stages, auto : BOOLEAN, fresh : BOOLEAN, touched : BOOLEAN,
             old : Row, result : Outcomes]

SeriesCatalogs == [ended : {"yes", "no", "unknown"}, released : SUBSET Episodes,
                   known : SUBSET Episodes]

LEMMA NewRuleTypes ==
  ASSUME NEW media \in {"movie", "series"}
  PROVE  NewRule(media) \in Row
BY DEF NewRule, Row

LEMMA OutcomeTypes ==
  ASSUME NEW row \in Row, NEW changed \in BOOLEAN, NEW evaluated \in BOOLEAN,
         NEW completed \in BOOLEAN
  PROVE  /\ Result(row, changed, evaluated, completed) \in Outcomes
         /\ Result(row, changed, evaluated, completed).row = row
         /\ Result(row, changed, evaluated, completed).changed = changed
         /\ Result(row, changed, evaluated, completed).evaluated = evaluated
         /\ Result(row, changed, evaluated, completed).completed = completed
BY DEF Result, Outcomes

LEMMA RestingSync ==
  /\ NoSync \in Sessions
  /\ NoSync.stage = "idle" /\ NoSync.auto = FALSE /\ NoSync.fresh = FALSE
  /\ NoSync.touched = FALSE /\ OnlyRemembers(NoSync.old, NoSync.result.row)
<1> DEFINE row == NewRule("movie")
<1>1. row \in Row
  BY NewRuleTypes
<1> HIDE DEF row
<1>2. Skipped(row) \in Outcomes /\ Skipped(row).row = row
  BY <1>1, OutcomeTypes DEF Skipped
<1>3. NoSync = [stage |-> "idle", auto |-> FALSE, fresh |-> FALSE, touched |-> FALSE,
                old |-> row, result |-> Skipped(row)]
  BY DEF NoSync, row
<1>4. OnlyRemembers(row, row)
  BY <1>1 DEF OnlyRemembers, Row
<1> DEFINE skipped == Skipped(row)
<1> HIDE DEF skipped
<1>5. QED
  BY <1>1, <1>2, <1>3, <1>4 DEF Sessions, Stages, skipped

\* The columns of a row after a selection, and after a floor is written.
LEMMA CompletionColumns ==
  ASSUME NEW row \in Row, NEW selection,
         selection.sources \in SUBSET Sources, selection.enabled \in BOOLEAN,
         selection.auto \in BOOLEAN
  PROVE  LET new == WithCompletion(row, selection)
         IN /\ new \in Row
            /\ new.sources = selection.sources /\ new.enabled = selection.enabled
            /\ new.auto = selection.auto
            /\ new.media = row.media /\ new.live = row.live /\ new.linked = row.linked
            /\ new.keep = row.keep /\ new.season = row.season /\ new.episode = row.episode
            /\ new.managed = row.managed /\ new.sauto = row.sauto
BY DEF WithCompletion, Row

LEMMA FloorColumns ==
  ASSUME NEW row \in Row, NEW floor \in Int
  PROVE  LET new == WithFloor(row, floor)
         IN /\ new \in Row
            /\ new.season = IF floor = None THEN row.season ELSE Season(floor)
            /\ new.episode = IF floor = None THEN row.episode ELSE Number(floor)
            /\ new.sources = row.sources /\ new.enabled = row.enabled
            /\ new.auto = row.auto
            /\ new.media = row.media /\ new.live = row.live /\ new.linked = row.linked
            /\ new.keep = row.keep /\ new.managed = row.managed /\ new.sauto = row.sauto
<1>1. Season(floor) \in Int /\ Number(floor) \in Int
  BY DEF Season, Number
<1>2. QED
  BY <1>1 DEF WithFloor, Row

\* A floor written and read is at least the floor, and exactly an episode.
LEMMA FloorReadBack ==
  ASSUME NEW floor \in Int, floor # None
  PROVE  /\ FloorOf(Season(floor), Number(floor)) >= floor
         /\ floor \in Episode => FloorOf(Season(floor), Number(floor)) = floor
<1>1. /\ Season(floor) \in Int /\ Number(floor) \in 0 .. 99
      /\ floor = 100 * Season(floor) + Number(floor)
  BY DEF Season, Number
<1>2. CASE Season(floor) = None
  <2>1. FloorOf(Season(floor), Number(floor)) = -1
    BY <1>2 DEF FloorOf
  <2>2. PICK n \in 0 .. 99 : floor = n - 100
    BY <1>1, <1>2
  <2>3. -1 >= floor
    BY <2>2
  <2>4. floor \notin Episode
    <3>1. floor < 0
      BY <2>2
    <3>2. \A e \in Episode : e \in Int /\ ~(e < 0)
      BY DEF Episode
    <3>3. QED
      BY <3>1, <3>2, Zenon
  <2>5. QED
    BY <2>1, <2>3, <2>4, Zenon
<1>3. CASE Season(floor) # None
  <2>1. FloorOf(Season(floor), Number(floor)) = floor
    BY <1>1, <1>3 DEF FloorOf
  <2>2. QED
    BY <2>1
<1>4. QED
  BY <1>2, <1>3

\* What a commit makes of the columns.
LEMMA WrittenColumns ==
  ASSUME NEW stored \in Row, NEW old \in Row, NEW new \in Row
  PROVE  LET w == Written(stored, old, new)
         IN /\ w \in Row
            /\ w.live = IF new.live = old.live THEN stored.live ELSE new.live
            /\ w.media = IF new.media = old.media THEN stored.media ELSE new.media
            /\ w.enabled = IF new.enabled = old.enabled THEN stored.enabled ELSE new.enabled
            /\ w.sources = IF new.sources = old.sources THEN stored.sources ELSE new.sources
            /\ w.linked = IF new.linked = old.linked THEN stored.linked ELSE new.linked
            /\ stored = old => w = new
            /\ OnlyRemembers(old, new) =>
                 /\ w.keep = stored.keep
                 /\ w.season = stored.season /\ w.episode = stored.episode
<1> DEFINE w == Written(stored, old, new)
           Pick(s, o, n) == IF n = o THEN s ELSE n
<1>1. DOMAIN stored = {"live", "media", "enabled", "custom", "keep", "season", "episode",
                       "sources", "auto", "legacy", "jExisting", "jKnown", "jWatched",
                       "sKnown", "sWatched", "linked", "managed", "sauto"}
  BY DEF Row
<1>2. w = [live |-> Pick(stored.live, old.live, new.live),
           media |-> Pick(stored.media, old.media, new.media),
           enabled |-> Pick(stored.enabled, old.enabled, new.enabled),
           custom |-> Pick(stored.custom, old.custom, new.custom),
           keep |-> Pick(stored.keep, old.keep, new.keep),
           season |-> Pick(stored.season, old.season, new.season),
           episode |-> Pick(stored.episode, old.episode, new.episode),
           sources |-> Pick(stored.sources, old.sources, new.sources),
           auto |-> Pick(stored.auto, old.auto, new.auto),
           legacy |-> Pick(stored.legacy, old.legacy, new.legacy),
           jExisting |-> Pick(stored.jExisting, old.jExisting, new.jExisting),
           jKnown |-> Pick(stored.jKnown, old.jKnown, new.jKnown),
           jWatched |-> Pick(stored.jWatched, old.jWatched, new.jWatched),
           sKnown |-> Pick(stored.sKnown, old.sKnown, new.sKnown),
           sWatched |-> Pick(stored.sWatched, old.sWatched, new.sWatched),
           linked |-> Pick(stored.linked, old.linked, new.linked),
           managed |-> Pick(stored.managed, old.managed, new.managed),
           sauto |-> Pick(stored.sauto, old.sauto, new.sauto)]
  BY <1>1 DEF Written
<1> HIDE DEF w
<1>3. w \in Row
  BY <1>2 DEF Row
<1>4. stored = old => w = new
  BY <1>2 DEF Row
<1>5. OnlyRemembers(old, new) =>
        /\ w.keep = stored.keep
        /\ w.season = stored.season /\ w.episode = stored.episode
  <2>1. OnlyRemembers(old, new) =>
          new.keep = old.keep /\ new.season = old.season /\ new.episode = old.episode
    BY DEF OnlyRemembers, Row
  <2>2. QED
    BY <1>2, <2>1
<1>6. QED
  BY <1>2, <1>3, <1>4, <1>5 DEF w

-----------------------------------------------------------------------------
\* What both selections promise of a rule.
Selected(selection, source, completed, sources, enabled, auto, keep) ==
  /\ selection.sources = EvidenceAfter(sources, source, completed)
  /\ selection.sources \in SUBSET Sources
  /\ selection.enabled \in BOOLEAN /\ selection.auto \in BOOLEAN
  /\ selection.enabled => enabled \/ auto
  /\ selection.sources # {} /\ ~keep => ~selection.enabled

LEMMA SelectionTypes ==
  ASSUME NEW sources \in SUBSET Sources, NEW source \in Sources, NEW completed \in BOOLEAN,
         NEW enabled \in BOOLEAN, NEW auto \in BOOLEAN, NEW keep \in BOOLEAN
  PROVE  /\ Selected(SelectMovie(source, completed, sources, enabled, auto, keep),
                     source, completed, sources, enabled, auto, keep)
         /\ \A unseen :
            Selected(SelectSeries(source, completed, sources, enabled, auto, keep, unseen),
                     source, completed, sources, enabled, auto, keep)
<1> DEFINE after == EvidenceAfter(sources, source, completed)
<1>1. after \in SUBSET Sources
  BY DEF EvidenceAfter
<1> HIDE DEF after
<1>2. ASSUME NEW exempt \in BOOLEAN, exempt => keep
      PROVE  LET applied == ApplyEvidence(enabled, auto, exempt, after)
             IN /\ applied.enabled \in BOOLEAN /\ applied.auto \in BOOLEAN
                /\ applied.enabled => enabled \/ auto
                /\ after # {} /\ ~keep => ~applied.enabled
  BY <1>2 DEF ApplyEvidence
<1>3. Selected(SelectMovie(source, completed, sources, enabled, auto, keep),
               source, completed, sources, enabled, auto, keep)
  BY <1>1, <1>2 DEF SelectMovie, Selected, after
<1>4. ASSUME NEW unseen
      PROVE  Selected(SelectSeries(source, completed, sources, enabled, auto, keep, unseen),
                      source, completed, sources, enabled, auto, keep)
  <2>1. (keep /\ unseen # {}) \in BOOLEAN
    OBVIOUS
  <2>2. QED
    BY <1>1, <1>2, <2>1 DEF SelectSeries, Selected, after
<1>5. QED
  BY <1>3, <1>4

LEMMA Unchanged ==
  ASSUME NEW row \in Row
  PROVE  /\ OnlyRemembers(row, row)
         /\ row.media \in {"movie", "series"} /\ row.live \in BOOLEAN /\ row.linked \in BOOLEAN
         /\ row.enabled \in BOOLEAN /\ row.auto \in BOOLEAN /\ row.keep \in BOOLEAN
         /\ row.legacy \in BOOLEAN /\ row.sauto \in BOOLEAN /\ row.managed \in BOOLEAN
         /\ row.season \in Int /\ row.episode \in Int
         /\ row.sources \in SUBSET Sources
         /\ RuleFloor(row) \in Int /\ FloorHeld(row, row)
<1>1. RuleFloor(row) \in Int
  BY DEF Row, RuleFloor, FloorOf
<1>2. OnlyRemembers(row, row)
  BY DEF OnlyRemembers, Row
<1>3. FloorHeld(row, row)
  BY <1>1 DEF FloorHeld
<1>4. QED
  BY <1>1, <1>2, <1>3 DEF Row

LEMMA SkippedSound ==
  ASSUME NEW p \in Sources, NEW row \in Row
  PROVE  Skipped(row) \in Outcomes /\ Sound(p, row, Skipped(row)) /\ ~Skipped(row).evaluated
<1> DEFINE result == Skipped(row)
<1>1. /\ result \in Outcomes /\ result.row = row
      /\ result.changed = FALSE /\ result.evaluated = FALSE
  BY OutcomeTypes DEF Skipped
<1> HIDE DEF result
<1>2. Sound(p, row, result)
  BY <1>1, Unchanged DEF Sound
<1>3. QED
  BY <1>1, <1>2 DEF result

-----------------------------------------------------------------------------
\* Jellyfin's sync.
LEMMA JellyfinMovieSound ==
  ASSUME NEW row \in Row, row.live, NEW lib \in JellyfinLibrary
  PROVE  LET result == JellyfinMovie(row, lib)
         IN /\ result \in Outcomes /\ Sound("jellyfin", row, result)
            /\ result.evaluated /\ (result.completed <=> Movie \in lib.watched)
<1> DEFINE completed == lib.present /\ Movie \in lib.watched
           flag == row.auto \/ row.legacy
           selection == SelectMovie("jellyfin", completed, row.sources, row.enabled, flag,
                                    row.keep)
           base == WithCompletion(row, selection)
           new == [base EXCEPT !.legacy = FALSE]
           changed == new # row
           result == JellyfinMovie(row, lib)
<1>1. completed \in BOOLEAN /\ (completed <=> Movie \in lib.watched)
  BY DEF JellyfinLibrary
<1> HIDE DEF completed
<1>2. Selected(selection, "jellyfin", completed, row.sources, row.enabled, flag, row.keep)
  <2>1. flag \in BOOLEAN /\ "jellyfin" \in Sources
    BY DEF Sources
  <2> HIDE DEF flag
  <2>2. /\ completed \in BOOLEAN
        /\ row.sources \in SUBSET Sources /\ row.enabled \in BOOLEAN /\ row.keep \in BOOLEAN
    BY <1>1, Unchanged
  <2>3. QED
    BY <2>1, <2>2, SelectionTypes, Zenon
<1> HIDE DEF selection
<1>3. /\ base \in Row
      /\ base.sources = selection.sources /\ base.enabled = selection.enabled
      /\ base.media = row.media /\ base.live = row.live /\ base.linked = row.linked
      /\ base.keep = row.keep /\ base.season = row.season /\ base.episode = row.episode
  BY <1>2, CompletionColumns DEF Selected
<1> HIDE DEF base
<1>4. /\ new \in Row
      /\ new.sources = selection.sources /\ new.enabled = selection.enabled
      /\ new.media = row.media /\ new.live = row.live /\ new.linked = row.linked
      /\ new.keep = row.keep /\ new.season = row.season /\ new.episode = row.episode
  BY <1>3 DEF Row
<1>5. /\ result \in Outcomes /\ result.row = new /\ result.changed = changed
      /\ result.evaluated = TRUE /\ result.completed = completed
  <2>1. result = Result(new, changed, TRUE, completed)
    BY DEF JellyfinMovie, completed, selection, base
  <2> HIDE DEF new, result
  <2>2. changed \in BOOLEAN /\ TRUE \in BOOLEAN
    OBVIOUS
  <2> HIDE DEF changed
  <2>3. QED
    BY <1>1, <1>4, <2>1, <2>2 DEF Result, Outcomes
<1> HIDE DEF new, result
<1>6. /\ "jellyfin" \in new.sources <=> completed
      /\ \A q \in Sources \ {"jellyfin"} : q \in new.sources <=> q \in row.sources
  <2>1. row.sources \in SUBSET Sources /\ "jellyfin" \in Sources
    BY Unchanged DEF Sources
  <2>2. QED
    BY <1>1, <1>2, <1>4, <2>1, OtherLabelsKept DEF Selected
<1>7. ~result.changed => OnlyRemembers(row, new)
  BY <1>5, Unchanged
<1>8. FloorHeld(row, new)
  BY <1>4, Unchanged DEF FloorHeld, RuleFloor
<1>9. ~row.enabled /\ new.enabled => HasReason("jellyfin", row, result)
  BY <1>2, <1>4 DEF Selected, HasReason
<1>10. new.sources # {} /\ ~new.keep => ~new.enabled
  BY <1>2, <1>4 DEF Selected
<1>11. Sound("jellyfin", row, result)
  BY <1>4, <1>5, <1>6, <1>7, <1>8, <1>9, <1>10 DEF Sound
<1>12. QED
  BY <1>1, <1>5, <1>11 DEF result

LEMMA JellyfinSeriesSound ==
  ASSUME NEW row \in Row, row.live, NEW lib \in JellyfinLibrary, NEW cat \in SeriesCatalogs
  PROVE  LET result == JellyfinSeries(row, lib, cat)
         IN result \in Outcomes /\ Sound("jellyfin", row, result)
<1> DEFINE derived  == DeriveFloor(lib.items, lib.watched, row.jKnown, row.jWatched)
           floor    == SelectFloor(derived, RuleFloor(row), row.keep, "jellyfin", FALSE)
           finished == SeriesIsFinished(derived.known, derived.watched, cat)
           selection == SelectSeries("jellyfin", finished, row.sources, row.enabled, row.auto,
                                     row.keep, derived.unseen)
           floored == WithFloor(row, floor)
           base == WithCompletion(floored, selection)
           new == [base EXCEPT !.jExisting = derived.unseen, !.jKnown = derived.known,
                               !.jWatched = derived.watched]
           changed == new # row
           result == JellyfinSeries(row, lib, cat)
<1>1. CASE ~(lib.present /\ row.jKnown \cup lib.items # {})
  <2>1. result = Skipped(row)
    BY <1>1 DEF JellyfinSeries
  <2>2. "jellyfin" \in Sources
    BY DEF Sources
  <2>3. QED
    BY <2>1, <2>2, SkippedSound
<1>2. CASE lib.present /\ row.jKnown \cup lib.items # {}
  <2>0. "jellyfin" \in Sources
    BY DEF Sources
  <2>1. /\ {derived.known, derived.watched, derived.unseen} \subseteq SUBSET Episodes
        /\ Proposes(derived)
    <3>1. /\ lib.items \in SUBSET Episodes /\ lib.watched \in SUBSET Episodes
          /\ row.jKnown \in SUBSET Episodes /\ row.jWatched \in SUBSET Episodes
      BY DEF JellyfinLibrary, Row
    <3>2. /\ derived.known = row.jKnown \cup lib.items
          /\ {derived.known, derived.watched, derived.unseen} \subseteq SUBSET Episodes
          /\ derived.known # {} => Proposes(derived)
      BY <3>1, DeriveFloorTypes
    <3>3. derived.known # {}
      BY <1>2, <3>2
    <3> HIDE DEF derived
    <3>4. QED
      BY <3>2, <3>3
  <2> HIDE DEF derived
  <2>2. finished \in BOOLEAN
    BY DEF SeriesIsFinished
  <2> HIDE DEF finished
  <2>3. /\ floor >= RuleFloor(row) \/ IsNextSeasonStart(RuleFloor(row), floor)
        /\ floor \in {RuleFloor(row), ProposedFloor(derived, row.keep, "jellyfin")}
    BY <2>0, <2>1, Unchanged, SelectFloorKept
  <2>4. floor = RuleFloor(row) \/ floor \in Floor
    BY <2>1, <2>3 DEF ProposedFloor, Proposes
  <2> HIDE DEF floor
  <2>5. floor \in Int /\ RuleFloor(row) \in Int
    <3>1. RuleFloor(row) \in Int
      BY Unchanged
    <3>2. \A f \in Floor : f \in Int
      BY DEF Floor, Episode
    <3>3. QED
      BY <2>4, <3>1, <3>2
  <2>6. Selected(selection, "jellyfin", finished, row.sources, row.enabled, row.auto, row.keep)
    BY <2>0, <2>2, Unchanged, SelectionTypes
  <2> HIDE DEF selection
  <2>7. /\ floored \in Row
        /\ floored.season = IF floor = None THEN row.season ELSE Season(floor)
        /\ floored.episode = IF floor = None THEN row.episode ELSE Number(floor)
        /\ floored.media = row.media /\ floored.live = row.live
        /\ floored.linked = row.linked /\ floored.keep = row.keep
    BY <2>5, FloorColumns
  <2> HIDE DEF floored
  <2>8. /\ base \in Row
        /\ base.sources = selection.sources /\ base.enabled = selection.enabled
        /\ base.media = row.media /\ base.live = row.live /\ base.linked = row.linked
        /\ base.keep = row.keep
        /\ base.season = floored.season /\ base.episode = floored.episode
    BY <2>6, <2>7, CompletionColumns DEF Selected
  <2> HIDE DEF base
  <2>9. /\ new \in Row
        /\ new.sources = selection.sources /\ new.enabled = selection.enabled
        /\ new.media = row.media /\ new.live = row.live /\ new.linked = row.linked
        /\ new.keep = row.keep
        /\ new.season = floored.season /\ new.episode = floored.episode
    BY <2>1, <2>8 DEF Row
  <2>10. /\ result \in Outcomes /\ result.row = new /\ result.changed = changed
         /\ result.evaluated = TRUE /\ result.completed = finished
    <3>1. result = Result(new, changed, TRUE, finished)
      BY <1>2 DEF JellyfinSeries, derived, floor, finished, selection, floored, base
    <3> HIDE DEF new, result
    <3>2. changed \in BOOLEAN /\ TRUE \in BOOLEAN
      OBVIOUS
    <3> HIDE DEF changed
    <3>3. QED
      BY <2>2, <2>9, <3>1, <3>2 DEF Result, Outcomes
  <2> HIDE DEF new, result
  <2>11. /\ "jellyfin" \in new.sources <=> finished
         /\ \A q \in Sources \ {"jellyfin"} : q \in new.sources <=> q \in row.sources
    <3>1. row.sources \in SUBSET Sources
      BY Unchanged
    <3>2. QED
      BY <2>0, <2>2, <2>6, <2>9, <3>1, OtherLabelsKept DEF Selected
  <2>12. ~result.changed => OnlyRemembers(row, new)
    BY <2>10, Unchanged
  <2>13. FloorHeld(row, new)
    <3>1. CASE floor = None
      BY <2>7, <2>9, <3>1, Unchanged DEF FloorHeld, RuleFloor
    <3>2. CASE floor # None /\ floor \in Episode
      <4>1. RuleFloor(new) = floor
        BY <2>5, <2>7, <2>9, <3>2, FloorReadBack DEF RuleFloor
      <4>2. QED
        BY <2>3, <4>1 DEF FloorHeld
    <3>3. CASE floor # None /\ floor = RuleFloor(row)
      <4>1. RuleFloor(new) >= floor
        BY <2>5, <2>7, <2>9, <3>3, FloorReadBack DEF RuleFloor
      <4>2. QED
        BY <3>3, <4>1 DEF FloorHeld
    <3>4. QED
      BY <2>4, <3>1, <3>2, <3>3 DEF Floor
  <2>14. ~row.enabled /\ new.enabled => HasReason("jellyfin", row, result)
    BY <2>6, <2>9 DEF Selected, HasReason
  <2>15. new.sources # {} /\ ~new.keep => ~new.enabled
    BY <2>6, <2>9 DEF Selected
  <2>16. Sound("jellyfin", row, result)
    BY <2>9, <2>10, <2>11, <2>12, <2>13, <2>14, <2>15 DEF Sound
  <2>17. QED
    BY <2>10, <2>16 DEF result
<1>3. QED
  BY <1>1, <1>2

\* What Jellyfin's sync makes of a row, and when it says nothing of a movie.
LEMMA JellyfinSound ==
  ASSUME NEW row \in Row, NEW lib \in JellyfinLibrary, NEW cat \in SeriesCatalogs
  PROVE  LET result == JellyfinResult(row, lib, cat)
         IN /\ result \in Outcomes /\ Sound("jellyfin", row, result)
            /\ row.media = "movie" =>
                 /\ result.evaluated <=> row.live
                 /\ result.evaluated => (result.completed <=> Movie \in lib.watched)
<1>1. "jellyfin" \in Sources
  BY DEF Sources
<1>2. CASE ~row.live
  BY <1>1, <1>2, SkippedSound DEF JellyfinResult
<1>3. CASE row.live /\ row.media = "movie"
  BY <1>3, JellyfinMovieSound DEF JellyfinResult
<1>4. CASE row.live /\ row.media # "movie"
  BY <1>4, JellyfinSeriesSound DEF JellyfinResult
<1>5. QED
  BY <1>2, <1>3, <1>4

-----------------------------------------------------------------------------
\* Stremio's sync.  First, the row of the rule once it is linked, or has just been
\* added.
Linked(row, completed, base) ==
  /\ base \in Row /\ base.live /\ base.linked
  /\ base.media = row.media /\ base.sources = row.sources
  /\ row.live => base.auto = row.auto
  /\ row.live /\ base.enabled /\ ~row.enabled => row.sauto \/ (~row.auto /\ ~completed)

LEMMA LinkedBase ==
  ASSUME NEW row \in Row, row.live \/ row.sources = {}, NEW completed \in BOOLEAN
  PROVE  Linked(row, completed,
                IF row.live THEN Relinked(row, completed) ELSE NewRule(row.media))
<1>1. CASE row.live
  <2> DEFINE new == Relinked(row, completed)
             restored == IF ~completed /\ ~row.auto
                         THEN [row EXCEPT !.enabled = TRUE, !.custom = FALSE] ELSE row
             on == restored.enabled \/ row.sauto
  <2>1. /\ restored \in Row /\ restored.live = row.live
        /\ restored.media = row.media /\ restored.sources = row.sources
        /\ restored.auto = row.auto
        /\ restored.enabled /\ ~row.enabled => ~row.auto /\ ~completed
    BY DEF Row
  <2>2. new = [restored EXCEPT !.linked = TRUE, !.sauto = FALSE, !.enabled = on]
    BY DEF Relinked
  <2> HIDE DEF restored, new
  <2>3. on \in BOOLEAN
    BY DEF Row
  <2>4. on /\ ~row.enabled => row.sauto \/ (~row.auto /\ ~completed)
    BY <2>1
  <2> HIDE DEF on
  <2>5. /\ new \in Row /\ new.live = restored.live /\ new.linked
        /\ new.media = restored.media /\ new.sources = restored.sources
        /\ new.auto = restored.auto /\ new.enabled = on
    BY <2>1, <2>2, <2>3 DEF Row
  <2>6. Linked(row, completed, new)
    BY <1>1, <2>1, <2>4, <2>5 DEF Linked
  <2>7. QED
    BY <1>1, <2>6 DEF new
<1>2. CASE ~row.live
  <2> DEFINE new == NewRule(row.media)
  <2>1. row.media \in {"movie", "series"}
    BY Unchanged
  <2>2. /\ new \in Row /\ new.live = TRUE /\ new.linked = TRUE
        /\ new.media = row.media /\ new.sources = {}
    BY <2>1, NewRuleTypes DEF NewRule
  <2> HIDE DEF new
  <2>3. Linked(row, completed, new)
    BY <1>2, <2>2 DEF Linked
  <2>4. QED
    BY <1>2, <2>3 DEF new
<1>3. QED
  BY <1>1, <1>2

LEMMA StremioMovieSound ==
  ASSUME NEW row \in Row, row.media = "movie", NEW item \in StremioLibrary,
         NEW base, Linked(row, Movie \in item.watched, base)
  PROVE  LET result == StremioMovie(row, base, item, ~row.live)
         IN /\ result \in Outcomes /\ Sound("stremio", row, result)
            /\ result.evaluated /\ (result.completed <=> Movie \in item.watched)
<1> DEFINE completed == Movie \in item.watched
           selection == SelectMovie("stremio", completed, base.sources, base.enabled,
                                    base.auto, base.keep)
           new == WithCompletion(base, selection)
           changed == ~row.live \/ base # row \/ new # base
           result == StremioMovie(row, base, item, ~row.live)
<1>0. "stremio" \in Sources /\ completed \in BOOLEAN /\ base \in Row
  BY DEF Sources, Linked
<1>1. Linked(row, completed, base)
  OBVIOUS
<1>2. result = Result(new, changed, TRUE, completed)
  BY DEF StremioMovie
<1>3. changed \in BOOLEAN /\ (~changed => new = row)
  OBVIOUS
<1> HIDE DEF result, changed, completed
<1>4. Selected(selection, "stremio", completed, base.sources, base.enabled, base.auto, base.keep)
  <2>1. /\ base.sources \in SUBSET Sources /\ base.enabled \in BOOLEAN
        /\ base.auto \in BOOLEAN /\ base.keep \in BOOLEAN
    BY <1>0, Unchanged
  <2>2. QED
    BY <1>0, <2>1, SelectionTypes, Zenon
<1> HIDE DEF selection
<1>5. /\ new \in Row
      /\ new.sources = selection.sources /\ new.enabled = selection.enabled
      /\ new.media = base.media /\ new.live = base.live /\ new.linked = base.linked
      /\ new.keep = base.keep
  BY <1>0, <1>4, CompletionColumns DEF Selected
<1> HIDE DEF new
<1>6. /\ result \in Outcomes /\ result.row = new /\ result.changed = changed
      /\ result.evaluated = TRUE /\ result.completed = completed
  BY <1>0, <1>2, <1>3, <1>5 DEF Result, Outcomes
<1>7. /\ "stremio" \in new.sources <=> completed
      /\ \A q \in Sources \ {"stremio"} : q \in new.sources <=> q \in row.sources
  <2>1. base.sources \in SUBSET Sources /\ base.sources = row.sources
    BY <1>0, <1>1, Unchanged DEF Linked
  <2>2. QED
    BY <1>0, <1>4, <1>5, <2>1, OtherLabelsKept DEF Selected
<1>8. ~changed => OnlyRemembers(row, new)
  BY <1>3, Unchanged
<1>9. row.live /\ ~row.enabled /\ new.enabled => HasReason("stremio", row, result)
  BY <1>1, <1>4, <1>5, <1>6 DEF Selected, Linked, HasReason
<1>10. new.sources # {} /\ ~new.keep => ~new.enabled
  BY <1>4, <1>5 DEF Selected
<1>11. new.media = row.media /\ new.live /\ new.linked
  BY <1>1, <1>5 DEF Linked
<1>12. Sound("stremio", row, result)
  BY <1>6, <1>7, <1>8, <1>9, <1>10, <1>11 DEF Sound
<1>13. QED
  BY <1>6, <1>12 DEF result, completed

LEMMA DeriveStremioTypes ==
  ASSUME NEW row \in Row, NEW item \in StremioLibrary, NEW cat \in SeriesCatalogs
  PROVE  LET derived == DeriveStremio(row, item, cat)
         IN /\ {derived.known, derived.watched, derived.unseen} \subseteq SUBSET Episodes
            /\ derived.known # {} => Proposes(derived)
<1> DEFINE valid == BitfieldValid(item, cat)
           known == KnownVideos(item, cat)
           watched == IF valid THEN WatchedVideos(item, cat) ELSE row.sWatched
           before == IF known = {} THEN row.sKnown ELSE {}
           kept == IF valid THEN row.sWatched \cap WatchedVideos(item, cat) ELSE row.sWatched
<1>1. known \in SUBSET Episodes
  BY DEF KnownVideos, StremioLibrary, SeriesCatalogs
<1>2. /\ WatchedVideos(item, cat) \in SUBSET Episodes
      /\ row.sKnown \in SUBSET Episodes /\ row.sWatched \in SUBSET Episodes
  BY DEF WatchedVideos, StremioLibrary, SeriesCatalogs, Row
<1>3. watched \in SUBSET Episodes /\ before \in SUBSET Episodes /\ kept \in SUBSET Episodes
  BY <1>2
<1>4. DeriveStremio(row, item, cat) = DeriveFloor(known, watched, before, kept)
  BY DEF DeriveStremio
<1> HIDE DEF known, watched, before, kept
<1> DEFINE derived == DeriveFloor(known, watched, before, kept)
<1>5. /\ derived.known = before \cup known
      /\ {derived.known, derived.watched, derived.unseen} \subseteq SUBSET Episodes
      /\ derived.known # {} => Proposes(derived)
  BY <1>1, <1>3, DeriveFloorTypes, Zenon
<1> HIDE DEF derived
<1>6. DeriveStremio(row, item, cat) = derived
  BY <1>4 DEF derived
<1>7. QED
  BY <1>5, <1>6

LEMMA StremioSeriesSound ==
  ASSUME NEW row \in Row, row.media = "series", NEW item \in StremioLibrary,
         NEW cat \in SeriesCatalogs, NEW base, Linked(row, FALSE, base)
  PROVE  LET result == StremioSeries(row, base, item, cat, ~row.live)
         IN result \in Outcomes /\ Sound("stremio", row, result)
<1> DEFINE derived  == DeriveStremio(base, item, cat)
           valid    == BitfieldValid(item, cat)
           floor    == SelectFloor(derived, RuleFloor(base), base.keep, "stremio",
                                   valid /\ derived.watched # {})
           finished == /\ SeriesIsFinished(derived.known, derived.watched, cat)
                       /\ KnownVideos(item, cat) # {} => valid
           floored == WithFloor(base, floor)
           selection == SelectSeries("stremio", finished, base.sources, base.enabled,
                                     base.auto, base.keep, derived.unseen)
           new == WithCompletion(floored, selection)
           remembered == [new EXCEPT !.sKnown = derived.known, !.sWatched = derived.watched]
           known == ~row.live \/ base # row
           changed == ~row.live \/ base # row \/ new # base
           result == StremioSeries(row, base, item, cat, ~row.live)
<1>0. "stremio" \in Sources /\ base \in Row
  BY DEF Sources, Linked
<1>1. CASE derived.known = {}
  <2>1. result = Result(base, known, FALSE, FALSE)
    BY <1>1 DEF StremioSeries
  <2>2. known \in BOOLEAN /\ (~known => base = row)
    OBVIOUS
  <2> HIDE DEF known, result
  <2>3. /\ result \in Outcomes /\ result.row = base /\ result.changed = known
        /\ result.evaluated = FALSE /\ result.completed = FALSE
    BY <1>0, <2>1, <2>2 DEF Result, Outcomes
  <2>4. ~known => OnlyRemembers(row, base)
    BY <2>2, Unchanged
  <2>5. row.live /\ ~row.enabled /\ base.enabled => HasReason("stremio", row, result)
    BY DEF Linked, HasReason
  <2>6. Sound("stremio", row, result)
    BY <2>3, <2>4, <2>5 DEF Sound, Linked
  <2>7. QED
    BY <2>3, <2>6 DEF result
<1>2. CASE derived.known # {}
  <2>1. result = Result(remembered, changed, TRUE, finished)
    BY <1>2 DEF StremioSeries
  <2>2. changed \in BOOLEAN /\ (~changed => new = row)
    OBVIOUS
  <2> HIDE DEF result, changed
  <2>3. /\ {derived.known, derived.watched, derived.unseen} \subseteq SUBSET Episodes
        /\ Proposes(derived)
    BY <1>0, <1>2, DeriveStremioTypes
  <2> HIDE DEF derived
  <2>4. finished \in BOOLEAN
    BY DEF SeriesIsFinished
  <2> HIDE DEF finished
  <2>5. floor = RuleFloor(base) \/ floor \in Floor
    BY <2>3 DEF SelectFloor, ProposedFloor, Proposes
  <2> HIDE DEF floor
  <2>6. floor \in Int
    <3>1. RuleFloor(base) \in Int
      BY <1>0, Unchanged
    <3>2. \A f \in Floor : f \in Int
      BY DEF Floor, Episode
    <3>3. QED
      BY <2>5, <3>1, <3>2
  <2>7. Selected(selection, "stremio", finished, base.sources, base.enabled, base.auto, base.keep)
    <3>1. /\ base.sources \in SUBSET Sources /\ base.enabled \in BOOLEAN
          /\ base.auto \in BOOLEAN /\ base.keep \in BOOLEAN
      BY <1>0, Unchanged
    <3>2. QED
      BY <1>0, <2>4, <3>1, SelectionTypes
  <2> HIDE DEF selection
  <2>8. /\ floored \in Row
        /\ floored.media = base.media /\ floored.live = base.live
        /\ floored.linked = base.linked /\ floored.keep = base.keep
    BY <1>0, <2>6, FloorColumns
  <2> HIDE DEF floored
  <2>9. /\ new \in Row
        /\ new.sources = selection.sources /\ new.enabled = selection.enabled
        /\ new.media = base.media /\ new.live = base.live /\ new.linked = base.linked
        /\ new.keep = base.keep
    BY <2>7, <2>8, CompletionColumns DEF Selected
  <2> HIDE DEF new
  <2>10. /\ remembered \in Row
         /\ remembered.sources = selection.sources /\ remembered.enabled = selection.enabled
         /\ remembered.media = base.media /\ remembered.live = base.live
         /\ remembered.linked = base.linked /\ remembered.keep = base.keep
         /\ OnlyRemembers(new, remembered)
    BY <2>3, <2>9 DEF Row, OnlyRemembers
  <2> HIDE DEF remembered
  <2>11. /\ result \in Outcomes /\ result.row = remembered /\ result.changed = changed
         /\ result.evaluated = TRUE /\ result.completed = finished
    BY <2>1, <2>2, <2>4, <2>10 DEF Result, Outcomes
  <2>12. /\ "stremio" \in remembered.sources <=> finished
         /\ \A q \in Sources \ {"stremio"} : q \in remembered.sources <=> q \in row.sources
    <3>1. base.sources \in SUBSET Sources /\ base.sources = row.sources
      BY <1>0, Unchanged DEF Linked
    <3>2. QED
      BY <1>0, <2>4, <2>7, <2>10, <3>1, OtherLabelsKept DEF Selected
  <2>13. ~changed => OnlyRemembers(row, remembered)
    BY <2>2, <2>10
  <2>14. row.live /\ ~row.enabled /\ remembered.enabled => HasReason("stremio", row, result)
    BY <2>7, <2>10 DEF Selected, Linked, HasReason
  <2>15. remembered.sources # {} /\ ~remembered.keep => ~remembered.enabled
    BY <2>7, <2>10 DEF Selected
  <2>16. remembered.media = row.media /\ remembered.live /\ remembered.linked
    BY <2>10 DEF Linked
  <2>17. Sound("stremio", row, result)
    BY <2>11, <2>12, <2>13, <2>14, <2>15, <2>16 DEF Sound
  <2>18. QED
    BY <2>11, <2>17 DEF result
<1>3. QED
  BY <1>1, <1>2

LEMMA StremioGoneSound ==
  ASSUME NEW row \in Row, row.live, row.linked
  PROVE  LET result == StremioGone(row)
         IN /\ result \in Outcomes /\ Sound("stremio", row, result)
            /\ result.evaluated <=> row.media = "movie"
            /\ ~result.completed
<1> DEFINE movie == row.media = "movie"
           selection == SelectMovie("stremio", FALSE, row.sources, row.enabled, row.auto,
                                    row.keep)
           unwatched == IF movie THEN WithCompletion(row, selection) ELSE row
           new == IF unwatched.managed /\ ~unwatched.sauto /\ unwatched.enabled
                  THEN [unwatched EXCEPT !.enabled = FALSE, !.sauto = TRUE] ELSE unwatched
           changed == new # row
           result == StremioGone(row)
<1>0. "stremio" \in Sources /\ movie \in BOOLEAN
  BY DEF Sources
<1>1. result = Result(new, changed, movie, FALSE)
  BY DEF StremioGone
<1>2. changed \in BOOLEAN /\ (~changed => new = row)
  OBVIOUS
<1> HIDE DEF result, changed
<1>3. Selected(selection, "stremio", FALSE, row.sources, row.enabled, row.auto, row.keep)
  <2>1. /\ row.sources \in SUBSET Sources /\ row.enabled \in BOOLEAN
        /\ row.auto \in BOOLEAN /\ row.keep \in BOOLEAN /\ FALSE \in BOOLEAN
    BY Unchanged
  <2>2. QED
    BY <1>0, <2>1, SelectionTypes, Zenon
<1> HIDE DEF selection
<1>4. /\ unwatched \in Row
      /\ unwatched.media = row.media /\ unwatched.live = row.live
      /\ unwatched.linked = row.linked /\ unwatched.keep = row.keep
      /\ movie => /\ unwatched.sources = selection.sources
                  /\ unwatched.enabled = selection.enabled
      /\ ~movie => unwatched.sources = row.sources /\ unwatched.enabled = row.enabled
  <2>1. CASE movie
    BY <1>3, <2>1, CompletionColumns DEF Selected
  <2>2. CASE ~movie
    BY <2>2
  <2>3. QED
    BY <2>1, <2>2
<1> HIDE DEF unwatched
<1>5. /\ new \in Row
      /\ new.media = row.media /\ new.live = row.live
      /\ new.linked = row.linked /\ new.keep = row.keep
      /\ new.sources = unwatched.sources
      /\ new.enabled => unwatched.enabled
  BY <1>4 DEF Row
<1> HIDE DEF new
<1>6. /\ result \in Outcomes /\ result.row = new /\ result.changed = changed
      /\ result.evaluated = movie /\ result.completed = FALSE
  <2>1. FALSE \in BOOLEAN
    OBVIOUS
  <2> HIDE DEF movie
  <2>2. QED
    BY <1>0, <1>1, <1>2, <1>5, <2>1 DEF Result, Outcomes
<1>7. ASSUME movie
      PROVE  /\ "stremio" \notin new.sources
             /\ \A q \in Sources \ {"stremio"} : q \in new.sources <=> q \in row.sources
             /\ new.sources # {} /\ ~new.keep => ~new.enabled
             /\ new.enabled => row.enabled \/ row.auto
  BY <1>3, <1>4, <1>5, <1>7 DEF Selected, EvidenceAfter
<1>8. ~changed => OnlyRemembers(row, new)
  BY <1>2, Unchanged
<1>9. ~row.enabled /\ new.enabled => HasReason("stremio", row, result)
  BY <1>4, <1>5, <1>7 DEF HasReason
<1>10. ~movie => new.sources = row.sources
  BY <1>4, <1>5
<1> HIDE DEF movie
<1>11. Sound("stremio", row, result)
  BY <1>5, <1>6, <1>7, <1>8, <1>9, <1>10 DEF Sound
<1>12. QED
  BY <1>6, <1>11 DEF result, movie

\* What Stremio's sync makes of a row, and when it says nothing of a movie.
LEMMA StremioSound ==
  ASSUME NEW row \in Row, row.live \/ row.sources = {}, NEW item \in StremioLibrary,
         NEW cat \in SeriesCatalogs
  PROVE  LET result == StremioResult(row, item, cat)
         IN /\ result \in Outcomes /\ Sound("stremio", row, result)
            /\ row.media = "movie" =>
                 /\ result.evaluated <=> item.active \/ (row.live /\ row.linked)
                 /\ result.evaluated =>
                      (result.completed <=> item.active /\ Movie \in item.watched)
<1> DEFINE completed == row.media = "movie" /\ Movie \in item.watched
           base == IF row.live THEN Relinked(row, completed) ELSE NewRule(row.media)
<1>0. "stremio" \in Sources /\ row.media \in {"movie", "series"}
  BY Unchanged DEF Sources
<1>1. Linked(row, completed, base)
  <2>1. completed \in BOOLEAN
    OBVIOUS
  <2> HIDE DEF completed
  <2>2. QED
    BY <2>1, LinkedBase
<1> HIDE DEF base
<1>2. CASE item.active /\ row.media = "movie"
  <2>1. StremioResult(row, item, cat) = StremioMovie(row, base, item, ~row.live)
    BY <1>2 DEF StremioResult, base
  <2>2. Linked(row, Movie \in item.watched, base)
    BY <1>1, <1>2 DEF Linked
  <2>3. QED
    BY <1>2, <2>1, <2>2, StremioMovieSound
<1>3. CASE item.active /\ row.media # "movie"
  <2>1. StremioResult(row, item, cat) = StremioSeries(row, base, item, cat, ~row.live)
    BY <1>3 DEF StremioResult, base
  <2>2. Linked(row, FALSE, base)
    BY <1>1, <1>3 DEF Linked
  <2>3. QED
    BY <1>0, <1>3, <2>1, <2>2, StremioSeriesSound
<1>4. CASE ~item.active /\ row.live /\ row.linked
  <2>1. StremioResult(row, item, cat) = StremioGone(row)
    BY <1>4 DEF StremioResult
  <2>2. QED
    BY <1>4, <2>1, StremioGoneSound
<1>5. CASE ~item.active /\ ~(row.live /\ row.linked)
  <2>1. StremioResult(row, item, cat) = Skipped(row)
    BY <1>5 DEF StremioResult
  <2>2. QED
    BY <1>0, <1>5, <2>1, SkippedSound
<1>6. QED
  BY <1>2, <1>3, <1>4, <1>5

-----------------------------------------------------------------------------
(***************************************************************************)
(* The inductive invariant.  Beside its types it says what every session   *)
(* knows: the row it loaded as far as nobody disturbed it, the label that  *)
(* the row had then, and whether what it found is still what the library   *)
(* says.                                                                   *)
(***************************************************************************)
Types ==
  /\ rule \in Row /\ jellyfin \in JellyfinLibrary /\ stremio \in StremioLibrary
  /\ catalog \in Catalogs
  /\ sync \in [Sources -> Sessions] /\ seen \in [Sources -> BOOLEAN]
  /\ reported \in [Sources -> {"never", "open", "completed"}]
  /\ overwritten \in SUBSET Sources
  /\ clean \in BOOLEAN /\ silent \in SUBSET Sources /\ events \in Nat

\* The labels are what was reported, except an overwritten one; before any report
\* there is none; Stremio reports on linked rules only.
RuleInv ==
  /\ \A p \in Sources \ overwritten : p \in rule.sources <=> reported[p] = "completed"
  /\ ~rule.live => rule.sources = {} /\ \A p \in Sources : reported[p] = "never"
  /\ reported["stremio"] # "never" => rule.linked

\* The library of p is a movie's, and its mark has moved since it changed.
Told(p) == rule.media = "movie" /\ p \notin silent
ReportStands(p) == reported[p] # "never" => (reported[p] = "completed" <=> SaysCompleted(p))

LoadedInv(p) ==
  sync[p].stage = "loaded" =>
    /\ Sound(p, sync[p].old, sync[p].result)
    /\ sync[p].old.media = rule.media
    /\ sync[p].old.live => rule.live
    /\ sync[p].old.linked => rule.linked
    /\ ~sync[p].touched => rule = sync[p].old
    /\ p \notin overwritten => (p \in sync[p].old.sources <=> reported[p] = "completed")
    /\ rule.media = "movie" /\ ~sync[p].result.evaluated => reported[p] = "never"
    /\ Told(p) /\ (sync[p].fresh \/ seen[p]) /\ sync[p].result.evaluated
         => (sync[p].result.completed <=> SaysCompleted(p))

FinishingInv(p) ==
  sync[p].stage = "finishing" =>
    /\ OnlyRemembers(sync[p].old, sync[p].result.row)
    /\ Told(p) /\ sync[p].fresh => ReportStands(p)

SeenInv(p) == Told(p) /\ seen[p] => ReportStands(p)

SyncInv(p) == LoadedInv(p) /\ FinishingInv(p) /\ SeenInv(p)

IInv == Types /\ RuleInv /\ CompletedDisables /\ \A p \in Sources : SyncInv(p)

LEMMA InvariantImpliesTypes == IInv => TypeOK
BY DEF IInv, Types, TypeOK, Sessions, Outcomes

LEMMA InvariantImpliesEvidence == IInv => EvidenceKept
<1>1. ASSUME IInv, NEW p \in Sources \ overwritten
      PROVE  (p \in rule.sources) = (reported[p] = "completed")
  BY <1>1 DEF IInv, RuleInv
<1>2. QED
  BY <1>1 DEF EvidenceKept

LEMMA InvariantImpliesSeen == IInv => SeenMeansReported
<1> SUFFICES ASSUME IInv, rule.media = "movie" PROVE SeenMeansReported
  BY DEF SeenMeansReported
<1>1. ASSUME NEW p \in Sources \ silent, seen[p], reported[p] # "never"
      PROVE  (reported[p] = "completed") = SaysCompleted(p)
  <2>1. SeenInv(p)
    BY DEF IInv, SyncInv
  <2>2. reported[p] = "completed" <=> SaysCompleted(p)
    BY <1>1, <2>1 DEF SeenInv, Told, ReportStands
  <2>3. SaysCompleted(p) \in BOOLEAN
    <3>1. /\ (Movie \in jellyfin.watched) \in BOOLEAN
          /\ (stremio.active /\ Movie \in stremio.watched) \in BOOLEAN
      OBVIOUS
    <3>2. QED
      BY <3>1 DEF SaysCompleted
  <2> HIDE DEF SaysCompleted
  <2>4. QED
    BY <2>2, <2>3
<1>2. QED
  BY <1>1 DEF SeenMeansReported

\* A step that is none of p's business.
Kept(p) ==
  /\ sync'[p].stage = sync[p].stage /\ sync'[p].old = sync[p].old
  /\ sync'[p].result = sync[p].result
  /\ sync[p].touched => sync'[p].touched
  /\ sync[p].stage = "loaded" /\ rule' # rule => sync'[p].touched
  /\ rule'.media = rule.media
  /\ rule.live => rule'.live
  /\ rule.linked => rule'.linked
  /\ reported'[p] = reported[p] /\ (p \in overwritten => p \in overwritten')
  /\ Told(p)' /\ sync'[p].fresh => Told(p) /\ sync[p].fresh /\ (SaysCompleted(p)' <=> SaysCompleted(p))
  /\ Told(p)' /\ seen'[p] => Told(p) /\ seen[p] /\ (SaysCompleted(p)' <=> SaysCompleted(p))

LEMMA KeptHolds ==
  ASSUME NEW p \in Sources, SyncInv(p), Kept(p)
  PROVE  SyncInv(p)'
<1>1. SeenInv(p)'
  BY DEF SyncInv, SeenInv, Kept, ReportStands
<1>2. FinishingInv(p)'
  BY DEF SyncInv, FinishingInv, Kept, ReportStands
<1>3. LoadedInv(p)'
  <2>1. SUFFICES ASSUME sync'[p].stage = "loaded"
                 PROVE  LoadedInv(p)'
    BY DEF LoadedInv
  <2>2. LoadedInv(p) /\ sync[p].stage = "loaded"
    BY <2>1 DEF SyncInv, Kept
  <2>3. Sound(p, sync'[p].old, sync'[p].result)
    BY <2>2 DEF LoadedInv, Kept
  <2>4. /\ sync'[p].old.media = rule'.media
        /\ sync'[p].old.live => rule'.live
        /\ sync'[p].old.linked => rule'.linked
        /\ ~sync'[p].touched => rule' = sync'[p].old
    BY <2>2 DEF LoadedInv, Kept
  <2>5. /\ p \notin overwritten' => (p \in sync'[p].old.sources <=> reported'[p] = "completed")
        /\ rule'.media = "movie" /\ ~sync'[p].result.evaluated => reported'[p] = "never"
    BY <2>2 DEF LoadedInv, Kept
  <2>6. Told(p)' /\ (sync'[p].fresh \/ seen'[p]) /\ sync'[p].result.evaluated
          => (sync'[p].result.completed <=> SaysCompleted(p)')
    BY <2>2 DEF LoadedInv, Kept
  <2>7. QED
    BY <2>3, <2>4, <2>5, <2>6 DEF LoadedInv
<1>4. QED
  BY <1>1, <1>2, <1>3 DEF SyncInv

\* A step of p that neither leaves it with a loaded row nor with one to finish.
LEMMA RestingHolds ==
  ASSUME NEW p \in Sources, sync'[p].stage \notin {"loaded", "finishing"}, SeenInv(p)'
  PROVE  SyncInv(p)'
BY DEF SyncInv, LoadedInv, FinishingInv

\* A step that does not touch the columns of completion.
LEMMA RuleHolds ==
  ASSUME RuleInv, CompletedDisables, Types, Types',
         rule'.live = rule.live, rule'.sources = rule.sources, rule'.linked = rule.linked,
         clean' => clean /\ rule'.keep = rule.keep /\ rule'.enabled = rule.enabled,
         reported' = reported, overwritten' = overwritten
  PROVE  RuleInv' /\ CompletedDisables'
BY DEF RuleInv, CompletedDisables

-----------------------------------------------------------------------------
\* Two providers; a write to one session leaves the other's.
LEMMA OtherSource ==
  ASSUME NEW p \in Sources
  PROVE  Other(p) \in Sources \ {p} /\ \A q \in Sources \ {p} : q = Other(p)
<1>1. \E q \in Sources : q # p
  BY DEF Sources
<1>2. Other(p) \in Sources /\ Other(p) # p
  BY <1>1 DEF Other
<1>3. QED
  BY <1>2 DEF Sources

LEMMA FreshWritten ==
  ASSUME NEW s \in [Sources -> Sessions], NEW p \in Sources, NEW b \in BOOLEAN
  PROVE  LET t == [s EXCEPT ![p].fresh = b]
         IN /\ t \in [Sources -> Sessions]
            /\ \A q \in Sources : /\ t[q].stage = s[q].stage /\ t[q].auto = s[q].auto
                                  /\ t[q].touched = s[q].touched
                                  /\ t[q].old = s[q].old /\ t[q].result = s[q].result
                                  /\ q # p => t[q].fresh = s[q].fresh
            /\ t[p].fresh = b
<1> DEFINE new == [s[p] EXCEPT !.fresh = b]
           t == [s EXCEPT ![p] = new]
<1>1. /\ new \in Sessions /\ new.fresh = b /\ new.stage = s[p].stage
      /\ new.auto = s[p].auto /\ new.touched = s[p].touched
      /\ new.old = s[p].old /\ new.result = s[p].result
  <2>1. s[p] \in Sessions
    OBVIOUS
  <2>2. QED
    BY <2>1 DEF Sessions
<1> HIDE DEF new
<1>2. t \in [Sources -> Sessions] /\ t[p] = new /\ \A q \in Sources \ {p} : t[q] = s[q]
  BY <1>1
<1>3. [s EXCEPT ![p].fresh = b] = t
  BY DEF new
<1> HIDE DEF t
<1>4. QED
  BY <1>1, <1>2, <1>3

\* A commit of p touches the other session if it changes the row.
LEMMA TouchedWritten ==
  ASSUME NEW s \in [Sources -> Sessions], NEW p \in Sources
  PROVE  LET t == Touched(s, p)
             q == Other(p)
         IN /\ t \in [Sources -> Sessions]
            /\ t[p] = s[p]
            /\ t[q].stage = s[q].stage /\ t[q].auto = s[q].auto /\ t[q].fresh = s[q].fresh
            /\ t[q].old = s[q].old /\ t[q].result = s[q].result
            /\ s[q].touched => t[q].touched
            /\ Holding(q) /\ rule' # rule => t[q].touched
<1> DEFINE q == Other(p)
           disturbs == Holding(q) /\ rule' # rule
           b == s[q].touched \/ disturbs
           new == [s[q] EXCEPT !.touched = b]
           t == [s EXCEPT ![q] = new]
<1>0. q \in Sources /\ q # p
  BY OtherSource
<1>1. b \in BOOLEAN
  OBVIOUS
<1>2. Touched(s, p) = t
  BY DEF Touched
<1>3. (s[q].touched => b) /\ (disturbs => b)
  OBVIOUS
<1> HIDE DEF b, disturbs, q
<1>4. /\ new \in Sessions /\ new.touched = b /\ new.stage = s[q].stage
      /\ new.auto = s[q].auto /\ new.fresh = s[q].fresh
      /\ new.old = s[q].old /\ new.result = s[q].result
  <2>1. s[q] \in Sessions
    BY <1>0
  <2>2. QED
    BY <1>1, <2>1 DEF Sessions
<1> HIDE DEF new
<1>5. t \in [Sources -> Sessions] /\ t[q] = new /\ t[p] = s[p]
  BY <1>0, <1>4
<1> HIDE DEF t
<1>6. QED
  BY <1>2, <1>3, <1>4, <1>5 DEF q, disturbs

\* What the last commit of a sync leaves alone.
LEMMA RecordKeeps ==
  ASSUME Types, NEW p \in Sources, FinishingInv(p), sync[p].stage = "finishing",
         NEW syncs \in [Sources -> Sessions], Record(p, syncs)
  PROVE  /\ rule' \in Row
         /\ rule'.live = rule.live /\ rule'.media = rule.media
         /\ rule'.enabled = rule.enabled /\ rule'.sources = rule.sources
         /\ rule'.linked = rule.linked /\ rule'.keep = rule.keep
         /\ rule'.season = rule.season /\ rule'.episode = rule.episode
         /\ sync' \in [Sources -> Sessions] /\ sync'[p] = NoSync
         /\ LET q == Other(p)
            IN /\ sync'[q].stage = syncs[q].stage /\ sync'[q].fresh = syncs[q].fresh
               /\ sync'[q].old = syncs[q].old /\ sync'[q].result = syncs[q].result
               /\ syncs[q].touched => sync'[q].touched
               /\ sync[q].stage = "loaded" /\ rule' # rule => sync'[q].touched
<1> DEFINE old == sync[p].old
           new == sync[p].result.row
           s == [syncs EXCEPT ![p] = NoSync]
           q == Other(p)
<1>1. rule \in Row /\ old \in Row /\ new \in Row /\ OnlyRemembers(old, new)
  BY DEF Types, Sessions, Outcomes, FinishingInv
<1>2. rule' = IF sync[p].auto THEN Written(rule, old, new) ELSE rule
  BY DEF Record
<1> HIDE DEF old, new
<1>3. /\ new.live = old.live /\ new.media = old.media /\ new.enabled = old.enabled
      /\ new.sources = old.sources /\ new.linked = old.linked
  BY <1>1 DEF OnlyRemembers, Row
<1>4. /\ rule' \in Row
      /\ rule'.live = rule.live /\ rule'.media = rule.media
      /\ rule'.enabled = rule.enabled /\ rule'.sources = rule.sources
      /\ rule'.linked = rule.linked /\ rule'.keep = rule.keep
      /\ rule'.season = rule.season /\ rule'.episode = rule.episode
  <2>1. CASE sync[p].auto
    BY <1>1, <1>2, <1>3, <2>1, WrittenColumns
  <2>2. CASE ~sync[p].auto
    BY <1>1, <1>2, <2>2
  <2>3. QED
    BY <2>1, <2>2
<1>5. q \in Sources /\ q # p
  BY OtherSource
<1>6. s \in [Sources -> Sessions] /\ s[p] = NoSync /\ s[q] = syncs[q]
  BY <1>5, RestingSync
<1>7. sync' = Touched(s, p)
  BY DEF Record
<1>8. sync[q].stage = "loaded" => Holding(q)
  BY DEF Holding
<1> HIDE DEF s
<1>9. /\ sync' \in [Sources -> Sessions] /\ sync'[p] = s[p]
      /\ sync'[q].stage = s[q].stage /\ sync'[q].fresh = s[q].fresh
      /\ sync'[q].old = s[q].old /\ sync'[q].result = s[q].result
      /\ s[q].touched => sync'[q].touched
      /\ Holding(q) /\ rule' # rule => sync'[q].touched
  BY <1>6, <1>7, TouchedWritten
<1>10. QED
  BY <1>4, <1>6, <1>8, <1>9

-----------------------------------------------------------------------------
\* The invariant holds at first, and one lemma per action keeps it.
LEMMA InitHolds == Init => IInv
<1> SUFFICES ASSUME Init PROVE IInv
  OBVIOUS
<1>1. rule \in Row /\ rule.sources = {}
  BY WatchInputsAssumption DEF Init, WatchInputsAssumption
<1>2. Types
  <2>1. jellyfin \in JellyfinLibrary /\ stremio \in StremioLibrary
    BY WatchInputsAssumption DEF Init, WatchInputsAssumption, JellyfinTitles, StremioTitles
  <2>2. sync \in [Sources -> Sessions]
    BY RestingSync DEF Init
  <2>3. QED
    BY <1>1, <2>1, <2>2 DEF Init, Types
<1>3. RuleInv /\ CompletedDisables
  BY <1>1 DEF Init, RuleInv, CompletedDisables, Sources
<1>4. ASSUME NEW p \in Sources PROVE SyncInv(p)
  BY RestingSync DEF Init, SyncInv, LoadedInv, FinishingInv, SeenInv
<1>5. QED
  BY <1>2, <1>3, <1>4 DEF IInv

\* A library changes: what its provider has marked as seen is not seen any more.
LEMMA UnmarkedWrites ==
  ASSUME Types, NEW p \in Sources, Unmarked(p)
  PROVE  /\ sync' \in [Sources -> Sessions] /\ seen' \in [Sources -> BOOLEAN]
         /\ ~seen'[p] /\ ~sync'[p].fresh
         /\ \A q \in Sources :
              /\ sync'[q].stage = sync[q].stage /\ sync'[q].touched = sync[q].touched
              /\ sync'[q].old = sync[q].old /\ sync'[q].result = sync[q].result
              /\ q # p => sync'[q].fresh = sync[q].fresh /\ seen'[q] = seen[q]
<1>1. sync \in [Sources -> Sessions] /\ seen \in [Sources -> BOOLEAN]
  BY DEF Types
<1>2. sync' = [sync EXCEPT ![p].fresh = FALSE] /\ seen' = [seen EXCEPT ![p] = FALSE]
  BY DEF Unmarked
<1>3. PICK b \in BOOLEAN : b = FALSE
  OBVIOUS
<1> DEFINE t == [sync EXCEPT ![p].fresh = b]
<1>4. /\ t \in [Sources -> Sessions] /\ t[p].fresh = b
      /\ \A q \in Sources :
           /\ t[q].stage = sync[q].stage /\ t[q].touched = sync[q].touched
           /\ t[q].old = sync[q].old /\ t[q].result = sync[q].result
           /\ q # p => t[q].fresh = sync[q].fresh
  BY <1>1, FreshWritten
<1>5. sync' = t
  BY <1>2, <1>3
<1> HIDE DEF t
<1>6. seen' \in [Sources -> BOOLEAN] /\ ~seen'[p] /\ \A q \in Sources \ {p} : seen'[q] = seen[q]
  BY <1>1, <1>2
<1>7. QED
  BY <1>3, <1>4, <1>5, <1>6

\* A library changes, or its mark moves: unless the change goes unmarked, what its
\* provider has seen is not seen any more.
LEMMA ChangeHolds ==
  ASSUME IInv, NEW p \in Sources, NEW moves \in BOOLEAN,
         IF moves THEN Unmarked(p) ELSE UNCHANGED <<seen, sync>>,
         silent' = SilentAfter(p, moves),
         UNCHANGED <<rule, catalog, history>>, events' \in Nat,
         jellyfin' \in JellyfinLibrary, stremio' \in StremioLibrary,
         \A q \in Sources \ {p} : SaysCompleted(q)' <=> SaysCompleted(q)
  PROVE  IInv'
<1>1. Types
  BY DEF IInv
<1>2. /\ sync' \in [Sources -> Sessions] /\ seen' \in [Sources -> BOOLEAN]
      /\ moves => ~seen'[p] /\ ~sync'[p].fresh
      /\ \A q \in Sources :
           /\ sync'[q].stage = sync[q].stage /\ sync'[q].touched = sync[q].touched
           /\ sync'[q].old = sync[q].old /\ sync'[q].result = sync[q].result
           /\ q # p => sync'[q].fresh = sync[q].fresh /\ seen'[q] = seen[q]
  <2>1. CASE moves
    BY <1>1, <2>1, UnmarkedWrites
  <2>2. CASE ~moves
    BY <1>1, <2>2 DEF Types
  <2>3. QED
    BY <2>1, <2>2
<1>3. silent' \in SUBSET Sources
  BY <1>1 DEF Types, SilentAfter
<1>4. Types'
  BY <1>1, <1>2, <1>3 DEF Types, history
<1>5. RuleInv' /\ CompletedDisables'
  BY <1>4, RuleHolds DEF IInv, history
<1>6. ASSUME NEW q \in Sources PROVE Kept(q)
  <2>1. CASE q = p
    <3>1. Told(p)' => moves
      BY DEF Told, SilentAfter
    <3>2. QED
      BY <1>2, <2>1, <3>1 DEF Kept, history
  <2>2. CASE q # p
    <3>1. Told(q)' <=> Told(q)
      BY <2>2 DEF Told, SilentAfter
    <3>2. QED
      BY <1>2, <2>2, <3>1 DEF Kept, history
  <2>3. QED
    BY <2>1, <2>2
<1>7. QED
  BY <1>4, <1>5, <1>6, KeptHolds DEF IInv

LEMMA JellyfinChangesHolds ==
  ASSUME IInv, NEW lib \in JellyfinTitles(rule.media), NEW moves \in BOOLEAN,
         JellyfinChanges(lib, moves)
  PROVE  IInv'
<1>1. "jellyfin" \in Sources /\ stremio' \in StremioLibrary /\ events' \in Nat
  BY DEF Sources, IInv, Types, JellyfinChanges, Outside
<1>2. jellyfin' \in JellyfinLibrary
  BY WatchInputsAssumption DEF WatchInputsAssumption, JellyfinTitles, JellyfinChanges
<1>3. \A q \in Sources \ {"jellyfin"} : SaysCompleted(q)' <=> SaysCompleted(q)
  BY DEF SaysCompleted, JellyfinChanges
<1>4. QED
  BY <1>1, <1>2, <1>3, ChangeHolds DEF JellyfinChanges

LEMMA StremioChangesHolds ==
  ASSUME IInv, NEW item \in StremioTitles(rule.media), StremioChanges(item)
  PROVE  IInv'
<1>1. "stremio" \in Sources /\ jellyfin' \in JellyfinLibrary /\ events' \in Nat
  BY DEF Sources, IInv, Types, StremioChanges, Outside
<1>2. stremio' \in StremioLibrary
  BY WatchInputsAssumption DEF WatchInputsAssumption, StremioTitles, StremioChanges
<1>3. \A q \in Sources \ {"stremio"} : SaysCompleted(q)' <=> SaysCompleted(q)
  BY DEF SaysCompleted, StremioChanges, Sources
<1>4. QED
  BY <1>1, <1>2, <1>3, ChangeHolds DEF StremioChanges

LEMMA CatalogChangesHolds ==
  ASSUME IInv, NEW cat \in Catalogs, CatalogChanges(cat)
  PROVE  IInv'
<1>1. Types'
  BY DEF IInv, Types, CatalogChanges, history, Outside
<1>2. RuleInv' /\ CompletedDisables'
  BY <1>1, RuleHolds DEF IInv, CatalogChanges, history
<1>3. ASSUME NEW p \in Sources PROVE Kept(p)
  BY DEF Kept, Told, SaysCompleted, CatalogChanges, history
<1>4. QED
  BY <1>1, <1>2, <1>3, KeptHolds DEF IInv

\* A form is saved: the sessions that hold the row are disturbed.
LEMMA SaveFormHolds ==
  ASSUME IInv, NEW posted \in Forms, SaveForm(posted)
  PROVE  IInv'
<1>0. /\ rule \in Row /\ sync \in [Sources -> Sessions]
      /\ posted \in [enabled : BOOLEAN, keep : BOOLEAN, floor : Floor]
  BY WatchSyncAssumption DEF IInv, Types, WatchSyncAssumption
<1>1. /\ rule' \in Row /\ rule'.live = rule.live /\ rule'.media = rule.media
      /\ rule'.sources = rule.sources /\ rule'.linked = rule.linked
  <2> DEFINE season == IF posted.floor = None THEN None ELSE Season(posted.floor)
             episode == IF posted.floor = None THEN None ELSE Number(posted.floor)
  <2>1. posted.floor \in Int
    <3>1. \A f \in Floor : f \in Int
      BY DEF Floor, Episode
    <3>2. QED
      BY <1>0, <3>1
  <2>2. season \in Int /\ episode \in Int
    BY <2>1 DEF Season, Number
  <2>3. rule' = [rule EXCEPT !.enabled = posted.enabled, !.keep = posted.keep, !.custom = TRUE,
                             !.season = season, !.episode = episode]
    BY DEF SaveForm
  <2> HIDE DEF season, episode
  <2>4. QED
    BY <1>0, <2>2, <2>3 DEF Row
<1>2. ASSUME NEW p \in Sources
      PROVE  /\ sync'[p] \in Sessions
             /\ sync'[p].stage = sync[p].stage /\ sync'[p].fresh = sync[p].fresh
             /\ sync'[p].old = sync[p].old /\ sync'[p].result = sync[p].result
             /\ sync[p].touched => sync'[p].touched
             /\ sync[p].stage = "loaded" => sync'[p].touched
  <2>1. sync'[p] = IF Holding(p) THEN [sync[p] EXCEPT !.touched = TRUE] ELSE sync[p]
    BY DEF SaveForm
  <2>2. sync[p].stage = "loaded" => Holding(p)
    BY DEF Holding
  <2>3. sync[p] \in Sessions
    BY <1>0
  <2> HIDE DEF Holding
  <2>4. CASE Holding(p)
    <3> DEFINE new == [sync[p] EXCEPT !.touched = TRUE]
    <3>1. /\ new \in Sessions /\ new.touched = TRUE
          /\ new.stage = sync[p].stage /\ new.fresh = sync[p].fresh
          /\ new.old = sync[p].old /\ new.result = sync[p].result
      BY <2>3 DEF Sessions
    <3>2. sync'[p] = new
      BY <2>1, <2>4
    <3> HIDE DEF new
    <3>3. QED
      BY <3>1, <3>2
  <2>5. CASE ~Holding(p)
    BY <2>1, <2>2, <2>3, <2>5
  <2>6. QED
    BY <2>4, <2>5
<1>3. sync' \in [Sources -> Sessions]
  <2>1. sync' = [p \in Sources |-> sync'[p]]
    BY DEF SaveForm
  <2>2. QED
    BY <1>2, <2>1
<1>4. Types'
  <2>1. clean' \in BOOLEAN
    BY DEF SaveForm
  <2>2. QED
    BY <1>1, <1>3, <2>1 DEF IInv, Types, SaveForm, libraries, Outside
<1>5. RuleInv' /\ CompletedDisables'
  BY <1>1, <1>4, RuleHolds DEF IInv, SaveForm
<1>6. ASSUME NEW p \in Sources PROVE Kept(p)
  <2>1. (Told(p)' <=> Told(p)) /\ (SaysCompleted(p)' <=> SaysCompleted(p))
    BY <1>1 DEF Told, SaysCompleted, SaveForm, libraries
  <2>2. QED
    BY <1>1, <1>2, <2>1 DEF Kept, SaveForm
<1>7. QED
  BY <1>4, <1>5, <1>6, KeptHolds DEF IInv

\* A sync begins or is abandoned: its session changes, nothing else does.
LEMMA SessionHolds ==
  ASSUME IInv, NEW p \in Sources, NEW session \in Sessions,
         sync' = [sync EXCEPT ![p] = session],
         UNCHANGED <<rule, libraries, history, silent>>,
         seen' \in [Sources -> BOOLEAN], \A q \in Sources : seen'[q] => seen[q],
         events' \in Nat, SyncInv(p)'
  PROVE  IInv'
<1>1. sync \in [Sources -> Sessions]
  BY DEF IInv, Types
<1>2. Types'
  BY <1>1 DEF IInv, Types, libraries, history
<1>3. RuleInv' /\ CompletedDisables'
  BY <1>2, RuleHolds DEF IInv, history
<1>4. ASSUME NEW q \in Sources, q # p PROVE SyncInv(q)'
  <2>1. sync'[q] = sync[q]
    BY <1>1, <1>4
  <2>2. (Told(q)' <=> Told(q)) /\ (SaysCompleted(q)' <=> SaysCompleted(q))
    BY DEF Told, SaysCompleted, libraries
  <2>3. Kept(q)
    BY <2>1, <2>2 DEF Kept, history
  <2>4. QED
    BY <2>3, KeptHolds DEF IInv
<1>5. QED
  BY <1>2, <1>3, <1>4 DEF IInv

LEMMA SeenStands ==
  ASSUME IInv, NEW p \in Sources, UNCHANGED <<rule, libraries, history, silent>>,
         seen'[p] => seen[p]
  PROVE  SeenInv(p)'
<1>1. /\ Told(p)' <=> Told(p)
      /\ SaysCompleted(p)' <=> SaysCompleted(p)
      /\ reported' = reported
  BY DEF Told, SaysCompleted, libraries, history
<1>2. SeenInv(p)
  BY DEF IInv, SyncInv
<1>3. QED
  BY <1>1, <1>2 DEF SeenInv, ReportStands

LEMMA BeginsHolds ==
  ASSUME IInv, NEW p \in Sources, Tick(p) \/ ManualSync(p)
  PROVE  IInv'
<1>1. PICK session \in Sessions : /\ sync' = [sync EXCEPT ![p] = session]
                                  /\ session.stage = "reading"
  <2>1. CASE Tick(p)
    <3> DEFINE session == [NoSync EXCEPT !.stage = "reading", !.auto = TRUE, !.fresh = TRUE]
    <3>1. session \in Sessions /\ session.stage = "reading"
      BY RestingSync DEF Sessions, Stages
    <3>2. sync' = [sync EXCEPT ![p] = session]
      BY <2>1 DEF Tick
    <3>3. QED
      BY <3>1, <3>2
  <2>2. CASE ManualSync(p)
    <3> DEFINE session == [NoSync EXCEPT !.stage = "reading"]
    <3>1. session \in Sessions /\ session.stage = "reading"
      BY RestingSync DEF Sessions, Stages
    <3>2. sync' = [sync EXCEPT ![p] = session]
      BY <2>2 DEF ManualSync
    <3>3. QED
      BY <3>1, <3>2
  <2>3. QED
    BY <2>1, <2>2
<1>2. /\ UNCHANGED <<rule, libraries, history, silent>> /\ seen' = seen
      /\ events' \in Nat /\ seen \in [Sources -> BOOLEAN] /\ sync \in [Sources -> Sessions]
  BY DEF Tick, ManualSync, Outside, IInv, Types
<1>3. SyncInv(p)'
  BY <1>1, <1>2, SeenStands, RestingHolds
<1>4. QED
  BY <1>1, <1>2, <1>3, SessionHolds

LEMMA FailsHolds ==
  ASSUME IInv, NEW p \in Sources, Fails(p)
  PROVE  IInv'
<1>1. /\ UNCHANGED <<rule, libraries, history, silent>>
      /\ events' \in Nat /\ seen \in [Sources -> BOOLEAN] /\ sync \in [Sources -> Sessions]
  BY DEF Fails, Outside, IInv, Types
<1>2. seen' \in [Sources -> BOOLEAN] /\ \A q \in Sources : seen'[q] => seen[q]
  BY <1>1 DEF Fails
<1>3. sync' = [sync EXCEPT ![p] = NoSync] /\ NoSync \in Sessions /\ sync'[p].stage = "idle"
  BY <1>1, RestingSync DEF Fails
<1>4. SyncInv(p)'
  BY <1>1, <1>2, <1>3, SeenStands, RestingHolds
<1>5. QED
  BY <1>1, <1>2, <1>3, <1>4, SessionHolds

LEMMA CrashHolds ==
  ASSUME IInv, Crash
  PROVE  IInv'
<1>1. /\ UNCHANGED <<rule, libraries, history, silent>> /\ events' \in Nat
      /\ sync' = [p \in Sources |-> NoSync] /\ seen' = [p \in Sources |-> FALSE]
  BY DEF Crash, Outside, IInv, Types
<1>2. sync' \in [Sources -> Sessions] /\ \A p \in Sources : sync'[p].stage = "idle"
  BY <1>1, RestingSync
<1>3. Types'
  BY <1>1, <1>2 DEF IInv, Types, libraries, history
<1>4. RuleInv' /\ CompletedDisables'
  BY <1>1, <1>3, RuleHolds DEF IInv, history
<1>5. ASSUME NEW p \in Sources PROVE SyncInv(p)'
  BY <1>1, <1>2, SeenStands, RestingHolds
<1>6. QED
  BY <1>3, <1>4, <1>5 DEF IInv

\* A sync loads the row: what it makes of it is sound, and for a movie it reports
\* what the library says now, or has never reported before.
LEMMA ResultSound ==
  ASSUME IInv, NEW p \in Sources
  PROVE  LET result == ResultOf(p)
         IN /\ result \in Outcomes /\ Sound(p, rule, result)
            /\ rule.media = "movie" =>
                 /\ ~result.evaluated => reported[p] = "never"
                 /\ result.evaluated => (result.completed <=> SaysCompleted(p))
<1>1. /\ rule \in Row /\ jellyfin \in JellyfinLibrary /\ stremio \in StremioLibrary
      /\ catalog \in SeriesCatalogs /\ (rule.live \/ rule.sources = {})
  BY WatchInputsAssumption DEF IInv, Types, RuleInv, WatchInputsAssumption, SeriesCatalogs
<1>2. ~rule.live => reported[p] = "never"
  BY DEF IInv, RuleInv
<1>3. CASE p = "jellyfin"
  <2> DEFINE result == JellyfinResult(rule, jellyfin, catalog)
  <2>1. /\ result \in Outcomes /\ Sound("jellyfin", rule, result)
        /\ rule.media = "movie" =>
             /\ result.evaluated <=> rule.live
             /\ result.evaluated => (result.completed <=> Movie \in jellyfin.watched)
    BY <1>1, JellyfinSound
  <2>2. ResultOf(p) = result
    BY <1>3 DEF ResultOf
  <2> HIDE DEF result
  <2>3. QED
    BY <1>2, <1>3, <2>1, <2>2 DEF SaysCompleted
<1>4. CASE p = "stremio"
  <2> DEFINE result == StremioResult(rule, stremio, catalog)
  <2>1. /\ result \in Outcomes /\ Sound("stremio", rule, result)
        /\ rule.media = "movie" =>
             /\ result.evaluated <=> stremio.active \/ (rule.live /\ rule.linked)
             /\ result.evaluated =>
                  (result.completed <=> stremio.active /\ Movie \in stremio.watched)
    BY <1>1, StremioSound
  <2>2. ResultOf(p) = result
    BY <1>4 DEF ResultOf
  <2> HIDE DEF result
  <2>3. reported["stremio"] # "never" => rule.linked
    BY DEF IInv, RuleInv
  <2>4. QED
    BY <1>2, <1>4, <2>1, <2>2, <2>3 DEF SaysCompleted
<1>5. QED
  BY <1>3, <1>4 DEF Sources

LEMMA LoadHolds ==
  ASSUME IInv, NEW p \in Sources, Load(p)
  PROVE  IInv'
<1> DEFINE result == ResultOf(p)
           session == [sync[p] EXCEPT !.stage = "loaded", !.old = rule, !.result = result]
<1>1. /\ result \in Outcomes /\ Sound(p, rule, result)
      /\ rule.media = "movie" =>
           /\ ~result.evaluated => reported[p] = "never"
           /\ result.evaluated => (result.completed <=> SaysCompleted(p))
  BY ResultSound
<1>2. /\ sync \in [Sources -> Sessions] /\ sync[p] \in Sessions /\ rule \in Row
      /\ seen \in [Sources -> BOOLEAN] /\ events \in Nat
  BY DEF IInv, Types
<1>3. /\ sync' = [sync EXCEPT ![p].stage = "loaded", ![p].old = rule, ![p].result = result]
      /\ UNCHANGED <<rule, libraries, history, silent>> /\ seen' = seen /\ events' = events
  BY DEF Load
<1> HIDE DEF result
<1>4. /\ session \in Sessions /\ session.stage = "loaded" /\ session.old = rule
      /\ session.result = result
  BY <1>1, <1>2 DEF Sessions, Stages
<1>5. sync' = [sync EXCEPT ![p] = session]
  BY <1>2, <1>3
<1> HIDE DEF session
<1>6. sync'[p] = session
  BY <1>2, <1>5
<1>7. /\ rule' = rule /\ reported' = reported /\ overwritten' = overwritten
      /\ Told(p)' <=> Told(p)
      /\ SaysCompleted(p)' <=> SaysCompleted(p)
  BY <1>3 DEF Told, SaysCompleted, libraries, history
<1>8. p \notin overwritten => (p \in rule.sources <=> reported[p] = "completed")
  BY DEF IInv, RuleInv
<1>9. LoadedInv(p)'
  <2>1. Sound(p, sync'[p].old, sync'[p].result)
    BY <1>1, <1>4, <1>6
  <2>2. /\ sync'[p].old.media = rule'.media
        /\ sync'[p].old.live => rule'.live
        /\ sync'[p].old.linked => rule'.linked
        /\ rule' = sync'[p].old
        /\ p \notin overwritten' => (p \in sync'[p].old.sources <=> reported'[p] = "completed")
    BY <1>4, <1>6, <1>7, <1>8
  <2>3. /\ rule'.media = "movie" /\ ~sync'[p].result.evaluated => reported'[p] = "never"
        /\ Told(p)' /\ sync'[p].result.evaluated => (sync'[p].result.completed <=> SaysCompleted(p)')
    BY <1>1, <1>4, <1>6, <1>7 DEF Told
  <2>4. QED
    BY <2>1, <2>2, <2>3 DEF LoadedInv
<1>10. FinishingInv(p)'
  BY <1>4, <1>6 DEF FinishingInv
<1>11. SeenInv(p)'
  BY <1>3, SeenStands
<1>12. QED
  BY <1>2, <1>3, <1>4, <1>5, <1>9, <1>10, <1>11, SessionHolds DEF SyncInv

-----------------------------------------------------------------------------
\* A sync commits.  First the columns of completion.
LEMMA CommitRow ==
  ASSUME IInv, NEW p \in Sources, Commit(p)
  PROVE  LET old == sync[p].old
             result == sync[p].result
             row == result.row
         IN /\ rule' \in Row /\ rule'.media = rule.media
            /\ rule.live => rule'.live
            /\ rule.linked => rule'.linked
            /\ rule'.live => rule.live \/ row.live
            /\ row.live => rule'.live
            /\ result.evaluated /\ p = "stremio" => rule'.linked
            /\ rule'.sources = IF row.sources = old.sources THEN rule.sources ELSE row.sources
            /\ result.changed /\ ~sync[p].touched => rule' = row
            /\ ~result.changed => rule' = rule
<1> DEFINE old == sync[p].old
           result == sync[p].result
           row == result.row
<1>1. /\ sync[p].stage = "loaded"
      /\ rule' = IF result.changed THEN Written(rule, old, row) ELSE rule
  BY DEF Commit
<1>2. /\ rule \in Row /\ old \in Row /\ row \in Row
      /\ result.changed \in BOOLEAN
  BY DEF IInv, Types, Sessions, Outcomes
<1>3. /\ Sound(p, old, result)
      /\ old.media = rule.media
      /\ old.live => rule.live
      /\ old.linked => rule.linked
      /\ ~sync[p].touched => rule = old
  BY <1>1 DEF IInv, SyncInv, LoadedInv
<1>4. /\ row.media = old.media
      /\ old.live => row.live
      /\ old.linked => row.linked
      /\ result.evaluated => row.live /\ (p = "stremio" => row.linked)
      /\ ~result.changed => OnlyRemembers(old, row)
  BY <1>3 DEF Sound
<1> HIDE DEF old, result, row
<1>5. CASE result.changed
  <2> DEFINE w == Written(rule, old, row)
  <2>1. /\ w \in Row
        /\ w.live = IF row.live = old.live THEN rule.live ELSE row.live
        /\ w.media = IF row.media = old.media THEN rule.media ELSE row.media
        /\ w.sources = IF row.sources = old.sources THEN rule.sources ELSE row.sources
        /\ w.linked = IF row.linked = old.linked THEN rule.linked ELSE row.linked
        /\ rule = old => w = row
    BY <1>2, WrittenColumns
  <2>2. rule' = w
    BY <1>1, <1>5
  <2>3. /\ row.live \in BOOLEAN /\ old.live \in BOOLEAN /\ rule.live \in BOOLEAN
        /\ row.linked \in BOOLEAN /\ old.linked \in BOOLEAN /\ rule.linked \in BOOLEAN
    BY <1>2, Unchanged
  <2> HIDE DEF w
  <2>4. /\ rule.live => w.live
        /\ w.live => rule.live \/ row.live
        /\ row.live => w.live
    BY <1>3, <1>4, <2>1, <2>3
  <2>5. /\ rule.linked => w.linked
        /\ row.linked => w.linked
    BY <1>3, <1>4, <2>1, <2>3
  <2>6. QED
    BY <1>3, <1>4, <1>5, <2>1, <2>2, <2>4, <2>5 DEF old, result, row
<1>6. CASE ~result.changed
  <2>1. rule' = rule
    BY <1>1, <1>6
  <2>2. row.live = old.live /\ row.linked = old.linked /\ row.sources = old.sources
    BY <1>2, <1>4, <1>6 DEF OnlyRemembers, Row
  <2>3. QED
    BY <1>2, <1>3, <1>4, <1>6, <2>1, <2>2 DEF old, result, row
<1>7. QED
  BY <1>5, <1>6

\* The labels: each case of the mark OverwrittenBy leaves.
LEMMA CommitLabels ==
  ASSUME IInv, NEW p \in Sources, Commit(p), NEW q \in Sources, q \notin overwritten'
  PROVE  q \in rule'.sources <=> reported'[q] = "completed"
<1> DEFINE old == sync[p].old
           result == sync[p].result
           row == result.row
           writes  == row.sources # old.sources
           changed == rule.sources # old.sources
<1>1. rule'.sources = IF row.sources = old.sources THEN rule.sources ELSE row.sources
  BY CommitRow
<1>2. /\ overwritten' = IF writes /\ changed THEN (overwritten \ {p}) \cup {Other(p)}
                        ELSE IF writes \/ (result.evaluated /\ ~changed) THEN overwritten \ {p}
                        ELSE overwritten
      /\ reported' = IF result.evaluated
                     THEN [reported EXCEPT ![p] = IF result.completed THEN "completed" ELSE "open"]
                     ELSE reported
  BY DEF Commit, OverwrittenBy
<1>3. LoadedInv(p) /\ sync[p].stage = "loaded"
  BY DEF IInv, SyncInv, Commit
<1>4. /\ \A r \in Sources \ {p} : r \in row.sources <=> r \in old.sources
      /\ ~result.evaluated => row.sources = old.sources
      /\ result.evaluated => (p \in row.sources <=> result.completed)
  BY <1>3 DEF LoadedInv, Sound
<1>5. p \notin overwritten => (p \in old.sources <=> reported[p] = "completed")
  BY <1>3 DEF LoadedInv
<1>6. \A r \in Sources \ overwritten : r \in rule.sources <=> reported[r] = "completed"
  BY DEF IInv, RuleInv
<1>7. reported \in [Sources -> {"never", "open", "completed"}]
  BY DEF IInv, Types
<1>8. \A r \in Sources \ {p} : r = Other(p)
  BY OtherSource
<1> HIDE DEF old, result, row
<1>9. /\ result.evaluated => (reported'[p] = "completed" <=> result.completed)
      /\ ~result.evaluated => reported'[p] = reported[p]
      /\ \A r \in Sources \ {p} : reported'[r] = reported[r]
  BY <1>2, <1>7
<1>10. CASE q = p
  <2>1. CASE writes
    BY <1>1, <1>4, <1>9, <1>10, <2>1
  <2>2. CASE ~writes /\ result.evaluated /\ ~changed
    BY <1>1, <1>4, <1>9, <1>10, <2>2
  <2>3. CASE ~writes /\ result.evaluated /\ changed
    <3>1. p \notin overwritten
      BY <1>2, <1>10, <2>3
    <3>2. QED
      BY <1>1, <1>4, <1>5, <1>6, <1>9, <1>10, <2>3, <3>1
  <2>4. CASE ~writes /\ ~result.evaluated
    <3>1. p \notin overwritten
      BY <1>2, <1>10, <2>4
    <3>2. QED
      BY <1>1, <1>6, <1>9, <1>10, <2>4, <3>1
  <2>5. QED
    BY <2>1, <2>2, <2>3, <2>4
<1>11. CASE q # p
  <2>1. q \notin overwritten /\ ~(writes /\ changed)
    BY <1>2, <1>8, <1>11
  <2>2. CASE writes
    BY <1>1, <1>4, <1>6, <1>9, <1>11, <2>1, <2>2
  <2>3. CASE ~writes
    BY <1>1, <1>6, <1>9, <1>11, <2>1, <2>3
  <2>4. QED
    BY <2>2, <2>3
<1>12. QED
  BY <1>10, <1>11

LEMMA CommitRuleInv ==
  ASSUME IInv, NEW p \in Sources, Commit(p)
  PROVE  RuleInv' /\ CompletedDisables'
<1> DEFINE old == sync[p].old
           result == sync[p].result
           row == result.row
<1>1. /\ rule.live => rule'.live
      /\ rule.linked => rule'.linked
      /\ row.live => rule'.live
      /\ result.evaluated /\ p = "stremio" => rule'.linked
      /\ rule'.sources = IF row.sources = old.sources THEN rule.sources ELSE row.sources
      /\ result.changed /\ ~sync[p].touched => rule' = row
      /\ ~result.changed => rule' = rule
  BY CommitRow
<1>2. /\ reported' = IF result.evaluated
                     THEN [reported EXCEPT ![p] = IF result.completed THEN "completed" ELSE "open"]
                     ELSE reported
      /\ clean' = IF result.changed THEN result.evaluated /\ ~sync[p].touched
                  ELSE clean \/ (result.evaluated /\ ~sync[p].touched)
  BY DEF Commit
<1>3. LoadedInv(p) /\ sync[p].stage = "loaded" /\ RuleInv /\ CompletedDisables
  BY DEF IInv, SyncInv, Commit
<1>4. /\ ~result.evaluated => row.sources = old.sources
      /\ result.evaluated => /\ row.live
                             /\ row.sources # {} /\ ~row.keep => ~row.enabled
      /\ ~result.changed => OnlyRemembers(old, row)
      /\ ~sync[p].touched => rule = old
  BY <1>3 DEF LoadedInv, Sound
<1>5. /\ reported \in [Sources -> {"never", "open", "completed"}]
      /\ rule \in Row /\ old \in Row /\ row \in Row
  BY DEF IInv, Types, Sessions, Outcomes
<1>6. ~result.changed => /\ row.sources = old.sources /\ row.keep = old.keep
                         /\ row.enabled = old.enabled
  BY <1>4, <1>5 DEF OnlyRemembers, Row
<1> HIDE DEF old, result, row
<1>7. \A q \in Sources \ overwritten' : q \in rule'.sources <=> reported'[q] = "completed"
  BY CommitLabels
<1>8. ASSUME ~rule'.live
      PROVE  rule'.sources = {} /\ \A q \in Sources : reported'[q] = "never"
  <2>1. ~rule.live /\ ~result.evaluated
    BY <1>1, <1>4, <1>8
  <2>2. rule.sources = {} /\ \A q \in Sources : reported[q] = "never"
    BY <1>3, <2>1 DEF RuleInv
  <2>3. QED
    BY <1>1, <1>2, <1>4, <2>1, <2>2
<1>9. reported'["stremio"] # "never" => rule'.linked
  <2>1. CASE p = "stremio" /\ result.evaluated
    BY <1>1, <2>1
  <2>2. CASE ~(p = "stremio" /\ result.evaluated)
    <3>1. reported'["stremio"] = reported["stremio"]
      BY <1>2, <1>5, <2>2 DEF Sources
    <3>2. reported["stremio"] # "never" => rule.linked
      BY <1>3 DEF RuleInv
    <3>3. QED
      BY <1>1, <3>1, <3>2
  <2>3. QED
    BY <2>1, <2>2
<1>10. RuleInv'
  BY <1>7, <1>8, <1>9 DEF RuleInv
<1>11. ASSUME clean', rule'.live, rule'.sources # {}, ~rule'.keep
       PROVE  ~rule'.enabled
  <2>1. CASE result.changed
    <3>1. result.evaluated /\ ~sync[p].touched
      BY <1>2, <1>11, <2>1
    <3>2. rule' = row
      BY <1>1, <2>1, <3>1
    <3>3. QED
      BY <1>4, <1>11, <3>1, <3>2
  <2>2. CASE ~result.changed /\ clean
    <3>1. rule' = rule
      BY <1>1, <2>2
    <3>2. QED
      BY <1>3, <1>11, <2>2, <3>1 DEF CompletedDisables
  <2>3. CASE ~result.changed /\ ~clean
    <3>1. result.evaluated /\ ~sync[p].touched
      BY <1>2, <1>11, <2>3
    <3>2. rule' = rule /\ rule = old
      BY <1>1, <1>4, <2>3, <3>1
    <3>3. QED
      BY <1>4, <1>6, <1>11, <2>3, <3>1, <3>2
  <2>4. QED
    BY <2>1, <2>2, <2>3
<1>12. CompletedDisables'
  BY <1>11 DEF CompletedDisables
<1>13. QED
  BY <1>10, <1>12

\* The session that commits finishes with nothing but remembered episodes to write;
\* the other one is touched if it holds the row and the row changes.
LEMMA CommitSessions ==
  ASSUME IInv, NEW p \in Sources, Commit(p)
  PROVE  /\ sync' \in [Sources -> Sessions]
         /\ sync'[p].stage = "finishing" /\ sync'[p].fresh = sync[p].fresh
         /\ OnlyRemembers(sync'[p].old, sync'[p].result.row)
         /\ LET q == Other(p)
            IN /\ sync'[q].stage = sync[q].stage /\ sync'[q].fresh = sync[q].fresh
               /\ sync'[q].old = sync[q].old /\ sync'[q].result = sync[q].result
               /\ sync[q].touched => sync'[q].touched
               /\ sync[q].stage = "loaded" /\ rule' # rule => sync'[q].touched
<1> DEFINE result == sync[p].result
           fromScratch == [NoSync EXCEPT !.stage = "finishing", !.auto = sync[p].auto,
                                         !.fresh = sync[p].fresh]
           goesOn == [sync[p] EXCEPT !.stage = "finishing"]
           new == IF result.changed THEN fromScratch ELSE goesOn
           s == [sync EXCEPT ![p] = new]
           q == Other(p)
<1>1. sync \in [Sources -> Sessions] /\ sync[p] \in Sessions
  BY DEF IInv, Types
<1>2. LoadedInv(p) /\ sync[p].stage = "loaded"
  BY DEF IInv, SyncInv, Commit
<1>3. ~result.changed => OnlyRemembers(sync[p].old, result.row)
  BY <1>2 DEF LoadedInv, Sound
<1>4. /\ fromScratch \in Sessions /\ fromScratch.stage = "finishing"
      /\ fromScratch.fresh = sync[p].fresh
      /\ fromScratch.old = NoSync.old /\ fromScratch.result = NoSync.result
  BY <1>1, RestingSync DEF Sessions, Stages
<1>5. /\ goesOn \in Sessions /\ goesOn.stage = "finishing" /\ goesOn.fresh = sync[p].fresh
      /\ goesOn.old = sync[p].old /\ goesOn.result = result
  BY <1>1 DEF Sessions, Stages
<1> HIDE DEF fromScratch, goesOn
<1>6. /\ new \in Sessions /\ new.stage = "finishing" /\ new.fresh = sync[p].fresh
      /\ OnlyRemembers(new.old, new.result.row)
  BY <1>3, <1>4, <1>5, RestingSync
<1>7. sync' = Touched(s, p)
  BY <1>1 DEF Commit, fromScratch, goesOn
<1> HIDE DEF new
<1>8. q \in Sources /\ q # p
  BY OtherSource
<1>9. s \in [Sources -> Sessions] /\ s[p] = new /\ s[q] = sync[q]
  BY <1>1, <1>6, <1>8
<1> HIDE DEF s
<1>10. /\ sync' \in [Sources -> Sessions] /\ sync'[p] = s[p]
       /\ sync'[q].stage = s[q].stage /\ sync'[q].fresh = s[q].fresh
       /\ sync'[q].old = s[q].old /\ sync'[q].result = s[q].result
       /\ s[q].touched => sync'[q].touched
       /\ Holding(q) /\ rule' # rule => sync'[q].touched
  BY <1>7, <1>9, TouchedWritten
<1>11. sync[q].stage = "loaded" => Holding(q)
  BY DEF Holding
<1>12. QED
  BY <1>6, <1>9, <1>10, <1>11

LEMMA CommitHolds ==
  ASSUME IInv, NEW p \in Sources, Commit(p)
  PROVE  IInv'
<1> DEFINE result == sync[p].result
           q == Other(p)
<1>1. /\ rule' \in Row /\ rule'.media = rule.media
      /\ rule.live => rule'.live
      /\ rule.linked => rule'.linked
  BY CommitRow
<1>2. /\ sync' \in [Sources -> Sessions]
      /\ sync'[p].stage = "finishing" /\ sync'[p].fresh = sync[p].fresh
      /\ OnlyRemembers(sync'[p].old, sync'[p].result.row)
      /\ sync'[q].stage = sync[q].stage /\ sync'[q].fresh = sync[q].fresh
      /\ sync'[q].old = sync[q].old /\ sync'[q].result = sync[q].result
      /\ sync[q].touched => sync'[q].touched
      /\ sync[q].stage = "loaded" /\ rule' # rule => sync'[q].touched
  BY CommitSessions
<1>3. q \in Sources /\ q # p /\ \A r \in Sources : r = p \/ r = q
  BY OtherSource
<1> HIDE DEF q
<1>4. /\ reported \in [Sources -> {"never", "open", "completed"}]
      /\ overwritten \in SUBSET Sources /\ clean \in BOOLEAN
      /\ result.evaluated \in BOOLEAN
  BY DEF IInv, Types, Sessions, Outcomes
<1>5. /\ reported' = IF result.evaluated
                     THEN [reported EXCEPT ![p] = IF result.completed THEN "completed" ELSE "open"]
                     ELSE reported
      /\ UNCHANGED <<libraries, seen, silent, events>>
  BY DEF Commit
<1>6. /\ reported' \in [Sources -> {"never", "open", "completed"}]
      /\ result.evaluated => (reported'[p] = "completed" <=> result.completed)
      /\ ~result.evaluated => reported'[p] = reported[p]
      /\ reported'[q] = reported[q]
  BY <1>3, <1>4, <1>5
<1>7. overwritten' \in SUBSET Sources /\ (q \in overwritten => q \in overwritten')
  BY <1>3, <1>4 DEF Commit, OverwrittenBy, q
<1>8. clean' \in BOOLEAN
  BY <1>4 DEF Commit
<1>9. Types'
  BY <1>1, <1>2, <1>5, <1>6, <1>7, <1>8 DEF IInv, Types, libraries
<1>10. \A r \in Sources : (Told(r)' <=> Told(r)) /\ (SaysCompleted(r)' <=> SaysCompleted(r))
  BY <1>1, <1>5 DEF Told, SaysCompleted, libraries
<1>11. Kept(q)
  BY <1>1, <1>2, <1>3, <1>5, <1>6, <1>7, <1>10 DEF Kept
<1>12. SyncInv(q)'
  BY <1>3, <1>11, KeptHolds DEF IInv
<1>13. SyncInv(p)'
  <2>1. SyncInv(p) /\ sync[p].stage = "loaded"
    BY DEF IInv, Commit
  <2>2. /\ rule.media = "movie" /\ ~result.evaluated => reported[p] = "never"
        /\ Told(p) /\ (sync[p].fresh \/ seen[p]) /\ result.evaluated
             => (result.completed <=> SaysCompleted(p))
    BY <2>1 DEF SyncInv, LoadedInv
  <2>3. Told(p) /\ (sync[p].fresh \/ seen[p]) => ReportStands(p)'
    BY <1>6, <1>10, <2>2 DEF Told, ReportStands
  <2>4. SeenInv(p)'
    BY <1>5, <1>10, <2>3 DEF SeenInv
  <2>5. FinishingInv(p)'
    BY <1>2, <1>10, <2>3 DEF FinishingInv
  <2>6. LoadedInv(p)'
    BY <1>2 DEF LoadedInv
  <2>7. QED
    BY <2>4, <2>5, <2>6 DEF SyncInv
<1>14. RuleInv' /\ CompletedDisables'
  BY CommitRuleInv
<1>15. \A r \in Sources : SyncInv(r)'
  BY <1>3, <1>12, <1>13
<1>16. QED
  BY <1>9, <1>14, <1>15 DEF IInv

-----------------------------------------------------------------------------
\* The end of a sync, whatever it writes into the libraries: a mark it sets, or a
\* session keeps, is of a library that says what it said.
LEMMA RecordHolds ==
  ASSUME IInv, NEW p \in Sources, sync[p].stage = "finishing",
         NEW syncs \in [Sources -> Sessions], Record(p, syncs),
         syncs[Other(p)].stage = sync[Other(p)].stage,
         syncs[Other(p)].old = sync[Other(p)].old,
         syncs[Other(p)].result = sync[Other(p)].result,
         syncs[Other(p)].touched = sync[Other(p)].touched,
         UNCHANGED <<catalog, history, events>>,
         jellyfin' \in JellyfinLibrary, stremio' \in StremioLibrary, silent' \in SUBSET Sources,
         seen' \in [Sources -> BOOLEAN],
         Told(Other(p))' /\ syncs[Other(p)].fresh
           => /\ Told(Other(p)) /\ sync[Other(p)].fresh
              /\ SaysCompleted(Other(p))' <=> SaysCompleted(Other(p)),
         Told(Other(p))' /\ seen'[Other(p)]
           => Told(Other(p)) /\ seen[Other(p)] /\ (SaysCompleted(Other(p))' <=> SaysCompleted(Other(p))),
         Told(p)' /\ seen'[p]
           => Told(p) /\ (seen[p] \/ sync[p].fresh) /\ (SaysCompleted(p)' <=> SaysCompleted(p))
  PROVE  IInv'
<1> DEFINE q == Other(p)
<1>1. Types /\ FinishingInv(p) /\ SeenInv(p)
  BY DEF IInv, SyncInv
<1>2. /\ rule' \in Row
      /\ rule'.live = rule.live /\ rule'.media = rule.media
      /\ rule'.enabled = rule.enabled /\ rule'.sources = rule.sources
      /\ rule'.linked = rule.linked /\ rule'.keep = rule.keep
      /\ sync' \in [Sources -> Sessions] /\ sync'[p] = NoSync
      /\ sync'[q].stage = syncs[q].stage /\ sync'[q].fresh = syncs[q].fresh
      /\ sync'[q].old = syncs[q].old /\ sync'[q].result = syncs[q].result
      /\ syncs[q].touched => sync'[q].touched
      /\ sync[q].stage = "loaded" /\ rule' # rule => sync'[q].touched
  BY <1>1, RecordKeeps
<1>3. Types'
  BY <1>1, <1>2 DEF Types, history
<1>4. RuleInv' /\ CompletedDisables'
  BY <1>1, <1>2, <1>3, RuleHolds DEF IInv, history
<1>5. q \in Sources /\ \A r \in Sources : r = p \/ r = q
  BY OtherSource
<1>6. Kept(q)
  BY <1>2 DEF Kept, history
<1> HIDE DEF q
<1>7. SyncInv(q)'
  BY <1>5, <1>6, KeptHolds DEF IInv
<1>8. SyncInv(p)'
  <2>1. sync'[p].stage = "idle"
    BY <1>2, RestingSync
  <2>2. Told(p) /\ (seen[p] \/ sync[p].fresh) => ReportStands(p)
    BY <1>1 DEF SeenInv, FinishingInv
  <2>3. reported' = reported
    BY DEF history
  <2>4. SeenInv(p)'
    BY <2>2, <2>3 DEF SeenInv, ReportStands
  <2>5. QED
    BY <2>1, <2>4, RestingHolds
<1>9. QED
  BY <1>3, <1>4, <1>5, <1>7, <1>8 DEF IInv

LEMMA SeenAfterTypes ==
  ASSUME IInv, NEW p \in Sources
  PROVE  /\ SeenAfter(p) \in [Sources -> BOOLEAN]
         /\ SeenAfter(p)[p] => seen[p] \/ sync[p].fresh
         /\ \A q \in Sources \ {p} : SeenAfter(p)[q] = seen[q]
<1>1. seen \in [Sources -> BOOLEAN] /\ sync[p] \in Sessions
  BY DEF IInv, Types
<1>2. sync[p].fresh \in BOOLEAN
  BY <1>1 DEF Sessions
<1>3. QED
  BY <1>1, <1>2 DEF SeenAfter

LEMMA FinishHolds ==
  ASSUME IInv, NEW p \in Sources, Finish(p)
  PROVE  IInv'
<1>1. /\ sync[p].stage = "finishing" /\ Record(p, sync) /\ seen' = SeenAfter(p)
      /\ UNCHANGED <<libraries, history, silent, events>>
  BY DEF Finish
<1>2. Types /\ FinishingInv(p) /\ sync \in [Sources -> Sessions]
  BY DEF IInv, Types, SyncInv
<1>3. rule'.media = rule.media
  BY <1>1, <1>2, RecordKeeps
<1>4. \A r \in Sources : (Told(r)' <=> Told(r)) /\ (SaysCompleted(r)' <=> SaysCompleted(r))
  BY <1>1, <1>3 DEF Told, SaysCompleted, libraries
<1>5. /\ Other(p) \in Sources \ {p}
      /\ jellyfin' \in JellyfinLibrary /\ stremio' \in StremioLibrary /\ silent' \in SUBSET Sources
      /\ UNCHANGED <<catalog, history, events>>
  BY <1>1, <1>2, OtherSource DEF Types, libraries
<1>6. QED
  BY <1>1, <1>2, <1>4, <1>5, SeenAfterTypes, RecordHolds

\* Jellyfin's state after the winner's is written.
LEMMA FinishIntoJellyfinHolds ==
  ASSUME IInv, NEW p \in Sources, NEW item \in Episodes, NEW moves \in BOOLEAN,
         FinishIntoJellyfin(p, item, moves)
  PROVE  IInv'
<1>0. "jellyfin" \in Sources
  BY DEF Sources
<1> DEFINE b == sync["jellyfin"].fresh /\ ~moves
           syncs == [sync EXCEPT !["jellyfin"].fresh = b]
           q == Other(p)
<1>1. /\ sync[p].stage = "finishing" /\ Record(p, syncs)
      /\ seen' = [SeenAfter(p) EXCEPT !["jellyfin"] = @ /\ ~moves]
      /\ silent' = SilentAfter("jellyfin", moves)
      /\ UNCHANGED <<stremio, catalog, history, events>>
  BY DEF FinishIntoJellyfin
<1>2. Types /\ FinishingInv(p) /\ sync \in [Sources -> Sessions]
  BY DEF IInv, Types, SyncInv
<1>3. b \in BOOLEAN /\ (moves => ~b)
  OBVIOUS
<1> HIDE DEF b
<1>11. /\ syncs \in [Sources -> Sessions] /\ syncs["jellyfin"].fresh = b
       /\ \A r \in Sources :
            /\ syncs[r].stage = sync[r].stage /\ syncs[r].touched = sync[r].touched
            /\ syncs[r].old = sync[r].old /\ syncs[r].result = sync[r].result
            /\ r # "jellyfin" => syncs[r].fresh = sync[r].fresh
  BY <1>0, <1>2, <1>3, FreshWritten
<1> HIDE DEF syncs
<1>4. rule'.media = rule.media
  BY <1>1, <1>2, <1>11, RecordKeeps
<1>5. jellyfin' \in JellyfinLibrary
  <2>1. jellyfin \in JellyfinLibrary /\ item \in jellyfin.items
    BY <1>2 DEF Types, FinishIntoJellyfin
  <2>2. PICK watched \in SUBSET jellyfin.items :
          jellyfin' = [jellyfin EXCEPT !.watched = watched]
    <3>1. /\ jellyfin.watched \cup {item} \in SUBSET jellyfin.items
          /\ jellyfin.watched \ {item} \in SUBSET jellyfin.items
      BY <2>1 DEF JellyfinLibrary
    <3>2. QED
      BY <3>1 DEF FinishIntoJellyfin
  <2>3. QED
    BY <2>1, <2>2 DEF JellyfinLibrary
<1>6. /\ seen' \in [Sources -> BOOLEAN] /\ (moves => ~seen'["jellyfin"])
      /\ \A r \in Sources \ {"jellyfin"} : seen'[r] = SeenAfter(p)[r]
  BY <1>0, <1>1, SeenAfterTypes
<1>7. \A r \in Sources \ {"jellyfin"} : (Told(r)' <=> Told(r)) /\ (SaysCompleted(r)' <=> SaysCompleted(r))
  BY <1>1, <1>4 DEF Told, SaysCompleted, SilentAfter
<1>8. Told("jellyfin")' => moves
  BY <1>1 DEF Told, SilentAfter
<1>9. q \in Sources \ {p} /\ stremio' \in StremioLibrary /\ silent' \in SUBSET Sources
  <2>1. silent \in SUBSET Sources /\ stremio \in StremioLibrary
    BY <1>2 DEF Types
  <2>2. silent' \in SUBSET Sources
    BY <1>0, <1>1, <2>1 DEF SilentAfter
  <2>3. QED
    BY <1>1, <2>1, <2>2, OtherSource
<1>10. ASSUME NEW r \in Sources, Told(r)', syncs[r].fresh \/ seen'[r]
       PROVE  r # "jellyfin"
  BY <1>3, <1>11, <1>6, <1>8, <1>10
<1>12. /\ Told(q)' /\ syncs[q].fresh => Told(q) /\ sync[q].fresh /\ (SaysCompleted(q)' <=> SaysCompleted(q))
       /\ Told(q)' /\ seen'[q] => Told(q) /\ seen[q] /\ (SaysCompleted(q)' <=> SaysCompleted(q))
       /\ Told(p)' /\ seen'[p] => Told(p) /\ (seen[p] \/ sync[p].fresh) /\ (SaysCompleted(p)' <=> SaysCompleted(p))
  BY <1>11, <1>6, <1>7, <1>9, <1>10, SeenAfterTypes
<1>13. QED
  BY <1>1, <1>11, <1>5, <1>6, <1>9, <1>12, RecordHolds

\* Stremio's state after the winner's is written with all else Jellyfin has
\* completed, in whatever order.
LEMMA IntoStremioTypes ==
  ASSUME IInv, NEW item \in jellyfin.items,
         NEW order \in SetToSeqs(jellyfin.watched \cup {item})
  PROVE  IntoStremio(order) \in StremioLibrary
<1> DEFINE S == jellyfin.watched \cup {item}
           known == IF rule.media = "series" THEN catalog.known ELSE {Movie}
           bits == BitsAfter(stremio.watched, known, order)
           flag == stremio.bitfield \/ ToSet(order) \cap known # {}
           playing == IF rule.media = "series" THEN Last(order) ELSE stremio.playing
<1>1. S \in SUBSET Episodes /\ S # {} /\ stremio \in StremioLibrary
  BY DEF IInv, Types, JellyfinLibrary
<1>2. known \in SUBSET Episodes
  BY WatchSyncAssumption, WatchInputsAssumption
     DEF IInv, Types, WatchSyncAssumption, WatchInputsAssumption
<1>3. IsFiniteSet(S)
  <2>1. S \in SUBSET Episode
    BY <1>1, WatchSyncAssumption DEF WatchSyncAssumption
  <2> HIDE DEF S
  <2>2. QED
    BY <2>1, EpisodesFinite
<1>4. PICK n \in Nat : n = Cardinality(S) /\ n # 0
  BY <1>1, <1>3, FS_CardinalityType, FS_EmptySet
<1>5. order \in [1 .. n -> S]
  BY <1>4 DEF SetToSeqs
<1> HIDE DEF S
<1>6. Len(order) = n /\ \A i \in 1 .. n : order[i] \in S
  BY <1>5
<1>7. Last(order) \in Episodes
  BY <1>1, <1>4, <1>6 DEF Last
<1>8. /\ bits \in SUBSET Episodes
      /\ (\A i \in 1 .. n : order[i] \notin known) => bits = stremio.watched
  <2>1. stremio.watched \in SUBSET Episodes
    BY <1>1 DEF StremioLibrary
  <2> HIDE DEF known
  <2>2. QED
    BY <1>2, <1>6, <2>1, BitsAfterTypes
<1>9. ToSet(order) \cap known = {} => \A i \in 1 .. n : order[i] \notin known
  BY <1>5 DEF ToSet
<1>10. IntoStremio(order) = [stremio EXCEPT !.bitfield = flag, !.playing = playing,
                                            !.watched = bits]
  BY DEF IntoStremio
<1>11. bits # {} => flag
  BY <1>1, <1>8, <1>9 DEF StremioLibrary
<1>12. flag \in BOOLEAN /\ playing \in Episodes \cup {None}
  BY <1>1, <1>7 DEF StremioLibrary
<1> HIDE DEF known, bits, flag, playing
<1>13. QED
  BY <1>1, <1>8, <1>10, <1>11, <1>12 DEF StremioLibrary

LEMMA FinishIntoStremioHolds ==
  ASSUME IInv, NEW p \in Sources, NEW item \in Episodes, NEW moves \in BOOLEAN,
         FinishIntoStremio(p, item, moves)
  PROVE  IInv'
<1>0. "stremio" \in Sources
  BY DEF Sources
<1> DEFINE b == sync["stremio"].fresh /\ ~moves
           syncs == [sync EXCEPT !["stremio"].fresh = b]
           q == Other(p)
<1>1. /\ sync[p].stage = "finishing" /\ Record(p, syncs)
      /\ seen' = [SeenAfter(p) EXCEPT !["stremio"] = @ /\ ~moves]
      /\ silent' = SilentAfter("stremio", moves)
      /\ UNCHANGED <<jellyfin, catalog, history, events>>
  BY DEF FinishIntoStremio
<1>2. Types /\ FinishingInv(p) /\ sync \in [Sources -> Sessions]
  BY DEF IInv, Types, SyncInv
<1>3. b \in BOOLEAN /\ (moves => ~b)
  OBVIOUS
<1> HIDE DEF b
<1>4. /\ syncs \in [Sources -> Sessions] /\ syncs["stremio"].fresh = b
      /\ \A r \in Sources :
           /\ syncs[r].stage = sync[r].stage /\ syncs[r].touched = sync[r].touched
           /\ syncs[r].old = sync[r].old /\ syncs[r].result = sync[r].result
           /\ r # "stremio" => syncs[r].fresh = sync[r].fresh
  BY <1>0, <1>2, <1>3, FreshWritten
<1> HIDE DEF syncs
<1>5. rule'.media = rule.media
  BY <1>1, <1>2, <1>4, RecordKeeps
<1>6. stremio' \in StremioLibrary
  <2>1. item \in jellyfin.items
    BY DEF FinishIntoStremio
  <2>2. PICK order \in SetToSeqs(jellyfin.watched \cup {item}) : stremio' = IntoStremio(order)
    BY DEF FinishIntoStremio
  <2>3. QED
    BY <2>1, <2>2, IntoStremioTypes
<1>7. /\ seen' \in [Sources -> BOOLEAN] /\ (moves => ~seen'["stremio"])
      /\ \A r \in Sources \ {"stremio"} : seen'[r] = SeenAfter(p)[r]
  BY <1>0, <1>1, SeenAfterTypes
<1>8. \A r \in Sources \ {"stremio"} : (Told(r)' <=> Told(r)) /\ (SaysCompleted(r)' <=> SaysCompleted(r))
  BY <1>1, <1>5 DEF Told, SaysCompleted, Sources, SilentAfter
<1>9. Told("stremio")' => moves
  BY <1>1 DEF Told, SilentAfter
<1>10. q \in Sources \ {p} /\ jellyfin' \in JellyfinLibrary /\ silent' \in SUBSET Sources
  <2>1. silent \in SUBSET Sources /\ jellyfin \in JellyfinLibrary
    BY <1>2 DEF Types
  <2>2. silent' \in SUBSET Sources
    BY <1>0, <1>1, <2>1 DEF SilentAfter
  <2>3. QED
    BY <1>1, <2>1, <2>2, OtherSource
<1>11. ASSUME NEW r \in Sources, Told(r)', syncs[r].fresh \/ seen'[r]
       PROVE  r # "stremio"
  BY <1>3, <1>4, <1>7, <1>9, <1>11
<1>12. /\ Told(q)' /\ syncs[q].fresh => Told(q) /\ sync[q].fresh /\ (SaysCompleted(q)' <=> SaysCompleted(q))
       /\ Told(q)' /\ seen'[q] => Told(q) /\ seen[q] /\ (SaysCompleted(q)' <=> SaysCompleted(q))
       /\ Told(p)' /\ seen'[p] => Told(p) /\ (seen[p] \/ sync[p].fresh) /\ (SaysCompleted(p)' <=> SaysCompleted(p))
  BY <1>4, <1>7, <1>8, <1>10, <1>11, SeenAfterTypes
<1>13. QED
  BY <1>1, <1>4, <1>6, <1>7, <1>10, <1>12, RecordHolds

-----------------------------------------------------------------------------
LEMMA StepKeeps == IInv /\ [Next]_vars => IInv'
<1> SUFFICES ASSUME IInv, [Next]_vars PROVE IInv'
  OBVIOUS
<1>1. CASE World
  BY <1>1, JellyfinChangesHolds, StremioChangesHolds, CatalogChangesHolds DEF World
<1>2. CASE User
  BY <1>2, SaveFormHolds, BeginsHolds DEF User
<1>3. CASE Crash
  BY <1>3, CrashHolds
<1>4. ASSUME NEW p \in Sources, Tick(p) PROVE IInv'
  BY <1>4, BeginsHolds
<1>5. ASSUME NEW p \in Sources, Step(p) PROVE IInv'
  BY <1>5, LoadHolds, CommitHolds, FinishHolds DEF Step
<1>6. ASSUME NEW p \in Sources, Fails(p) PROVE IInv'
  BY <1>6, FailsHolds
<1>7. ASSUME NEW p \in Sources, NEW item \in Episodes, NEW moves \in BOOLEAN,
             FinishIntoStremio(p, item, moves)
      PROVE  IInv'
  BY <1>7, FinishIntoStremioHolds
<1>8. ASSUME NEW p \in Sources, NEW item \in Episodes, NEW moves \in BOOLEAN,
             FinishIntoJellyfin(p, item, moves)
      PROVE  IInv'
  BY <1>8, FinishIntoJellyfinHolds
<1>9. CASE UNCHANGED vars
  <2>1. Types' /\ RuleInv' /\ CompletedDisables'
    BY <1>9 DEF IInv, Types, RuleInv, CompletedDisables, vars
  <2>2. ASSUME NEW p \in Sources PROVE Kept(p)
    BY <1>9 DEF Kept, Told, SaysCompleted, vars
  <2>3. QED
    BY <2>1, <2>2, KeptHolds DEF IInv
<1>10. QED
  BY <1>1, <1>2, <1>3, <1>4, <1>5, <1>6, <1>7, <1>8, <1>9 DEF Next

\* The invariant holds in every reachable state.
THEOREM WatchInvariance == Spec => []IInv
<1>1. Init => IInv
  BY InitHolds
<1>2. IInv /\ [Next]_vars => IInv'
  BY StepKeeps
<1>3. QED
  BY <1>1, <1>2, PTL DEF Spec

\* Every column keeps its type, the libraries theirs, after any writes into them.
THEOREM WatchTypes == Spec => []TypeOK
BY WatchInvariance, InvariantImpliesTypes, PTL

\* A rule that a sync nobody disturbed has looked at obeys all evidence of completion,
\* whichever provider gave it and whichever came last.
THEOREM CompletedIsDisabled == Spec => []CompletedDisables
<1>1. IInv => CompletedDisables
  BY DEF IInv
<1>2. QED
  BY <1>1, WatchInvariance, PTL

\* The labels of a row are what the providers last reported, except one that the
\* other provider's older view was written over.
THEOREM LabelsAreReports == Spec => []EvidenceKept
BY WatchInvariance, InvariantImpliesEvidence, PTL

\* No change of a movie's library that moves its mark slips between the mark and the
\* read of a sync.
THEOREM MarksAreTrue == Spec => []SeenMeansReported
BY WatchInvariance, InvariantImpliesSeen, PTL

-----------------------------------------------------------------------------
\* Which steps change the columns an action property speaks of.
LEMMA OnlyCommitsEnable ==
  ASSUME IInv, [Next]_vars, ~rule.enabled, rule'.enabled, events' = events
  PROVE  \E p \in Sources : Commit(p)
<1>1. events' # events + 1
  BY DEF IInv, Types
<1>2. ~World /\ ~User /\ ~Crash /\ \A p \in Sources : ~Fails(p)
  BY <1>1 DEF World, User, Crash, Fails, JellyfinChanges, StremioChanges, CatalogChanges,
              SaveForm, ManualSync, Outside
<1>3. ~UNCHANGED vars
  BY DEF vars
<1>4. ASSUME NEW p \in Sources PROVE ~Tick(p) /\ ~Load(p)
  BY DEF Tick, Load
<1>5. ASSUME NEW p \in Sources, NEW syncs \in [Sources -> Sessions],
             sync[p].stage = "finishing", Record(p, syncs)
      PROVE  FALSE
  <2>1. Types /\ FinishingInv(p)
    BY DEF IInv, SyncInv
  <2>2. rule'.enabled = rule.enabled
    BY <1>5, <2>1, RecordKeeps
  <2>3. QED
    BY <2>2
<1>6. sync \in [Sources -> Sessions] /\ {"jellyfin", "stremio"} \subseteq Sources
  BY DEF IInv, Types, Sources
<1>7. \A p \in Sources, b \in BOOLEAN : [sync EXCEPT ![p].fresh = b] \in [Sources -> Sessions]
  BY <1>6, FreshWritten
<1>8. ASSUME NEW p \in Sources PROVE ~Finish(p)
  BY <1>5, <1>6 DEF Finish
<1>9. ASSUME NEW p \in Sources, NEW item \in Episodes, NEW moves \in BOOLEAN
      PROVE  ~FinishIntoStremio(p, item, moves)
  <2> DEFINE b == sync["stremio"].fresh /\ ~moves
             syncs == [sync EXCEPT !["stremio"].fresh = b]
  <2>1. b \in BOOLEAN
    OBVIOUS
  <2>2. FinishIntoStremio(p, item, moves) => sync[p].stage = "finishing" /\ Record(p, syncs)
    BY DEF FinishIntoStremio
  <2> HIDE DEF b
  <2>3. syncs \in [Sources -> Sessions]
    BY <1>6, <1>7, <2>1
  <2> HIDE DEF syncs
  <2>4. QED
    BY <1>5, <2>2, <2>3
<1>10. ASSUME NEW p \in Sources, NEW item \in Episodes, NEW moves \in BOOLEAN
       PROVE  ~FinishIntoJellyfin(p, item, moves)
  <2> DEFINE b == sync["jellyfin"].fresh /\ ~moves
             syncs == [sync EXCEPT !["jellyfin"].fresh = b]
  <2>1. b \in BOOLEAN
    OBVIOUS
  <2>2. FinishIntoJellyfin(p, item, moves) => sync[p].stage = "finishing" /\ Record(p, syncs)
    BY DEF FinishIntoJellyfin
  <2> HIDE DEF b
  <2>3. syncs \in [Sources -> Sessions]
    BY <1>6, <1>7, <2>1
  <2> HIDE DEF syncs
  <2>4. QED
    BY <1>5, <2>2, <2>3
<1>11. QED
  BY <1>2, <1>3, <1>4, <1>8, <1>9, <1>10 DEF Next, Step

LEMMA ReasonGiven ==
  ASSUME IInv, [Next]_vars, rule.live, ~rule.enabled, rule'.enabled, events' = events
  PROVE  \E p \in Sources :
           LET old == sync[p].old
           IN /\ sync[p].stage = "loaded"
              /\ \/ old.auto \/ old.legacy \/ old.sauto \/ sync[p].touched
                 \/ /\ p = "stremio" /\ ~old.auto
                    /\ ~(old.media = "movie" /\ sync[p].result.completed)
<1>1. PICK p \in Sources : Commit(p)
  BY OnlyCommitsEnable
<1> DEFINE old == sync[p].old
           result == sync[p].result
           row == result.row
<1>2. /\ sync[p].stage = "loaded"
      /\ result.changed /\ ~sync[p].touched => rule' = row
      /\ ~result.changed => rule' = rule
  BY <1>1, CommitRow DEF Commit
<1>3. /\ Sound(p, old, result)
      /\ ~sync[p].touched => rule = old
  BY <1>2 DEF IInv, SyncInv, LoadedInv
<1>4. CASE ~sync[p].touched
  <2>1. old.live /\ ~old.enabled /\ row.enabled
    BY <1>2, <1>3, <1>4
  <2>2. HasReason(p, old, result)
    BY <1>3, <2>1 DEF Sound
  <2>3. QED
    BY <1>2, <2>2 DEF HasReason
<1>5. CASE sync[p].touched
  BY <1>2, <1>5
<1>6. QED
  BY <1>4, <1>5

\* A sync enables a rule only for one of the reasons of EnabledForAReason.
THEOREM ReasonToEnable == Spec => EnabledForAReason
<1>1. IInv /\ [Next]_vars
        => [rule.live /\ ~rule.enabled /\ rule'.enabled /\ events' = events
             => \E p \in Sources :
                  LET old == sync[p].old
                  IN /\ sync[p].stage = "loaded"
                     /\ \/ old.auto \/ old.legacy \/ old.sauto \/ sync[p].touched
                        \/ /\ p = "stremio" /\ ~old.auto
                           /\ ~(old.media = "movie" /\ sync[p].result.completed)]_vars
  BY ReasonGiven
<1>2. QED
  BY <1>1, WatchInvariance, PTL DEF Spec, EnabledForAReason

\* The steps that write the row, when Jellyfin's sync has loaded it.
LEMMA FloorIsHeld ==
  ASSUME IInv, [Next]_vars, sync["jellyfin"].stage = "loaded", ~sync["jellyfin"].touched,
         sync'["jellyfin"].stage # "loaded"
  PROVE  FloorHeld(rule, rule')
<1>0. /\ "jellyfin" \in Sources /\ "stremio" \in Sources /\ Types
      /\ rule \in Row /\ sync \in [Sources -> Sessions]
  BY DEF IInv, Types, Sources
<1>1. CASE rule' = rule
  BY <1>0, <1>1, Unchanged
<1>2. ASSUME NEW p \in Sources, Commit(p) PROVE FloorHeld(rule, rule')
  <2>1. CASE p = "jellyfin"
    <3> DEFINE old == sync[p].old
               result == sync[p].result
    <3>1. /\ result.changed => rule' = result.row
          /\ ~result.changed => rule' = rule
      BY <1>2, <2>1, CommitRow
    <3>2. Sound(p, old, result) /\ rule = old
      BY <2>1 DEF IInv, SyncInv, LoadedInv
    <3>3. FloorHeld(old, result.row)
      BY <2>1, <3>2 DEF Sound
    <3>4. QED
      BY <1>1, <3>1, <3>2, <3>3
  <2>2. CASE p = "stremio"
    <3>1. Other(p) = "jellyfin"
      BY <1>0, <2>2, OtherSource
    <3>2. sync'["jellyfin"].stage = sync["jellyfin"].stage
      BY <1>2, <3>1, CommitSessions
    <3>3. QED
      BY <3>2
  <2>3. QED
    BY <2>1, <2>2 DEF Sources
<1>3. ASSUME NEW p \in Sources, NEW syncs \in [Sources -> Sessions],
             sync[p].stage = "finishing", Record(p, syncs)
      PROVE  FloorHeld(rule, rule')
  <2>1. FinishingInv(p)
    BY DEF IInv, SyncInv
  <2>2. rule'.season = rule.season /\ rule'.episode = rule.episode
    BY <1>0, <1>3, <2>1, RecordKeeps
  <2>3. RuleFloor(rule') = RuleFloor(rule)
    BY <2>2 DEF RuleFloor
  <2>4. FloorHeld(rule, rule)
    BY <1>0, Unchanged
  <2>5. QED
    BY <2>3, <2>4 DEF FloorHeld
<1>4. \A p \in Sources, b \in BOOLEAN : [sync EXCEPT ![p].fresh = b] \in [Sources -> Sessions]
  BY <1>0, FreshWritten
<1>5. ASSUME NEW p \in Sources, NEW item \in Episodes, NEW moves \in BOOLEAN,
             FinishIntoStremio(p, item, moves)
      PROVE  FloorHeld(rule, rule')
  <2> DEFINE b == sync["stremio"].fresh /\ ~moves
             syncs == [sync EXCEPT !["stremio"].fresh = b]
  <2>1. b \in BOOLEAN
    OBVIOUS
  <2>2. sync[p].stage = "finishing" /\ Record(p, syncs)
    BY <1>5 DEF FinishIntoStremio
  <2> HIDE DEF b
  <2>3. syncs \in [Sources -> Sessions]
    BY <1>0, <1>4, <2>1
  <2> HIDE DEF syncs
  <2>4. QED
    BY <1>3, <2>2, <2>3
<1>6. ASSUME NEW p \in Sources, NEW item \in Episodes, NEW moves \in BOOLEAN,
             FinishIntoJellyfin(p, item, moves)
      PROVE  FloorHeld(rule, rule')
  <2> DEFINE b == sync["jellyfin"].fresh /\ ~moves
             syncs == [sync EXCEPT !["jellyfin"].fresh = b]
  <2>1. b \in BOOLEAN
    OBVIOUS
  <2>2. sync[p].stage = "finishing" /\ Record(p, syncs)
    BY <1>6 DEF FinishIntoJellyfin
  <2> HIDE DEF b
  <2>3. syncs \in [Sources -> Sessions]
    BY <1>0, <1>4, <2>1
  <2> HIDE DEF syncs
  <2>4. QED
    BY <1>3, <2>2, <2>3
<1>7. ASSUME NEW p \in Sources, Finish(p) PROVE FloorHeld(rule, rule')
  BY <1>0, <1>3, <1>7 DEF Finish
<1>8. ASSUME NEW posted \in Forms, SaveForm(posted) PROVE FALSE
  <2>1. sync'["jellyfin"] = IF Holding("jellyfin")
                            THEN [sync["jellyfin"] EXCEPT !.touched = TRUE] ELSE sync["jellyfin"]
    BY <1>0, <1>8 DEF SaveForm
  <2>2. sync["jellyfin"] \in Sessions
    BY <1>0
  <2> HIDE DEF Holding
  <2>3. sync'["jellyfin"].stage = sync["jellyfin"].stage
    BY <2>1, <2>2 DEF Sessions
  <2>4. QED
    BY <2>3
<1>9. CASE World \/ Crash \/ UNCHANGED vars
  BY <1>1, <1>9 DEF World, Crash, JellyfinChanges, StremioChanges, CatalogChanges, vars
<1>10. ASSUME NEW p \in Sources, ManualSync(p) \/ Tick(p) \/ Load(p) \/ Fails(p)
       PROVE  rule' = rule
  BY <1>10 DEF ManualSync, Tick, Load, Fails
<1>11. QED
  BY <1>1, <1>2, <1>5, <1>6, <1>7, <1>8, <1>9, <1>10 DEF Next, User, Step

\* Jellyfin's sync of a rule that nobody else writes meanwhile never moves its floor
\* back, except from SxxE00 into the season before: also when it fails or is lost.
THEOREM FloorNeverFalls == Spec => FloorKept
<1>1. IInv /\ [Next]_vars
        => [LET jf == sync["jellyfin"]
            IN jf.stage = "loaded" /\ ~jf.touched /\ sync'["jellyfin"].stage # "loaded"
                 => \/ RuleFloor(rule') >= RuleFloor(rule)
                    \/ IsNextSeasonStart(RuleFloor(rule), RuleFloor(rule'))]_vars
  BY FloorIsHeld DEF FloorHeld
<1>2. QED
  BY <1>1, WatchInvariance, PTL DEF Spec, FloorKept

=============================================================================
