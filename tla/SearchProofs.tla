---------------------------- MODULE SearchProofs ----------------------------
(***************************************************************************)
(* What becomes of a search result: when grouping loses a row or shows a   *)
(* torrent twice, where the pattern, the filter and the plan agree and     *)
(* where they part, the counts the cache keeps are those of the rows it    *)
(* keeps, and overlapping selections leave a torrent with files that were  *)
(* asked for.                                                              *)
(***************************************************************************)
EXTENDS ResultMerge, SelectiveQueue, ReleaseCache, TLAPS

-----------------------------------------------------------------------------
(* ResultMerge: which rows a result holds, whatever the rows are: rows of    *)
(* one hash may have any titles and sizes.                                   *)

FaceSignature(k) == SignatureOf[groups[k].face]

\* Only hashes are bridged to, and a group with another key knows no hash.
HashesBridged ==
    /\ \A s \in Signatures : bridge[s] # NoKey => bridge[s] \in Hashes
    /\ \A k \in Others : Exists(k) =>
         /\ groups[k].hash = NoHash
         /\ \A r \in groups[k].rows : HashOf[r] = NoHash

\* The signatures of a torrent.
SignaturesOf(h) == {SignatureOf[r] : r \in {q \in Rows : HashOf[q] = h}} \ {NoSignature}

\* The signatures of a torrent are bridged to its hash only, and it has all that are; ...
BridgesOf(h) ==
    /\ \A s \in SignaturesOf(h) : bridge[s] \in {NoKey, h}
    /\ \A s \in Signatures : bridge[s] = h => s \in SignaturesOf(h)

\* ... the faces with its signatures are in its group, and the face there is one of
\* its rows or has a signature of it; ...
FacesOf(h) ==
    /\ \A k \in Hashes : Exists(k) /\ FaceSignature(k) \in SignaturesOf(h) => k = h
    /\ Exists(h) => HashOf[groups[h].face] = h \/ FaceSignature(h) \in SignaturesOf(h)

\* ... and so are its rows, with no row of another hash.
RowsOf(h) ==
    \A k \in Keys : Exists(k) => \A r \in groups[k].rows :
      /\ HashOf[r] = h => k = h
      /\ k = h => HashOf[r] \in {h, NoHash}

TorrentInv(h) == BridgesOf(h) /\ FacesOf(h) /\ RowsOf(h)

MergeInv == /\ MergeTypeOK
            /\ HashesBridged
            /\ \A h \in Hashes : LooksLikeAnother(h) \/ TorrentInv(h)

LEMMA KeyOfType ==
    ASSUME ResultsOK, NEW r \in Rows
    PROVE  /\ KeyOf(r) \in Keys /\ KeyOf(r) # NoKey
           /\ HashOf[r] # NoHash => HashOf[r] \in Hashes /\ KeyOf(r) = HashOf[r]
           /\ HashOf[r] = NoHash => KeyOf(r) \in Others /\ KeyOf(r) \notin Hashes
  BY DEF ResultsOK, KeyOf, Keys

\* What a row does to the group it joins.
LEMMA JoinedGroup ==
    ASSUME ResultsOK, NEW r \in Rows, NEW g \in Group \cup {NoGroup}
    PROVE  /\ Joined(g, r) \in Group /\ Joined(g, r) # NoGroup
           /\ g = NoGroup => Joined(g, r) = [face |-> r, hash |-> HashOf[r], rows |-> {r}]
           /\ g # NoGroup => /\ Joined(g, r).rows = g.rows \cup {r}
                             /\ \/ Joined(g, r).face = r /\ Joined(g, r).hash = HashOf[r]
                                \/ Joined(g, r).face = g.face /\ Joined(g, r).hash = g.hash
  <1>1. CASE g = NoGroup
    BY <1>1 DEF ResultsOK, Joined, Group
  <1>2. CASE g # NoGroup
    <2>1. g \in Group
      BY <1>2
    <2>2. CASE RankOf[r] > RankOf[g.face]
      BY <1>2, <2>1, <2>2 DEF ResultsOK, Joined, Group
    <2>3. CASE ~(RankOf[r] > RankOf[g.face])
      <3>1. Joined(g, r) = [g EXCEPT !.rows = @ \cup {r}]
        BY <1>2, <2>3 DEF Joined
      <3> QED
        BY <1>2, <2>1, <3>1 DEF ResultsOK, Group
    <2> QED
      BY <2>2, <2>3
  <1> QED
    BY <1>1, <1>2

\* A row joins the group under a key, or becomes it.
LEMMA JoinsOne ==
    ASSUME ResultsOK, MergeTypeOK, NEW r \in Rows, NEW k \in Keys, JoinsAt(k, r)
    PROVE  /\ groups' \in [Keys -> Group \cup {NoGroup}]
           /\ \A l \in Keys : l # k => groups'[l] = groups[l]
           /\ groups'[k] # NoGroup /\ r \in groups'[k].rows
           /\ \A q \in groups'[k].rows : q = r \/ (Exists(k) /\ q \in groups[k].rows)
           /\ Exists(k) => groups[k].rows \subseteq groups'[k].rows
           /\ \/ groups'[k].face = r /\ groups'[k].hash = HashOf[r]
              \/ Exists(k) /\ groups'[k].face = groups[k].face /\ groups'[k].hash = groups[k].hash
  <1>1. groups \in [Keys -> Group \cup {NoGroup}] /\ groups[k] \in Group \cup {NoGroup}
    BY DEF MergeTypeOK
  <1>2. groups'[k] = Joined(groups[k], r) /\ \A l \in Keys : l # k => groups'[l] = groups[l]
    BY <1>1 DEF JoinsAt
  <1>3. /\ groups'[k] \in Group /\ groups'[k] # NoGroup
        /\ ~Exists(k) => groups'[k] = [face |-> r, hash |-> HashOf[r], rows |-> {r}]
        /\ Exists(k) => /\ groups'[k].rows = groups[k].rows \cup {r}
                        /\ \/ groups'[k].face = r /\ groups'[k].hash = HashOf[r]
                           \/ groups'[k].face = groups[k].face /\ groups'[k].hash = groups[k].hash
    BY <1>1, <1>2, JoinedGroup DEF Exists
  <1>4. groups' = [groups EXCEPT ![k] = groups'[k]]
    BY <1>1, <1>2 DEF JoinsAt
  <1>5. groups' \in [Keys -> Group \cup {NoGroup}]
    BY <1>1, <1>3, <1>4
  <1>6. CASE Exists(k)
    BY <1>2, <1>3, <1>5, <1>6
  <1>7. CASE ~Exists(k)
    <2>1. groups'[k].face = r /\ groups'[k].hash = HashOf[r] /\ groups'[k].rows = {r}
      BY <1>3, <1>7
    <2> QED
      BY <1>2, <1>3, <1>5, <1>7, <2>1
  <1> QED
    BY <1>6, <1>7

\* The groups of a signature become one under the hash of the row that gathers them.
Gathered(r) ==
    LET h == HashOf[r]
        s == SignatureOf[r]
    IN /\ groups' \in [Keys -> Group \cup {NoGroup}]
       /\ groups'[h] # NoGroup /\ FaceSignature(h)' = s
       /\ \A q \in Rows : q \in groups'[h].rows <=>
                            q = r \/ \E k \in Keys : Signed(k, s) /\ q \in groups[k].rows
       /\ \A k \in Keys : k # h => \/ Signed(k, s) /\ groups'[k] = NoGroup
                                   \/ ~Signed(k, s) /\ groups'[k] = groups[k]

LEMMA GathersOrJoins ==
    ASSUME ResultsOK, MergeTypeOK, NEW r \in Rows, Gather(r)
    PROVE  /\ HashOf[r] \in Hashes /\ SignatureOf[r] \in Signatures
           /\ bridge' = [bridge EXCEPT ![SignatureOf[r]] = HashOf[r]]
           /\ \/ JoinsAt(HashOf[r], r) /\ \A k \in Keys : ~Signed(k, SignatureOf[r])
              \/ Gathered(r) /\ \E k \in Keys : Signed(k, SignatureOf[r])
  <1> DEFINE s == SignatureOf[r]
             h == HashOf[r]
             alike == {k \in Keys : Signed(k, s)}
             members == {q \in Rows : q = r \/ \E k \in alike : q \in groups[k].rows}
  <1>1. h \in Hashes /\ h \in Keys /\ s \in Signatures /\ bridge' = [bridge EXCEPT ![s] = h]
    BY DEF Gather, ResultsOK, Keys
  <1>2. CASE alike = {}
    BY <1>1, <1>2 DEF Gather
  <1>3. CASE alike # {}
    <2>1. PICK face \in {groups[k].face : k \in alike} \cup {r} :
            groups' = [k \in Keys |->
                         IF k = h THEN [face |-> face, hash |-> h, rows |-> members]
                         ELSE IF k \in alike THEN NoGroup ELSE groups[k]]
      BY <1>3 DEF Gather
    <2>2. \A k \in alike : groups[k] \in Group /\ SignatureOf[groups[k].face] = s
      BY DEF MergeTypeOK, Signed, Exists
    <2>3. face \in Rows /\ SignatureOf[face] = s
      BY <2>2 DEF Group
    <2>4. members \subseteq Rows
      OBVIOUS
    <2>5. groups'[h] = [face |-> face, hash |-> h, rows |-> members]
      BY <1>1, <2>1
    <2>6. \A k \in Keys : k # h => groups'[k] = IF k \in alike THEN NoGroup ELSE groups[k]
      BY <2>1
    <2>7. \A q \in Rows : q \in members <=> q = r \/ \E k \in Keys : Signed(k, s) /\ q \in groups[k].rows
      OBVIOUS
    <2> HIDE DEF members
    <2>8. groups'[h] \in Group /\ groups'[h] # NoGroup /\ FaceSignature(h)' = s
      BY <1>1, <2>3, <2>4, <2>5 DEF Group, ResultsOK, FaceSignature
    <2>9. \A k \in Keys : k # h => \/ Signed(k, s) /\ groups'[k] = NoGroup
                                   \/ ~Signed(k, s) /\ groups'[k] = groups[k]
      BY <2>6
    <2>10. groups' \in [Keys -> Group \cup {NoGroup}]
      <3>1. \A k \in Keys : groups'[k] \in Group \cup {NoGroup}
        BY <2>8, <2>9 DEF MergeTypeOK
      <3>2. groups' = [k \in Keys |-> groups'[k]]
        BY <2>1
      <3> QED
        BY <3>1, <3>2
    <2>11. Gathered(r)
      BY <2>5, <2>7, <2>8, <2>9, <2>10 DEF Gathered
    <2> QED
      BY <1>1, <1>3, <2>11
  <1> QED
    BY <1>2, <1>3

\* Where the row of a step goes.
LEMMA TakesOne ==
    ASSUME ResultsOK, MergeTypeOK, HashesBridged, NEW r \in Rows, Take(r)
    PROVE  \/ /\ SignatureOf[r] \in Signatures /\ bridge[SignatureOf[r]] \in Hashes
              /\ JoinsAt(bridge[SignatureOf[r]], r) /\ bridge' = bridge
           \/ /\ HashOf[r] \in Hashes /\ SignatureOf[r] \in Signatures
              /\ bridge' = [bridge EXCEPT ![SignatureOf[r]] = HashOf[r]]
              /\ \/ JoinsAt(HashOf[r], r) /\ \A k \in Keys : ~Signed(k, SignatureOf[r])
                 \/ Gathered(r) /\ \E k \in Keys : Signed(k, SignatureOf[r])
           \/ /\ JoinsAt(KeyOf(r), r) /\ bridge' = bridge
              /\ SignatureOf[r] = NoSignature \/ HashOf[r] = NoHash
  <1>1. CASE Bridge(r)
    BY <1>1 DEF Bridge, Bridged, HashesBridged, ResultsOK
  <1>2. CASE Gather(r)
    BY <1>2, GathersOrJoins
  <1>3. CASE Join(r)
    BY <1>3 DEF Join
  <1> QED
    BY <1>1, <1>2, <1>3 DEF Take

LEMMA TypesKept ==
    ASSUME ResultsOK, MergeTypeOK, HashesBridged, NEW r \in Rows, Take(r)
    PROVE  MergeTypeOK'
  <1>1. taken' \subseteq Rows
    BY DEF Take, MergeTypeOK
  <1>2. \A k \in Keys : JoinsAt(k, r) => groups' \in [Keys -> Group \cup {NoGroup}]
    BY JoinsOne
  <1>3. KeyOf(r) \in Keys /\ Hashes \subseteq Keys
    BY KeyOfType DEF Keys
  <1>4. groups' \in [Keys -> Group \cup {NoGroup}]
    BY <1>2, <1>3, TakesOne DEF Gathered
  <1>5. bridge' \in [Signatures -> Keys \cup {NoKey}]
    BY <1>3, TakesOne DEF MergeTypeOK
  <1> QED
    BY <1>1, <1>4, <1>5 DEF MergeTypeOK

LEMMA BridgesKept ==
    ASSUME ResultsOK, MergeTypeOK, HashesBridged, NEW r \in Rows, Take(r)
    PROVE  HashesBridged'
  <1>1. \A s \in Signatures : bridge'[s] # NoKey => bridge'[s] \in Hashes
    BY TakesOne DEF HashesBridged, MergeTypeOK
  <1>2. ASSUME NEW k \in Others, groups'[k] # NoGroup
        PROVE  groups'[k].hash = NoHash /\ \A q \in groups'[k].rows : HashOf[q] = NoHash
    <2>1. k \in Keys /\ k \notin Hashes /\ Hashes \subseteq Keys
      BY DEF Keys, ResultsOK
    <2>2. CASE groups'[k] = groups[k]
      BY <1>2, <2>2 DEF HashesBridged, Exists
    <2>3. CASE groups'[k] # groups[k]
      <3>1. JoinsAt(k, r) /\ k = KeyOf(r)
        <4>1. \A h \in Hashes : JoinsAt(h, r) => groups'[k] = groups[k]
          BY <2>1, JoinsOne
        <4>2. Gathered(r) /\ HashOf[r] \in Hashes => groups'[k] = groups[k]
          BY <1>2, <2>1 DEF Gathered
        <4>3. JoinsAt(KeyOf(r), r)
          BY <2>3, <4>1, <4>2, TakesOne
        <4> QED
          BY <2>1, <2>3, <4>3, JoinsOne, KeyOfType
      <3>2. HashOf[r] = NoHash
        BY <2>1, <3>1, KeyOfType
      <3> QED
        BY <2>1, <3>1, <3>2, JoinsOne DEF HashesBridged
    <2> QED
      BY <2>2, <2>3
  <1> QED
    BY <1>1, <1>2 DEF HashesBridged, Exists

LEMMA TorrentSignatures ==
    ASSUME ResultsOK, NEW h \in Hashes
    PROVE  SignaturesOf(h) \subseteq Signatures
  BY DEF ResultsOK, SignaturesOf

\* Whose row has a signature of a torrent.
LEMMA OwnSignatures ==
    ASSUME ResultsOK, NEW h \in Hashes, NEW r \in Rows
    PROVE  /\ HashOf[r] = h /\ SignatureOf[r] \in Signatures => SignatureOf[r] \in SignaturesOf(h)
           /\ NoSignature \notin SignaturesOf(h)
           /\ ~LooksLikeAnother(h) /\ SignatureOf[r] \in SignaturesOf(h) =>
                HashOf[r] \in {h, NoHash}
  BY DEF ResultsOK, SignaturesOf, LooksLikeAnother

\* A row joins a group: its own torrent's, or one that is not of the torrent h.
LEMMA JoinKeepsTorrent ==
    ASSUME ResultsOK, MergeTypeOK, NEW h \in Hashes, FacesOf(h), RowsOf(h),
           NEW r \in Rows, NEW k \in Keys, JoinsAt(k, r),
           k = h => /\ HashOf[r] \in {h, NoHash}
                    /\ HashOf[r] = h \/ SignatureOf[r] \in SignaturesOf(h),
           k # h => /\ HashOf[r] # h
                    /\ k \in Hashes => SignatureOf[r] \notin SignaturesOf(h)
    PROVE  FacesOf(h)' /\ RowsOf(h)'
  <1>1. /\ \A l \in Keys : l # k => groups'[l] = groups[l]
        /\ groups'[k] # NoGroup
        /\ \A q \in groups'[k].rows : q = r \/ (Exists(k) /\ q \in groups[k].rows)
        /\ groups'[k].face = r \/ (Exists(k) /\ groups'[k].face = groups[k].face)
    BY JoinsOne
  <1>2. h \in Keys /\ Hashes \subseteq Keys
    BY DEF Keys
  <1>3. ASSUME NEW l \in Hashes, groups'[l] # NoGroup,
               SignatureOf[groups'[l].face] \in SignaturesOf(h)
        PROVE  l = h
    BY <1>1, <1>2, <1>3 DEF FacesOf, Exists, FaceSignature
  <1>4. ASSUME groups'[h] # NoGroup
        PROVE  \/ HashOf[groups'[h].face] = h
               \/ SignatureOf[groups'[h].face] \in SignaturesOf(h)
    BY <1>1, <1>2, <1>4 DEF FacesOf, Exists, FaceSignature
  <1>5. ASSUME NEW l \in Keys, groups'[l] # NoGroup, NEW q \in groups'[l].rows
        PROVE  (HashOf[q] = h => l = h) /\ (l = h => HashOf[q] \in {h, NoHash})
    BY <1>1, <1>5 DEF RowsOf, Exists
  <1> QED
    BY <1>3, <1>4, <1>5 DEF FacesOf, RowsOf, Exists, FaceSignature, SignaturesOf

\* The groups of a signature are those of the torrent h, or none of them is.
LEMMA GatherKeepsTorrent ==
    ASSUME ResultsOK, MergeTypeOK, HashesBridged, NEW h \in Hashes, ~LooksLikeAnother(h),
           FacesOf(h), RowsOf(h), NEW r \in Rows, Gathered(r),
           HashOf[r] \in Hashes, SignatureOf[r] \in Signatures
    PROVE  /\ FacesOf(h)' /\ RowsOf(h)'
           /\ HashOf[r] # h => groups'[h] = groups[h]
  <1> DEFINE s == SignatureOf[r]
             g == HashOf[r]
  <1>1. /\ g \in Hashes /\ s \in Signatures /\ g # NoHash
        /\ g = h => s \in SignaturesOf(h)
        /\ g # h => s \notin SignaturesOf(h)
    BY OwnSignatures DEF ResultsOK
  <1>2. /\ groups' \in [Keys -> Group \cup {NoGroup}]
        /\ groups'[g] # NoGroup /\ SignatureOf[groups'[g].face] = s
        /\ \A q \in Rows : q \in groups'[g].rows <=>
                             q = r \/ \E k \in Keys : Signed(k, s) /\ q \in groups[k].rows
        /\ \A k \in Keys : k # g => \/ Signed(k, s) /\ groups'[k] = NoGroup
                                    \/ ~Signed(k, s) /\ groups'[k] = groups[k]
    BY DEF Gathered, FaceSignature
  <1>3. h \in Keys /\ Hashes \subseteq Keys /\ Keys = Hashes \cup Others
    BY DEF Keys
  <1>4. g # h => ~Signed(h, s)
    <2> SUFFICES ASSUME g # h, Signed(h, s) PROVE FALSE
      OBVIOUS
    <2>1. groups[h].face \in Rows /\ SignatureOf[groups[h].face] = s /\ Exists(h)
      BY <1>3 DEF Signed, Exists, MergeTypeOK, Group
    <2>2. HashOf[groups[h].face] = h => s \in SignaturesOf(h)
      BY <1>1, <2>1, OwnSignatures
    <2> QED
      BY <1>1, <2>1, <2>2 DEF FacesOf, FaceSignature
  <1>5. \A q \in Rows : q \in groups'[g].rows => q = r \/ \E k \in Keys : Signed(k, s) /\ q \in groups[k].rows
    BY <1>2
  <1>6. \A l \in Keys : groups'[l] # NoGroup /\ l # g => groups'[l] = groups[l]
    BY <1>2
  <1>7. \A l \in Keys : Signed(l, s) => Exists(l) /\ FaceSignature(l) = s
    BY DEF Signed, FaceSignature
  <1>8. groups'[g].rows \subseteq Rows
    BY <1>1, <1>2, <1>3 DEF Group
  <1> HIDE DEF s, g
  <1>9. \A l \in Hashes : groups'[l] # NoGroup /\ SignatureOf[groups'[l].face] \in SignaturesOf(h) => l = h
    BY <1>1, <1>2, <1>3, <1>6 DEF FacesOf, Exists, FaceSignature
  <1>10. groups'[h] # NoGroup => \/ HashOf[groups'[h].face] = h
                                 \/ SignatureOf[groups'[h].face] \in SignaturesOf(h)
    BY <1>1, <1>2, <1>3, <1>6 DEF FacesOf, Exists, FaceSignature
  <1>11. ASSUME NEW q \in groups'[g].rows
         PROVE  (HashOf[q] = h => g = h) /\ (g = h => HashOf[q] \in {h, NoHash})
    <2>1. CASE q = r
      BY <2>1 DEF g
    <2>2. CASE q # r
      <3>1. PICK k \in Keys : Signed(k, s) /\ q \in groups[k].rows
        BY <1>5, <1>8, <2>2
      <3>2. Exists(k) /\ FaceSignature(k) = s
        BY <3>1, <1>7
      <3>3. HashOf[q] = h => g = h
        BY <3>1, <3>2, <1>4 DEF RowsOf
      <3>4. g = h => HashOf[q] \in {h, NoHash}
        <4>1. CASE k \in Hashes
          BY <4>1, <3>1, <3>2, <1>1 DEF FacesOf, RowsOf
        <4>2. CASE k \in Others
          BY <4>2, <3>1, <3>2 DEF HashesBridged
        <4> QED
          BY <4>1, <4>2, <1>3
      <3> QED
        BY <3>3, <3>4
    <2> QED
      BY <2>1, <2>2
  <1>12. ASSUME NEW l \in Keys, groups'[l] # NoGroup, NEW q \in groups'[l].rows
         PROVE  (HashOf[q] = h => l = h) /\ (l = h => HashOf[q] \in {h, NoHash})
    BY <1>6, <1>11, <1>12 DEF RowsOf, Exists
  <1>13. g # h => groups'[h] = groups[h]
    BY <1>2, <1>3, <1>4
  <1> QED
    BY <1>9, <1>10, <1>12, <1>13 DEF FacesOf, RowsOf, Exists, FaceSignature, SignaturesOf, g

LEMMA TakeKeepsTorrent ==
    ASSUME ResultsOK, MergeTypeOK, HashesBridged, NEW h \in Hashes, ~LooksLikeAnother(h),
           TorrentInv(h), NEW r \in Rows, Take(r)
    PROVE  TorrentInv(h)'
  <1> DEFINE s == SignatureOf[r]
  <1> USE DEF TorrentInv
  <1>1. Hashes \subseteq Keys /\ KeyOf(r) \in Keys /\ NoKey \notin Hashes
    BY KeyOfType DEF Keys, ResultsOK
  <1>2. CASE s \in Signatures /\ bridge[s] \in Hashes /\ JoinsAt(bridge[s], r) /\ bridge' = bridge
    <2>1. bridge[s] = h => s \in SignaturesOf(h) /\ HashOf[r] \in {h, NoHash}
      BY <1>2, OwnSignatures DEF BridgesOf
    <2>2. bridge[s] # h => s \notin SignaturesOf(h) /\ HashOf[r] # h
      BY <1>1, <1>2, OwnSignatures DEF BridgesOf
    <2>3. FacesOf(h)' /\ RowsOf(h)'
      BY <1>1, <1>2, <2>1, <2>2, JoinKeepsTorrent
    <2> QED
      BY <1>2, <2>3 DEF BridgesOf, SignaturesOf
  <1>3. CASE /\ HashOf[r] \in Hashes /\ s \in Signatures
             /\ bridge' = [bridge EXCEPT ![s] = HashOf[r]]
             /\ JoinsAt(HashOf[r], r) \/ Gathered(r)
    <2>1. /\ HashOf[r] = h => s \in SignaturesOf(h)
          /\ HashOf[r] # h => s \notin SignaturesOf(h)
      BY <1>3, OwnSignatures DEF ResultsOK
    <2>2. FacesOf(h)' /\ RowsOf(h)'
      BY <1>1, <1>3, <2>1, JoinKeepsTorrent, GatherKeepsTorrent
    <2>3. \A t \in Signatures : bridge'[t] = IF t = s THEN HashOf[r] ELSE bridge[t]
      BY <1>3 DEF MergeTypeOK
    <2>4. /\ \A t \in SignaturesOf(h) : bridge'[t] \in {NoKey, h}
          /\ \A t \in Signatures : bridge'[t] = h => t \in SignaturesOf(h)
      BY <2>1, <2>3, TorrentSignatures DEF BridgesOf
    <2> QED
      BY <2>2, <2>4 DEF BridgesOf, SignaturesOf
  <1>4. CASE /\ JoinsAt(KeyOf(r), r) /\ bridge' = bridge
             /\ s = NoSignature \/ HashOf[r] = NoHash
    <2>1. KeyOf(r) = h => HashOf[r] = h
      BY KeyOfType
    <2>2. KeyOf(r) # h => HashOf[r] # h
      BY KeyOfType DEF ResultsOK
    <2>3. KeyOf(r) \in Hashes => s \notin SignaturesOf(h)
      BY <1>4, KeyOfType, OwnSignatures
    <2>4. FacesOf(h)' /\ RowsOf(h)'
      BY <1>1, <1>4, <2>1, <2>2, <2>3, JoinKeepsTorrent
    <2> QED
      BY <1>4, <2>4 DEF BridgesOf, SignaturesOf
  <1> QED
    BY <1>2, <1>3, <1>4, TakesOne

LEMMA NewBatchKeepsTorrent ==
    ASSUME ResultsOK, MergeTypeOK, HashesBridged, NEW h \in Hashes, TorrentInv(h), NewBatch
    PROVE  TorrentInv(h)'
  <1>1. groups' = groups
    BY DEF NewBatch
  <1>2. ASSUME NEW s \in Signatures, bridge'[s] # NoKey
        PROVE  bridge'[s] \in Hashes /\ Exists(bridge'[s]) /\ FaceSignature(bridge'[s]) = s
    <2>1. bridge'[s] \in {k \in Keys : Signed(k, s) /\ groups[k].hash # NoHash}
      BY <1>2 DEF NewBatch
    <2> QED
      BY <2>1 DEF HashesBridged, Signed, Keys, FaceSignature
  <1>3. \A s \in SignaturesOf(h) : bridge'[s] \in {NoKey, h}
    BY <1>2, TorrentSignatures DEF TorrentInv, FacesOf
  <1>4. ASSUME NEW s \in Signatures, bridge'[s] = h PROVE s \in SignaturesOf(h)
    <2>1. Exists(h) /\ FaceSignature(h) = s
      BY <1>2, <1>4 DEF ResultsOK, Keys
    <2>2. groups[h].face \in Rows
      BY <2>1 DEF MergeTypeOK, Exists, Group, Keys
    <2> QED
      BY <2>1, <2>2, OwnSignatures DEF TorrentInv, FacesOf, FaceSignature
  <1>5. FacesOf(h)' /\ RowsOf(h)'
    BY <1>1 DEF TorrentInv, FacesOf, RowsOf, Exists, FaceSignature, SignaturesOf
  <1> QED
    BY <1>3, <1>4, <1>5 DEF TorrentInv, BridgesOf, SignaturesOf

LEMMA MergeInitInv == ASSUME ResultsOK, MergeInit PROVE MergeInv
  <1>1. (\A k \in Keys : ~Exists(k)) /\ \A s \in Signatures : bridge[s] = NoKey
    BY DEF MergeInit, Exists
  <1>2. MergeTypeOK
    BY DEF MergeInit, MergeTypeOK
  <1>3. ASSUME NEW h \in Hashes PROVE TorrentInv(h)
    <2>1. h \in Keys /\ h # NoKey /\ \A k \in Hashes : k \in Keys
      BY DEF ResultsOK, Keys
    <2> QED
      BY <1>1, <2>1, TorrentSignatures DEF TorrentInv, BridgesOf, FacesOf, RowsOf
  <1> QED
    BY <1>1, <1>2, <1>3 DEF MergeInv, HashesBridged, Keys

LEMMA MergeStepInv ==
    ASSUME ResultsOK, MergeInv, [MergeNext]_mergeVars
    PROVE  MergeInv'
  <1> USE DEF MergeInv
  <1>1. \A h \in Hashes : LooksLikeAnother(h)' = LooksLikeAnother(h)
    BY DEF LooksLikeAnother
  <1>2. CASE NewBatch
    <2>1. MergeTypeOK' /\ groups' = groups
      BY <1>2 DEF NewBatch, MergeTypeOK
    <2>2. HashesBridged'
      <3>1. \A s \in Signatures : bridge'[s] # NoKey =>
              bridge'[s] \in {k \in Keys : Signed(k, s) /\ groups[k].hash # NoHash}
        BY <1>2 DEF NewBatch
      <3>2. \A s \in Signatures : bridge'[s] # NoKey => bridge'[s] \in Hashes
        BY <3>1 DEF HashesBridged, Signed, Keys
      <3> QED
        BY <2>1, <3>2 DEF HashesBridged, Exists
    <2> QED
      BY <1>1, <1>2, <2>1, <2>2, NewBatchKeepsTorrent
  <1>3. ASSUME NEW r \in Rows, Take(r) PROVE MergeInv'
    BY <1>1, <1>3, TypesKept, BridgesKept, TakeKeepsTorrent
  <1>4. CASE UNCHANGED mergeVars
    BY <1>1, <1>4 DEF mergeVars, MergeTypeOK, HashesBridged, TorrentInv, BridgesOf, FacesOf,
                      RowsOf, Exists, FaceSignature, SignaturesOf
  <1> QED
    BY <1>2, <1>3, <1>4 DEF MergeNext

LEMMA MergeInvariant == ASSUME ResultsOK PROVE MergeSpec => []MergeInv
  <1>1. MergeInit => MergeInv
    BY MergeInitInv
  <1>2. MergeInv /\ [MergeNext]_mergeVars => MergeInv'
    BY MergeStepInv
  <1> QED
    BY <1>1, <1>2, PTL DEF MergeSpec

\* The row of a step comes behind a link.
LEMMA TakenIsHeld ==
    ASSUME ResultsOK, MergeTypeOK, HashesBridged, NEW r \in Rows, Take(r)
    PROVE  \E k \in Keys : groups'[k] # NoGroup /\ r \in groups'[k].rows
  <1>1. Hashes \subseteq Keys /\ KeyOf(r) \in Keys
    BY KeyOfType DEF Keys
  <1>2. \A k \in Keys : JoinsAt(k, r) => groups'[k] # NoGroup /\ r \in groups'[k].rows
    BY JoinsOne
  <1>3. Gathered(r) => groups'[HashOf[r]] # NoGroup /\ r \in groups'[HashOf[r]].rows
    BY DEF Gathered
  <1> QED
    BY <1>1, <1>2, <1>3, TakesOne

\* In whatever order the rows arrive and the indexers answer, a row that was taken
\* stays behind a link of a result unless its group is overwritten: a row gathers the
\* groups of its signature under a hash whose group has another signature, of another
\* title or size of the same torrent (_merge_results).
THEOREM NoRowLost ==
    ASSUME ResultsOK PROVE MergeSpec => [][LosesOnlyOverwritten]_mergeVars
  <1>1. ASSUME MergeInv, NEW r \in Rows, Take(r), NEW q \in Rows, q \in Held \/ q = r,
               ~\E g \in Rows : Overwrites(g) /\ q \in groups[HashOf[g]].rows
        PROVE  q \in Held'
    <2>1. MergeTypeOK /\ HashesBridged /\ Hashes \subseteq Keys /\ KeyOf(r) \in Keys
      BY <1>1, KeyOfType DEF MergeInv, Keys
    <2>2. ASSUME NEW k \in Keys, JoinsAt(k, r) PROVE q \in Held'
      <3>1. CASE q = r
        BY <2>1, <2>2, <3>1, JoinsOne DEF Held, Exists
      <3>2. CASE q # r
        <4>1. PICK l \in Keys : Exists(l) /\ q \in groups[l].rows
          BY <1>1, <3>2 DEF Held
        <4>2. groups'[l] # NoGroup /\ q \in groups'[l].rows
          BY <2>1, <2>2, <4>1, JoinsOne DEF Exists
        <4> QED
          BY <4>2 DEF Held, Exists
      <3> QED
        BY <3>1, <3>2
    <2>3. CASE Gather(r)
      <3>1. CASE JoinsAt(HashOf[r], r)
        BY <2>1, <2>2, <2>3, <3>1, GathersOrJoins
      <3>2. CASE Gathered(r) /\ \E k \in Keys : Signed(k, SignatureOf[r])
        <4>1. HashOf[r] \in Keys /\ groups'[HashOf[r]] # NoGroup
          BY <2>1, <2>3, <3>2, GathersOrJoins DEF Gathered
        <4>2. q \in groups'[HashOf[r]].rows => q \in Held'
          BY <4>1 DEF Held, Exists
        <4>3. CASE q = r
          BY <3>2, <4>2, <4>3 DEF Gathered
        <4>4. CASE q # r
          <5>1. PICK l \in Keys : Exists(l) /\ q \in groups[l].rows
            BY <1>1, <4>4 DEF Held
          <5>2. CASE Signed(l, SignatureOf[r])
            BY <3>2, <4>2, <5>1, <5>2 DEF Gathered
          <5>3. CASE ~Signed(l, SignatureOf[r])
            <6>1. l # HashOf[r]
              BY <1>1, <2>3, <3>2, <5>1, <5>3 DEF Overwrites
            <6>2. groups'[l] = groups[l]
              BY <3>2, <5>3, <6>1 DEF Gathered
            <6> QED
              BY <5>1, <6>2 DEF Held, Exists
          <5> QED
            BY <5>2, <5>3
        <4> QED
          BY <4>3, <4>4
      <3> QED
        BY <2>1, <2>3, <3>1, <3>2, GathersOrJoins
    <2>4. CASE ~Gather(r)
      <3>1. \E k \in Keys : JoinsAt(k, r)
        BY <1>1, <2>1, <2>4 DEF Take, Bridge, Bridged, Join, HashesBridged, ResultsOK
      <3> QED
        BY <2>2, <3>1
    <2> QED
      BY <2>3, <2>4
  <1>2. ASSUME MergeInv, MergeNext PROVE LosesOnlyOverwritten
    <2>1. Held \subseteq Rows
      BY DEF Held
    <2>2. CASE NewBatch
      BY <2>1, <2>2 DEF NewBatch, LosesOnlyOverwritten, Held, Exists
    <2>3. ASSUME NEW r \in Rows, Take(r) PROVE LosesOnlyOverwritten
      <3>1. taken' \ taken \subseteq {r}
        BY <2>3 DEF Take
      <3>2. ASSUME NEW q \in Held \cup (taken' \ taken)
            PROVE  q \in Held' \cup {p \in Rows : \E g \in Rows : Overwrites(g)
                                                   /\ p \in groups[HashOf[g]].rows}
        BY <1>2, <2>1, <2>3, <3>1, <3>2, <1>1
      <3> QED
        BY <3>2 DEF LosesOnlyOverwritten
    <2> QED
      BY <1>2, <2>2, <2>3 DEF MergeNext
  <1>3. MergeInv /\ [MergeNext]_mergeVars => [LosesOnlyOverwritten]_mergeVars
    BY <1>2
  <1> QED
    BY <1>3, MergeInvariant, PTL DEF MergeSpec

\* If trackers report one torrent with sizes or titles of two signatures, the first
\* hash of the second signature replaces the group of the first, and rows found
\* nowhere else are lost with their links (_merge_results).
THEOREM GroupOverwritten ==
    ASSUME ResultsOK, MergeTypeOK, NEW r \in Rows, Gather(r), taken' = taken \cup {r},
           NEW k \in Keys, Signed(k, SignatureOf[r]),
           ~Signed(HashOf[r], SignatureOf[r]),
           NEW q \in taken, q # r,
           \A l \in Keys : Exists(l) /\ q \in groups[l].rows => l = HashOf[r]
    PROVE  ~NothingLost'
  <1> DEFINE s == SignatureOf[r]  h == HashOf[r]
             alike == {l \in Keys : Signed(l, s)}
             members == {p \in Rows : p = r \/ \E l \in alike : p \in groups[l].rows}
  <1>1. k \in alike /\ h \notin alike
    OBVIOUS
  <1>2. PICK face \in {groups[l].face : l \in alike} \cup {r} :
          groups' = [l \in Keys |->
            IF l = h THEN [face |-> face, hash |-> h, rows |-> members]
            ELSE IF l \in alike THEN NoGroup ELSE groups[l]]
    BY <1>1 DEF Gather
  <1>3. q \notin members
    BY <1>1 DEF Signed
  <1> HIDE DEF members, alike, h
  <1>4. ASSUME NEW l \in Keys, groups'[l] # NoGroup PROVE q \notin groups'[l].rows
    <2>1. CASE l = h
      BY <2>1, <1>2, <1>3
    <2>2. CASE l # h
      BY <2>2, <1>2, <1>4 DEF Exists, h
    <2> QED
      BY <2>1, <2>2
  <1>5. q \in taken'
    OBVIOUS
  <1> QED
    BY <1>4, <1>5 DEF NothingLost, Held, Exists

\* A torrent is one result, and that result is of one torrent, whatever titles and
\* sizes its trackers report, unless it looks like another torrent (_merge_results).
THEOREM TorrentIsOneResult ==
    ASSUME ResultsOK PROVE MergeSpec => []OneResultPerTorrent
  <1>1. MergeInv => OneResultPerTorrent
    BY DEF MergeInv, TorrentInv, RowsOf, OneResultPerTorrent
  <1> QED
    BY <1>1, MergeInvariant, PTL

\* The group of a torrent is not overwritten while its trackers report titles and
\* sizes of one signature, so all its rows stay in it (_merge_results).
THEOREM AgreedTorrentsAreKept ==
    ASSUME ResultsOK PROVE MergeSpec => []AgreedTorrentsKept
  <1> DEFINE Agreed(h) == \A r, q \in Rows : HashOf[r] = h /\ HashOf[q] = h =>
                                               SignatureOf[r] = SignatureOf[q]
             Kept(h) == \A r \in taken : HashOf[r] = h => Exists(h) /\ r \in groups[h].rows
             AllKept == \A h \in Hashes : LooksLikeAnother(h) \/ ~Agreed(h) \/ Kept(h)
  <1>1. MergeInit => AllKept
    BY DEF MergeInit
  <1>2. ASSUME MergeInv, NEW h \in Hashes, ~LooksLikeAnother(h), Agreed(h), Kept(h),
               NEW r \in Rows, Take(r)
        PROVE  Kept(h)'
    <2>1. /\ h \in Keys /\ Hashes \subseteq Keys
          /\ MergeTypeOK /\ HashesBridged /\ TorrentInv(h)
      BY <1>2 DEF Keys, MergeInv
    <2>1b. TorrentInv(h)'
      BY <1>2, <2>1, TakeKeepsTorrent
    <2>2. taken' = taken \cup {r} /\ taken \subseteq Rows
      BY <1>2, <2>1 DEF Take, MergeTypeOK
    <2>3. ASSUME HashOf[r] = h PROVE groups'[h] # NoGroup /\ r \in groups'[h].rows
      BY <1>2, <2>1b, <2>1, <2>3, TakenIsHeld DEF TorrentInv, RowsOf, Exists
    <2>4. ASSUME Exists(h), NEW q \in Rows, q \in groups[h].rows, HashOf[q] = h
          PROVE  groups'[h] # NoGroup /\ q \in groups'[h].rows
      <3>1. ASSUME NEW k \in Keys, JoinsAt(k, r)
            PROVE  groups'[h] # NoGroup /\ q \in groups'[h].rows
        BY <2>1, <2>4, <3>1, JoinsOne DEF Exists
      <3>2. CASE /\ Gathered(r) /\ HashOf[r] \in Hashes /\ SignatureOf[r] \in Signatures
        <4>1. CASE HashOf[r] # h
          BY <1>2, <2>1, <2>4, <3>2, <4>1, GatherKeepsTorrent DEF TorrentInv, Exists
        <4>2. CASE HashOf[r] = h
          <5>1. groups[h].face \in Rows
            BY <2>1, <2>4 DEF MergeTypeOK, Exists, Group
          <5>2. FaceSignature(h) = SignatureOf[r]
            BY <1>2, <2>1, <2>4, <4>2, <5>1
               DEF TorrentInv, FacesOf, SignaturesOf, FaceSignature
          <5>3. Signed(h, SignatureOf[r])
            BY <2>4, <5>2 DEF Signed, FaceSignature
          <5> QED
            BY <2>1, <2>4, <3>2, <4>2, <5>3 DEF Gathered
        <4> QED
          BY <4>1, <4>2
      <3> QED
        BY <1>2, <2>1, <3>1, <3>2, TakesOne, KeyOfType
    <2>5. ASSUME NEW q \in taken', HashOf[q] = h
          PROVE  groups'[h] # NoGroup /\ q \in groups'[h].rows
      BY <1>2, <2>2, <2>3, <2>4, <2>5
    <2> QED
      BY <2>5 DEF Exists
  <1>3. ASSUME MergeInv, AllKept, [MergeNext]_mergeVars PROVE AllKept'
    <2>1. \A h \in Hashes : LooksLikeAnother(h)' = LooksLikeAnother(h)
      BY DEF LooksLikeAnother
    <2>2. CASE NewBatch \/ UNCHANGED mergeVars
      BY <1>3, <2>1, <2>2 DEF NewBatch, mergeVars, Exists
    <2>3. ASSUME NEW r \in Rows, Take(r) PROVE AllKept'
      BY <1>2, <1>3, <2>1, <2>3
    <2> QED
      BY <1>3, <2>2, <2>3 DEF MergeNext
  <1>4. AllKept => AgreedTorrentsKept
    BY DEF AgreedTorrentsKept
  <1> HIDE DEF AllKept
  <1> QED
    BY <1>1, <1>3, <1>4, MergeInvariant, PTL DEF MergeSpec

\* A bridge merges two torrents: a row with another hash joins the group too, though
\* only rows whose hash is hidden are said to be bridged (CHANGELOG.md).
THEOREM DifferentTorrentsMerged ==
    ASSUME ResultsOK, MergeTypeOK, NEW r \in Rows, Bridge(r), Exists(bridge[SignatureOf[r]]),
           NEW q \in groups[bridge[SignatureOf[r]]].rows,
           HashOf[q] # NoHash, HashOf[r] # NoHash, HashOf[r] # HashOf[q]
    PROVE  \E k \in Keys : Exists(k)' /\ r \in groups'[k].rows /\ q \in groups'[k].rows
  <1>1. PICK k \in Keys : k = bridge[SignatureOf[r]] /\ Exists(k) /\ JoinsAt(k, r)
    BY DEF MergeTypeOK, Bridge, Bridged, ResultsOK
  <1> QED
    BY <1>1, JoinsOne DEF Exists

\* A row with more seeders and no hash that is bridged to a group takes the hash,
\* and with it the magnet, away from it (_merge_result_details).
THEOREM HashForgotten ==
    ASSUME ResultsOK, MergeTypeOK, NEW r \in Rows, Bridge(r), HashOf[r] = NoHash,
           NEW k \in Keys, k = bridge[SignatureOf[r]], Exists(k),
           RankOf[r] > RankOf[groups[k].face]
    PROVE  Exists(k)' /\ groups'[k].hash = NoHash /\ groups[k].rows \subseteq groups'[k].rows
  <1>1. JoinsAt(k, r)
    BY DEF Bridge
  <1>2. groups'[k] = Joined(groups[k], r)
    BY <1>1 DEF JoinsAt, MergeTypeOK
  <1>3. groups'[k].hash = NoHash
    BY <1>2 DEF Joined, Exists
  <1> QED
    BY <1>1, <1>3, JoinsOne DEF Exists

\* The keys of the groups, and those that rows are bridged to, of which one may
\* have lost its group meanwhile.
KeysInUse == {k \in Keys : Exists(k) \/ \E s \in Signatures : bridge[s] = k}

\* A batch adds no group but under a key of its rows, or one that had a group before,
\* on which the sections of a search rely (seen_merge_keys; JackettSearch!Grouped).
THEOREM OnlyOwnKeysAdded ==
    ASSUME ResultsOK, MergeTypeOK, HashesBridged
    PROVE  /\ NewBatch => \A k \in KeysInUse' : Exists(k)
           /\ \A r \in Rows : Take(r) => KeysInUse' \subseteq KeysInUse \cup {KeyOf(r)}
  <1>1. ASSUME NewBatch, NEW k \in KeysInUse' PROVE Exists(k)
    <2>1. k \in Keys /\ (groups'[k] # NoGroup \/ \E s \in Signatures : bridge'[s] = k)
      BY <1>1 DEF KeysInUse, Exists
    <2>2. CASE groups'[k] # NoGroup
      BY <1>1, <2>2 DEF NewBatch, Exists
    <2>3. ASSUME NEW s \in Signatures, bridge'[s] = k PROVE Exists(k)
      <3>1. k # NoKey
        BY <2>1 DEF ResultsOK
      <3>2. bridge'[s] \in {l \in Keys : Signed(l, s) /\ groups[l].hash # NoHash}
        BY <1>1, <2>3, <3>1 DEF NewBatch
      <3> QED
        BY <2>3, <3>2 DEF Signed
    <2> QED
      BY <2>1, <2>2, <2>3
  <1>2. ASSUME NEW r \in Rows, Take(r), NEW k \in KeysInUse', k # KeyOf(r)
        PROVE  k \in KeysInUse
    <2>1. k \in Keys /\ (groups'[k] # NoGroup \/ \E s \in Signatures : bridge'[s] = k)
      BY <1>2 DEF KeysInUse, Exists
    <2>2. Hashes \subseteq Keys /\ KeyOf(r) \in Keys /\ (HashOf[r] \in Hashes => HashOf[r] # k)
      BY <1>2, KeyOfType DEF Keys, ResultsOK
    <2>3. ASSUME NEW s \in Signatures, bridge'[s] = k PROVE bridge[s] = k
      BY <1>2, <2>2, <2>3, TakesOne DEF MergeTypeOK
    <2>4. ASSUME groups'[k] # NoGroup PROVE Exists(k) \/ \E s \in Signatures : bridge[s] = k
      <3>1. CASE groups'[k] = groups[k]
        BY <2>4, <3>1 DEF Exists
      <3>2. CASE groups'[k] # groups[k]
        <4>1. \A l \in Keys : JoinsAt(l, r) => l = k
          BY <2>1, <3>2, JoinsOne
        <4>2. ~(Gathered(r) /\ HashOf[r] \in Hashes)
          BY <2>1, <2>2, <2>4, <3>2 DEF Gathered
        <4> QED
          BY <1>2, <2>2, <4>1, <4>2, TakesOne
      <3> QED
        BY <3>1, <3>2
    <2> QED
      BY <2>1, <2>3, <2>4 DEF KeysInUse
  <1> QED
    BY <1>1, <1>2

-----------------------------------------------------------------------------
(* ReleaseFilter and ReleaseCache: what the pattern, the filter and the    *)
(* plan agree on and where they part, for every rule and every text, and   *)
(* what the counts ReleaseCache keeps are worth.                           *)

\* A text that mentions one episode and nothing else.
OnlyMention(text, m) == text = [mentions |-> {m}, seasons |-> {}, spans |-> {}, longRun |-> FALSE]

\* An episode is made of a season and a number.
LEMMA FloorParts ==
  ASSUME NEW f \in Episode
  PROVE  /\ Season(f) \in 0 .. 99 /\ Number(f) \in 0 .. 99
         /\ f = 100 * Season(f) + Number(f)
BY DEF Episode, Season, Number

\* The order of episodes is that of seasons, then of numbers.
LEMMA EpisodeOrder ==
  ASSUME NEW s \in 0 .. 99, NEW n \in 0 .. 99, NEW f \in Episode
  PROVE  (100 * s + n >= f) <=> (s > Season(f) \/ (s = Season(f) /\ n >= Number(f)))
<1>1. PICK t \in 0 .. 99, k \in 0 .. 99 : f = 100 * t + k /\ Season(f) = t /\ Number(f) = k
  BY FloorParts
<1> QED BY <1>1

\* Rows of one verdict share the cached count: rules with the same cache key and
\* the same owned episodes hide and show the same rows.
THEOREM SameKeySameVerdict ==
  ASSUME NEW row, NEW q1, NEW q2, NEW rule1, NEW rule2,
         CacheKey(rule1, q1) = CacheKey(rule2, q2), Owned(rule1) = Owned(rule2)
  PROVE  Failures(row, rule1, q1) = Failures(row, rule2, q2)
<1>1. /\ rule1.media = rule2.media /\ rule1.imdb = rule2.imdb
      /\ rule1.hasQuery = rule2.hasQuery /\ rule1.groups = rule2.groups
      /\ rule1.without = rule2.without /\ q1 = q2 /\ rule1.override = rule2.override
      /\ rule1.floor = rule2.floor /\ rule1.keep = rule2.keep
      /\ rule1.existing = rule2.existing /\ rule1.year = rule2.year
      /\ rule1.feeds = rule2.feeds
  BY DEF CacheKey
<1>2. NoFeedMaps(rule1) = NoFeedMaps(rule2) /\ Slugs(rule1) = Slugs(rule2)
  BY <1>1 DEF NoFeedMaps, Slugs
<1>3. Identified(row, rule1) = Identified(row, rule2)
  BY <1>1 DEF Identified
<1>4. WrongCategory(row, rule1) = WrongCategory(row, rule2)
  BY <1>1 DEF WrongCategory
<1>5. OwnedPack(row, rule1) = OwnedPack(row, rule2)
  BY DEF OwnedPack
<1>6. LocalPattern(row, rule1) = LocalPattern(row, rule2)
  BY <1>1 DEF LocalPattern
<1> QED BY <1>1, <1>2, <1>3, <1>4, <1>5, <1>6 DEF Failures

\* The cache key is too coarse: once a sync has added all episodes of a pack to
\* the known ones, the pack is hidden, and the key is still the one its cached
\* count was stored under (rule_fetch_ops.py, _rule_local_filter_cache_key).
THEOREM KeyMissesKnown ==
  ASSUME NEW row, NEW q, NEW r \in RuleRow, NEW added \in SUBSET Episode,
         NEW m \in row.text.mentions, IsPack(m), EpisodesOf(m) \subseteq added
  PROVE  LET synced == [r EXCEPT !.known = added]
         IN CacheKey(synced, q) = CacheKey(r, q) /\ ~Visible(row, synced, q)
<1> DEFINE synced == [r EXCEPT !.known = added]
<1>1. /\ synced.known = added /\ synced.media = r.media /\ synced.imdb = r.imdb
      /\ synced.hasQuery = r.hasQuery /\ synced.groups = r.groups
      /\ synced.without = r.without /\ synced.override = r.override
      /\ synced.floor = r.floor /\ synced.keep = r.keep
      /\ synced.existing = r.existing /\ synced.year = r.year
      /\ synced.feeds = r.feeds
  BY DEF RuleRow
<1> HIDE DEF synced
<1>2. CacheKey(synced, q) = CacheKey(r, q)
  BY <1>1 DEF CacheKey
<1>3. OwnedPack(row, synced)
  BY <1>1 DEF OwnedPack, Owned
<1>4. 8 \in Failures(row, synced, q)
  BY <1>3 DEF Failures
<1>5. ~Visible(row, synced, q)
  BY <1>4 DEF Visible
<1> QED BY <1>2, <1>5 DEF synced

\* For a text with one plain episode the pattern is exact: from the floor on, and
\* not an existing one unless the rule keeps searching those.
THEOREM PlainEpisodeExact ==
  ASSUME NEW row, NEW r \in RuleRow, NEW m \in Mention,
         OnlyMention(row.text, m), m.sep # "dash",
         r.override = "none", r.floor # None, Season(r.floor) # 0
  PROVE  LocalPattern(row, r) <=>
           /\ 100 * m.season + m.first >= r.floor
           /\ r.keep \/ 100 * m.season + m.first \notin r.existing
<1> DEFINE f == r.floor
<1>1. f \in Episode /\ r.keep \in BOOLEAN
  BY DEF RuleRow, Floor
<1>2. m.season \in 0 .. 99 /\ m.first \in 0 .. 99
  BY DEF Mention
<1>3. /\ row.text.mentions = {m} /\ row.text.seasons = {} /\ row.text.spans = {}
      /\ row.text.longRun = FALSE
  BY DEF OnlyMention
<1>4. Season(f) \in 0 .. 99 /\ Number(f) \in 0 .. 99
  BY <1>1, FloorParts
<1>5. Progress(row.text, f) <=>
        (m.season > Season(f) \/ (m.season = Season(f) /\ m.first >= Number(f)))
  BY <1>2, <1>3, <1>4 DEF Progress, FloorSeason, FloorNumber, RangeEnd, Ranged, None
<1>6. BelowFloor(row.text, f) <=> (m.season = Season(f) /\ m.first < Number(f))
  BY <1>2, <1>3, <1>4 DEF BelowFloor, FloorSeason, FloorNumber, Ranged
<1>7. Standalone(row.text, r.existing) <=> 100 * m.season + m.first \in r.existing
  BY <1>3 DEF Standalone, Ranged
<1>8. (Progress(row.text, f) /\ ~BelowFloor(row.text, f)) <=>
        100 * m.season + m.first >= f
  <2>1. (100 * m.season + m.first >= f) <=>
          (m.season > Season(f) \/ (m.season = Season(f) /\ m.first >= Number(f)))
    BY <1>1, <1>2, EpisodeOrder
  <2> QED BY <1>2, <1>4, <1>5, <1>6, <2>1
<1> QED BY <1>1, <1>7, <1>8 DEF LocalPattern

\* A dash hides an existing episode from its exclusion: "S01E06 - Title" is
\* accepted at or after the floor whether or not episode 6 exists.
THEOREM DashedEpisodeAccepted ==
  ASSUME NEW row, NEW r \in RuleRow, NEW m \in Mention,
         OnlyMention(row.text, m), m.sep = "dash", m.second = None,
         r.override = "none", r.floor # None, Season(r.floor) # 0,
         100 * m.season + m.first >= r.floor
  PROVE  LocalPattern(row, r)
<1> DEFINE f == r.floor
<1>1. f \in Episode
  BY DEF RuleRow, Floor
<1>2. m.season \in 0 .. 99 /\ m.first \in 0 .. 99
  BY DEF Mention
<1>3. row.text.mentions = {m}
  BY DEF OnlyMention
<1>4. m.season > Season(f) \/ (m.season = Season(f) /\ m.first >= Number(f))
  BY <1>1, <1>2, EpisodeOrder
<1>5. Progress(row.text, f)
  BY <1>3, <1>4 DEF Progress, FloorSeason, FloorNumber
<1>6. ~BelowFloor(row.text, f)
  BY <1>3 DEF BelowFloor, Ranged
<1>7. ~Standalone(row.text, r.existing)
  BY <1>3 DEF Standalone, Ranged
<1> QED BY <1>5, <1>6, <1>7 DEF LocalPattern

\* A dash and a number after it make an episode before the floor look like a
\* range that reaches it: "S01E03 - 1080p" is accepted by a rule at S01E05, and
\* its file is selected unless every episode up to 10 is excluded.
THEOREM CutNumberAccepted ==
  ASSUME NEW row, NEW r \in RuleRow, NEW m \in Mention,
         OnlyMention(row.text, m), m.sep = "dash", m.second # None, m.cut,
         r.override = "none", r.floor # None, Season(r.floor) # 0,
         m.season = Season(r.floor),
         m.first < Number(r.floor), m.second >= Number(r.floor)
  PROVE  /\ LocalPattern(row, r)
         /\ \A plan : plan.floor = r.floor /\ 100 * m.season + m.second \notin plan.excluded
                        => Accepts(plan, m)
<1> DEFINE f == r.floor
           e == 100 * m.season + m.second
<1>1. f \in Episode
  BY DEF RuleRow, Floor
<1>2. m.season \in 0 .. 99 /\ m.first \in 0 .. 99 /\ m.second \in 0 .. 99
  BY DEF Mention
<1>3. row.text.mentions = {m}
  BY DEF OnlyMention
<1>4. Progress(row.text, f)
  BY <1>3 DEF Progress, FloorSeason, FloorNumber, RangeEnd, Ranged
<1>5. ~BelowFloor(row.text, f)
  BY <1>3 DEF BelowFloor, Ranged
<1>6. ~Standalone(row.text, r.existing)
  BY <1>3 DEF Standalone, Ranged
<1>7. LocalPattern(row, r)
  BY <1>4, <1>5, <1>6 DEF LocalPattern
<1>8. e >= f
  BY <1>1, <1>2, EpisodeOrder
<1>9. m.second \in (m.first .. m.second) \cup (m.second .. m.first)
  <2>1. Number(r.floor) \in 0 .. 99
    BY <1>1, FloorParts
  <2>2. \A a, b, n \in 0 .. 99 : a < n /\ b >= n => b \in a .. b
    OBVIOUS
  <2>3. m.second \in m.first .. m.second
    BY ONLY <1>2, <2>1, <2>2, m.first < Number(r.floor), m.second >= Number(r.floor)
  <2> QED BY <2>3
<1>10. e \in EpisodesOf(m)
  BY <1>9 DEF EpisodesOf
<1> QED BY <1>7, <1>8, <1>10 DEF Accepts, Wanted

\* What the page shows as a match and qBittorrent would refuse all the same: an
\* excluded word that only the pattern finds in the title, and, without a full
\* override, a title the pattern does not find, the year given by the indexer alone,
\* a group met only by words that the pattern does not find in the title, or a
\* quality profile that the settings have changed, which the filter is not given
\* (_snapshot_row_filter_failure beside build_generated_pattern).
THEOREM ShownYetRefused ==
  ASSUME NEW row, NEW r \in RuleRow, NEW defaults, NEW profiles, NEW inherits,
         Visible(row, r, EffectiveTokens(r, defaults, inherits)),
         ~QbAccepts(row, r, EffectiveTokens(r, profiles, inherits))
  PROVE  \/ \E w \in r.without : w \in row.titleWords /\ w \notin row.excluded
         \/ /\ r.override # "full"
            /\ \/ ~row.titleMatches
               \/ r.year # NoYear /\ row.year = r.year /\ r.year \notin row.titleYears
               \/ \E group \in r.groups : /\ group \cap row.titleWords = {}
                                          /\ group \cap row.included # {}
               \/ /\ r.mode # "manual" /\ r.profile \in {"hd", "uhd"}
                  /\ profiles[r.profile] # defaults[r.profile]
<1> DEFINE q == EffectiveTokens(r, defaults, inherits)
           p == EffectiveTokens(r, profiles, inherits)
<1>1. p = q \/ (/\ r.mode # "manual" /\ r.profile \in {"hd", "uhd"}
                /\ profiles[r.profile] # defaults[r.profile])
  <2>1. r.profile \in {"plain", "custom", "hd", "uhd"}
    BY DEF RuleRow
  <2> QED BY <2>1 DEF EffectiveTokens
<1> HIDE DEF q, p
<1>2. Visible(row, r, q) /\ ~QbAccepts(row, r, p)
  BY DEF q, p
<1>3. \A i \in 1 .. 11 : i \notin Failures(row, r, q)
  BY <1>2 DEF Visible
<1>4. /\ \A group \in r.groups : group \cap row.included # {}
      /\ r.without \cap row.excluded = {}
      /\ ~QualityMisses(row, q) /\ ~QualityExcluded(row, q)
      /\ LocalPattern(row, r)
      /\ r.year # NoYear => row.year = r.year
  BY <1>3 DEF Failures
<1>5. r.override = "full" => row.override
  BY <1>4 DEF LocalPattern
<1>6. CASE row.titleWords \cap r.without # {}
  BY <1>4, <1>6
<1>7. CASE row.titleWords \cap r.without = {}
  <2>1. r.override # "full"
    BY <1>2, <1>5, <1>7 DEF QbAccepts
  <2>2. \/ ~row.titleMatches
        \/ r.year # NoYear /\ r.year \notin row.titleYears
        \/ \E group \in r.groups : group \cap row.titleWords = {}
        \/ p # q
    BY <1>2, <1>4, <1>7, <2>1 DEF QbAccepts
  <2> QED BY <1>1, <1>4, <2>1, <2>2
<1> QED BY <1>6, <1>7

\* A rule whose feeds name no Jackett indexer is searched on all of them, and
\* every row of the search is then hidden.
THEOREM UnmappedFeedsHideAll ==
  ASSUME NEW r, NEW row, NEW q, NoFeedMaps(r)
  PROVE  SearchScope(r) = Indexers /\ ~Visible(row, r, q)
<1>1. 1 \in Failures(row, r, q)
  BY DEF Failures
<1> QED BY <1>1 DEF Visible, SearchScope, NoFeedMaps

\* For one plain episode the files the plan selects are those whose name the
\* pattern accepts, but for known episodes that do not exist any more.
THEOREM PlanAgreesWithPattern ==
  ASSUME NEW row, NEW r \in RuleRow, NEW m \in Mention,
         OnlyMention(row.text, m), m.sep = "none",
         r.override = "none", HasPlan(r), Season(r.floor) # 0, ~r.keep
  PROVE  Accepts(Plan(r, FALSE), m) <=>
           /\ LocalPattern(row, r)
           /\ 100 * m.season + m.first \notin r.known
<1> DEFINE e == 100 * m.season + m.first
<1>1. LocalPattern(row, r) <=> (e >= r.floor /\ e \notin r.existing)
  BY PlainEpisodeExact DEF HasPlan
<1>2. EpisodesOf(m) = {e}
  BY DEF EpisodesOf, Mention
<1>3. Accepts(Plan(r, FALSE), m) <=> (e \notin r.known \cup r.existing /\ e >= r.floor)
  BY <1>2 DEF Accepts, Wanted, Plan, Excluded
<1> QED BY <1>1, <1>3

\* A retry of existing unwatched files asks for everything a first request asked
\* for, as long as what was watched is known.
THEOREM RetrySelectsMore ==
  ASSUME NEW r, NEW files, r.watched \subseteq Owned(r)
  PROVE  Selected(files, Plan(r, FALSE)) \subseteq Selected(files, Plan(r, TRUE))
<1>1. Excluded(r, TRUE) \subseteq Excluded(r, FALSE)
  BY DEF Excluded, Owned
<1>2. ASSUME NEW m, Accepts(Plan(r, FALSE), m)
      PROVE  Accepts(Plan(r, TRUE), m)
  BY <1>1, <1>2 DEF Accepts, Wanted, Plan
<1> QED BY <1>2 DEF Selected

\* A rule that keeps searching existing unseen episodes selects the unwatched files
\* of a pack it owns, and yet never shows the pack.
THEOREM KeptPackHidden ==
  ASSUME NEW row, NEW r, NEW q, NEW m \in row.text.mentions,
         r.keep, IsPack(m), EpisodesOf(m) \subseteq Owned(r),
         NEW e \in EpisodesOf(m), e \notin r.watched, e >= r.floor
  PROVE  Accepts(Plan(r, FALSE), m) /\ ~Visible(row, r, q)
<1>1. Accepts(Plan(r, FALSE), m)
  BY DEF Accepts, Wanted, Plan, Excluded
<1>2. OwnedPack(row, r)
  BY DEF OwnedPack
<1>3. 8 \in Failures(row, r, q)
  BY <1>2 DEF Failures
<1> QED BY <1>1, <1>2, <1>3 DEF Visible

-----------------------------------------------------------------------------
CacheInv == CacheDescribesJudged /\ RowsOfTime

\* The cached counts describe the last refresh, in every reachable state.
THEOREM CacheInvariant == CacheSpec => []CacheInv
<1>1. CacheInit => CacheInv
  BY DEF CacheInit, CacheInv, CacheDescribesJudged, RowsOfTime, Never
<1>2. CacheInv /\ [CacheNext]_cacheVars => CacheInv'
  <2> SUFFICES ASSUME CacheInv, [CacheNext]_cacheVars PROVE CacheInv'
    OBVIOUS
  <2> USE DEF CacheInv, CacheDescribesJudged, RowsOfTime, Never
  <2>1. ASSUME NEW rows \in SUBSET Row, Fetch(rows) PROVE CacheInv'
    <3>1. clock' = clock + 1 /\ judged'.at = clock' /\ snapshot'.at = clock' /\ summary'.at = clock'
      BY <2>1 DEF Fetch
    <3>2. /\ judged'.rule = rule /\ judged'.rows = rows /\ snapshot'.rows = rows
          /\ snapshot'.key = Key(rule)
          /\ snapshot'.counts = Counts(FilteredCount(rule, rows), Cardinality(rows))
          /\ summary'.counts = snapshot'.counts
      BY <2>1 DEF Fetch
    <3> QED BY <3>1, <3>2
  <2>2. ASSUME NEW rows \in SUBSET Row, SearchOtherFeeds(rows) PROVE CacheInv'
    <3>1. /\ clock' = clock + 1 /\ summary' = summary /\ judged' = judged
          /\ snapshot'.at = clock' /\ snapshot'.key = snapshot.key
          /\ snapshot'.counts = snapshot.counts
      BY <2>2 DEF SearchOtherFeeds
    <3> QED BY <3>1
  <2>3. CASE ChangeRule
    BY <2>3 DEF ChangeRule
  <2>4. CASE UNCHANGED cacheVars
    BY <2>4 DEF cacheVars
  <2> QED BY <2>1, <2>2, <2>3, <2>4 DEF CacheNext
<1> QED BY <1>1, <1>2, PTL DEF CacheSpec

\* What the lists of rules show is exact under the conditions of ShownCountExact.
THEOREM ShownCounts == CacheSpec => []ShownCountExact
<1>1. CacheInv => ShownCountExact
  <2> SUFFICES ASSUME CacheInv, summary.at # Never, summary.at = snapshot.at,
                      Key(rule) = snapshot.key, Owned(rule) = Owned(judged.rule)
               PROVE  summary.counts = Counts(FilteredCount(rule, snapshot.rows),
                                              Cardinality(snapshot.rows))
    BY DEF ShownCountExact
  <2>1. /\ snapshot.rows = judged.rows /\ Key(rule) = Key(judged.rule)
        /\ summary.counts = Counts(FilteredCount(judged.rule, judged.rows),
                                   Cardinality(judged.rows))
    BY DEF CacheInv, CacheDescribesJudged, RowsOfTime
  <2>2. \A row : Failures(row, rule, LocalTokens(rule))
                  = Failures(row, judged.rule, LocalTokens(judged.rule))
    BY <2>1, SameKeySameVerdict DEF Key
  <2>3. FilteredCount(rule, judged.rows) = FilteredCount(judged.rule, judged.rows)
    BY <2>2 DEF FilteredCount, Visible
  <2> QED BY <2>1, <2>3
<1> QED BY <1>1, CacheInvariant, PTL

\* release_state_from_snapshot falls back on the rows when the key has changed: its
\* count is exact if nothing was searched since the refresh and the rule has kept
\* its owned episodes, whatever else of it has changed.
THEOREM CountForExact ==
  CacheSpec => [](snapshot.at = judged.at /\ Owned(rule) = Owned(judged.rule)
             => CountFor(rule) = FilteredCount(rule, snapshot.rows))
<1>1. ASSUME CacheInv, snapshot.at = judged.at, Owned(rule) = Owned(judged.rule)
      PROVE  CountFor(rule) = FilteredCount(rule, snapshot.rows)
  <2>1. CASE judged.at = Never
    BY <1>1, <2>1 DEF CacheInv, CacheDescribesJudged, CountFor, NoCounts, Counts
  <2>2. CASE judged.at # Never
    <3>1. /\ snapshot.rows = judged.rows /\ snapshot.key = Key(judged.rule)
          /\ snapshot.counts.filtered = FilteredCount(judged.rule, judged.rows)
      BY <1>1, <2>2 DEF CacheInv, CacheDescribesJudged, RowsOfTime, Counts
    <3>2. snapshot.key # NoCacheKey
      BY <3>1 DEF Key, CacheKey, NoCacheKey
    <3>3. CASE snapshot.key = Key(rule)
      <4>0. CacheKey(rule, LocalTokens(rule)) = CacheKey(judged.rule, LocalTokens(judged.rule))
        BY <3>1, <3>3 DEF Key
      <4>1. \A row : Failures(row, rule, LocalTokens(rule))
                      = Failures(row, judged.rule, LocalTokens(judged.rule))
        BY <1>1, <4>0, SameKeySameVerdict
      <4>2. FilteredCount(rule, judged.rows) = FilteredCount(judged.rule, judged.rows)
        BY <4>1 DEF FilteredCount, Visible
      <4> QED BY <3>1, <4>2 DEF CountFor
    <3>4. CASE snapshot.rows = {}
      <4>1. FilteredCount(rule, {}) = FilteredCount(judged.rule, {})
        BY DEF FilteredCount
      <4> QED BY <3>1, <3>4, <4>1 DEF CountFor
    <3> QED BY <3>2, <3>3, <3>4 DEF CountFor
  <2> QED BY <2>1, <2>2
<1> QED BY <1>1, CacheInvariant, PTL

\* A list never calls "exact" or "fallback" what it files under no matches, and the
\* reverse, as long as the exact matches of the search pass the rule's own filter
\* too.  The code counts the former before that filter.
THEOREM SignalAgreesWithState ==
  ASSUME NEW c, NEW exact, c.filtered \in Nat, c.fetched \in Nat,
         exact.filtered \in Nat, exact.filtered <= c.filtered
  PROVE  /\ (ReleaseState(c) = "matches") <=> (Signal(c, exact) \in {"exact", "fallback"})
         /\ (ExactState(c, exact) = "none") <=> (ReleaseState(c) # "matches")
BY DEF ReleaseState, Signal, ExactState

-----------------------------------------------------------------------------
(* SelectiveQueue: what overlapping selections leave of a torrent, for any *)
(* requests, files, plans and trackers, any failures and any restarts.     *)

\* The request that last switched all files off still has to switch its own
\* on, failed, or has done so.
WiperOK ==
    wiper # NoRequest =>
        /\ present
        /\ wiper \in Requests
        /\ step[wiper] \in {"zeroed", "torn", "set"}
        /\ step[wiper] = "set" => wiper \in fresh

\* LastWipeDecides, also while the torrent is not listed.
OnOK == on = IF wiper = NoRequest THEN Files ELSE SwitchedOn

\* Only requests with something to select come to switch files.
WantsOK ==
    /\ \A r \in Requests : step[r] \in {"wait", "seen", "zeroed"} => Wants[r] # {}
    /\ \A r \in fresh : Wants[r] # {}

\* A request that makes its selection itself is unanswered until it has.
ToldOK ==
    \A r \in Requests :
        /\ step[r] \in {"idle", "wait"} => thread[r] = "request"
        /\ step[r] = "poll" => thread[r] = "worker"
        /\ step[r] = "idle" => r \notin merging
        /\ thread[r] = "request" /\ step[r] \in {"idle", "wait", "seen", "zeroed"}
             => told[r] = "nothing"

MergedOK == MergedTrackers /\ (merged # {} => present)

Inv == TypeOK /\ WiperOK /\ OnOK /\ WantsOK /\ ToldOK /\ ToldSelected /\ MergedOK

-----------------------------------------------------------------------------
(* Types.                                                                   *)

LEMMA TypeStep ==
  ASSUME ConstantsOK, TypeOK, [Next]_vars
  PROVE  TypeOK'
PROOF
  <1>1. ASSUME NEW r \in Requests, QueueMagnet(r)
        PROVE  TypeOK'
    BY <1>1 DEF ConstantsOK, TypeOK, Steps, MaxTries, QueueMagnet, Begins, Add, WillMerge, Moves, Tells, history
  <1>2. ASSUME NEW r \in Requests, QueueFile(r)
        PROVE  TypeOK'
    BY <1>2 DEF ConstantsOK, TypeOK, Steps, MaxTries, QueueFile, Begins, Add, WillMerge, Moves, Tells, history
  <1>3. ASSUME NEW r \in Requests, QueueFull(r)
        PROVE  TypeOK'
    BY <1>3 DEF ConstantsOK, TypeOK, Steps, MaxTries, QueueFull, Begins, Add, WillMerge, Moves, Tells, history
  <1>4. ASSUME NEW r \in Requests, AddFails(r)
        PROVE  TypeOK'
    <2>1. submitted' \subseteq {"magnet", "file"}
      BY <1>4 DEF TypeOK, AddFails, Add
    <2> QED
      BY <1>4, <2>1 DEF ConstantsOK, TypeOK, Steps, MaxTries, AddFails, Begins, Moves, Tells, history
  <1>5. ASSUME NEW r \in Requests, Refuse(r)
        PROVE  TypeOK'
    <2>1. submitted' \subseteq {"magnet", "file"}
      BY <1>5 DEF TypeOK, Refuse, Add
    <2> QED
      BY <1>5, <2>1 DEF ConstantsOK, TypeOK, Steps, MaxTries, Refuse, Begins, Refused, Moves, Tells, history
  <1>6. ASSUME NEW r \in Requests, WaitSeen(r)
        PROVE  TypeOK'
    BY <1>6 DEF ConstantsOK, TypeOK, Steps, MaxTries, WaitSeen, Moves, history, torrent
  <1>7. ASSUME NEW r \in Requests, WaitFails(r)
        PROVE  TypeOK'
    BY <1>7 DEF ConstantsOK, TypeOK, Steps, MaxTries, WaitFails, Refused, Moves, Tells, history, torrent
  <1>8. ASSUME NEW r \in Requests, MergeTrackers(r)
        PROVE  TypeOK'
    BY <1>8 DEF ConstantsOK, TypeOK, Steps, MaxTries, MergeTrackers, Tells
  <1>9. ASSUME NEW r \in Requests, Poll(r)
        PROVE  TypeOK'
    BY <1>9 DEF ConstantsOK, TypeOK, Steps, MaxTries, Poll, Moves, history, torrent
  <1>10. ASSUME NEW r \in Requests, GiveUp(r)
        PROVE  TypeOK'
    BY <1>10 DEF ConstantsOK, TypeOK, Steps, MaxTries, GiveUp, Moves, history, torrent
  <1>11. ASSUME NEW r \in Requests, SetZero(r)
        PROVE  TypeOK'
    BY <1>11 DEF ConstantsOK, TypeOK, Steps, MaxTries, SetZero, Moves, ToldOfError, GroupDropped
  <1>12. ASSUME NEW r \in Requests, SetWanted(r)
        PROVE  TypeOK'
    BY <1>12 DEF ConstantsOK, TypeOK, Steps, MaxTries, SetWanted, Moves, ToldOfError, GroupDropped
  <1>13. ASSUME NEW r \in Requests, SelectionFails(r)
        PROVE  TypeOK'
    BY <1>13 DEF ConstantsOK, TypeOK, Steps, MaxTries, SelectionFails, Moves, ToldOfError, GroupDropped, history, torrent
  <1>14. CASE Restart
    BY <1>14 DEF ConstantsOK, TypeOK, Steps, MaxTries, Restart, history, torrent
  <1>15. CASE Appear
    BY <1>15 DEF ConstantsOK, TypeOK, Steps, MaxTries, Appear, requests, history
  <1>16. CASE MetadataArrives
    BY <1>16 DEF ConstantsOK, TypeOK, Steps, MaxTries, MetadataArrives, requests, history
  <1>17. CASE Remove
    BY <1>17 DEF ConstantsOK, TypeOK, Steps, MaxTries, Remove, requests
  <1>18. CASE UNCHANGED vars
    BY <1>18 DEF ConstantsOK, TypeOK, Steps, MaxTries, vars, torrent, requests, history
  <1> QED
    BY <1>1, <1>2, <1>3, <1>4, <1>5, <1>6, <1>7, <1>8, <1>9, <1>10, <1>11, <1>12, <1>13, <1>14, <1>15, <1>16, <1>17, <1>18 DEF Next, RequestStep

LEMMA WiperStep ==
  ASSUME ConstantsOK, TypeOK, WiperOK, [Next]_vars
  PROVE  WiperOK'
PROOF
  <1>1. ASSUME NEW r \in Requests, QueueMagnet(r)
        PROVE  WiperOK'
    BY <1>1 DEF ConstantsOK, TypeOK, WiperOK, QueueMagnet, Begins, Add, WillMerge, Moves, Tells, history
  <1>2. ASSUME NEW r \in Requests, QueueFile(r)
        PROVE  WiperOK'
    BY <1>2 DEF ConstantsOK, TypeOK, WiperOK, QueueFile, Begins, Add, WillMerge, Moves, Tells, history
  <1>3. ASSUME NEW r \in Requests, QueueFull(r)
        PROVE  WiperOK'
    BY <1>3 DEF ConstantsOK, TypeOK, WiperOK, QueueFull, Begins, Add, WillMerge, Moves, Tells, history
  <1>4. ASSUME NEW r \in Requests, AddFails(r)
        PROVE  WiperOK'
    BY <1>4 DEF ConstantsOK, TypeOK, WiperOK, AddFails, Begins, Add, Moves, Tells, history
  <1>5. ASSUME NEW r \in Requests, Refuse(r)
        PROVE  WiperOK'
    BY <1>5 DEF ConstantsOK, TypeOK, WiperOK, Refuse, Begins, Add, Refused, Moves, Tells, history
  <1>6. ASSUME NEW r \in Requests, WaitSeen(r)
        PROVE  WiperOK'
    BY <1>6 DEF ConstantsOK, TypeOK, WiperOK, WaitSeen, Moves, history, torrent
  <1>7. ASSUME NEW r \in Requests, WaitFails(r)
        PROVE  WiperOK'
    BY <1>7 DEF ConstantsOK, TypeOK, WiperOK, WaitFails, Refused, Moves, Tells, history, torrent
  <1>8. ASSUME NEW r \in Requests, MergeTrackers(r)
        PROVE  WiperOK'
    BY <1>8 DEF ConstantsOK, TypeOK, WiperOK, MergeTrackers, Tells
  <1>9. ASSUME NEW r \in Requests, Poll(r)
        PROVE  WiperOK'
    BY <1>9 DEF ConstantsOK, TypeOK, WiperOK, Poll, Moves, history, torrent
  <1>10. ASSUME NEW r \in Requests, GiveUp(r)
        PROVE  WiperOK'
    BY <1>10 DEF ConstantsOK, TypeOK, WiperOK, GiveUp, Moves, history, torrent
  <1>11. ASSUME NEW r \in Requests, SetZero(r)
        PROVE  WiperOK'
    BY <1>11 DEF ConstantsOK, TypeOK, WiperOK, SetZero, Moves, ToldOfError, GroupDropped
  <1>12. ASSUME NEW r \in Requests, SetWanted(r)
        PROVE  WiperOK'
    BY <1>12 DEF ConstantsOK, TypeOK, WiperOK, SetWanted, Moves, ToldOfError, GroupDropped
  <1>13. ASSUME NEW r \in Requests, SelectionFails(r)
        PROVE  WiperOK'
    BY <1>13 DEF ConstantsOK, TypeOK, WiperOK, SelectionFails, Moves, ToldOfError, GroupDropped, history, torrent
  <1>14. CASE Restart
    BY <1>14 DEF ConstantsOK, TypeOK, WiperOK, Restart, history, torrent
  <1>15. CASE Appear
    BY <1>15 DEF ConstantsOK, TypeOK, WiperOK, Appear, requests, history
  <1>16. CASE MetadataArrives
    BY <1>16 DEF ConstantsOK, TypeOK, WiperOK, MetadataArrives, requests, history
  <1>17. CASE Remove
    BY <1>17 DEF ConstantsOK, TypeOK, WiperOK, Remove, requests
  <1>18. CASE UNCHANGED vars
    BY <1>18 DEF ConstantsOK, TypeOK, WiperOK, vars, torrent, requests, history
  <1> QED
    BY <1>1, <1>2, <1>3, <1>4, <1>5, <1>6, <1>7, <1>8, <1>9, <1>10, <1>11, <1>12, <1>13, <1>14, <1>15, <1>16, <1>17, <1>18 DEF Next, RequestStep

LEMMA OnStep ==
  ASSUME ConstantsOK, TypeOK, WiperOK, OnOK, [Next]_vars
  PROVE  OnOK'
PROOF
  <1>1. ASSUME NEW r \in Requests, QueueMagnet(r)
        PROVE  OnOK'
    BY <1>1 DEF ConstantsOK, TypeOK, WiperOK, OnOK, SwitchedOn, QueueMagnet, Begins, Add, WillMerge, Moves, Tells, history
  <1>2. ASSUME NEW r \in Requests, QueueFile(r)
        PROVE  OnOK'
    BY <1>2 DEF ConstantsOK, TypeOK, WiperOK, OnOK, SwitchedOn, QueueFile, Begins, Add, WillMerge, Moves, Tells, history
  <1>3. ASSUME NEW r \in Requests, QueueFull(r)
        PROVE  OnOK'
    BY <1>3 DEF ConstantsOK, TypeOK, WiperOK, OnOK, SwitchedOn, QueueFull, Begins, Add, WillMerge, Moves, Tells, history
  <1>4. ASSUME NEW r \in Requests, AddFails(r)
        PROVE  OnOK'
    BY <1>4 DEF ConstantsOK, TypeOK, WiperOK, OnOK, SwitchedOn, AddFails, Begins, Add, Moves, Tells, history
  <1>5. ASSUME NEW r \in Requests, Refuse(r)
        PROVE  OnOK'
    BY <1>5 DEF ConstantsOK, TypeOK, WiperOK, OnOK, SwitchedOn, Refuse, Begins, Add, Refused, Moves, Tells, history
  <1>6. ASSUME NEW r \in Requests, WaitSeen(r)
        PROVE  OnOK'
    BY <1>6 DEF ConstantsOK, TypeOK, WiperOK, OnOK, SwitchedOn, WaitSeen, Moves, history, torrent
  <1>7. ASSUME NEW r \in Requests, WaitFails(r)
        PROVE  OnOK'
    BY <1>7 DEF ConstantsOK, TypeOK, WiperOK, OnOK, SwitchedOn, WaitFails, Refused, Moves, Tells, history, torrent
  <1>8. ASSUME NEW r \in Requests, MergeTrackers(r)
        PROVE  OnOK'
    BY <1>8 DEF ConstantsOK, TypeOK, WiperOK, OnOK, SwitchedOn, MergeTrackers, Tells
  <1>9. ASSUME NEW r \in Requests, Poll(r)
        PROVE  OnOK'
    BY <1>9 DEF ConstantsOK, TypeOK, WiperOK, OnOK, SwitchedOn, Poll, Moves, history, torrent
  <1>10. ASSUME NEW r \in Requests, GiveUp(r)
        PROVE  OnOK'
    BY <1>10 DEF ConstantsOK, TypeOK, WiperOK, OnOK, SwitchedOn, GiveUp, Moves, history, torrent
  <1>11. ASSUME NEW r \in Requests, SetZero(r)
        PROVE  OnOK'
    BY <1>11 DEF ConstantsOK, TypeOK, WiperOK, OnOK, SwitchedOn, SetZero, Moves, ToldOfError, GroupDropped
  <1>12. ASSUME NEW r \in Requests, SetWanted(r)
        PROVE  OnOK'
    BY <1>12 DEF ConstantsOK, TypeOK, WiperOK, OnOK, SwitchedOn, SetWanted, Moves, ToldOfError, GroupDropped
  <1>13. ASSUME NEW r \in Requests, SelectionFails(r)
        PROVE  OnOK'
    BY <1>13 DEF ConstantsOK, TypeOK, WiperOK, OnOK, SwitchedOn, SelectionFails, Moves, ToldOfError, GroupDropped, history, torrent
  <1>14. CASE Restart
    BY <1>14 DEF ConstantsOK, TypeOK, WiperOK, OnOK, SwitchedOn, Restart, history, torrent
  <1>15. CASE Appear
    BY <1>15 DEF ConstantsOK, TypeOK, WiperOK, OnOK, SwitchedOn, Appear, requests, history
  <1>16. CASE MetadataArrives
    BY <1>16 DEF ConstantsOK, TypeOK, WiperOK, OnOK, SwitchedOn, MetadataArrives, requests, history
  <1>17. CASE Remove
    BY <1>17 DEF ConstantsOK, TypeOK, WiperOK, OnOK, SwitchedOn, Remove, requests
  <1>18. CASE UNCHANGED vars
    BY <1>18 DEF ConstantsOK, TypeOK, WiperOK, OnOK, SwitchedOn, vars, torrent, requests, history
  <1> QED
    BY <1>1, <1>2, <1>3, <1>4, <1>5, <1>6, <1>7, <1>8, <1>9, <1>10, <1>11, <1>12, <1>13, <1>14, <1>15, <1>16, <1>17, <1>18 DEF Next, RequestStep

LEMMA WantsStep ==
  ASSUME ConstantsOK, TypeOK, WantsOK, [Next]_vars
  PROVE  WantsOK'
PROOF
  <1>1. ASSUME NEW r \in Requests, QueueMagnet(r)
        PROVE  WantsOK'
    BY <1>1 DEF ConstantsOK, TypeOK, WantsOK, QueueMagnet, Begins, Add, WillMerge, Moves, Tells, history
  <1>2. ASSUME NEW r \in Requests, QueueFile(r)
        PROVE  WantsOK'
    BY <1>2 DEF ConstantsOK, TypeOK, WantsOK, QueueFile, Begins, Add, WillMerge, Moves, Tells, history
  <1>3. ASSUME NEW r \in Requests, QueueFull(r)
        PROVE  WantsOK'
    BY <1>3 DEF ConstantsOK, TypeOK, WantsOK, QueueFull, Begins, Add, WillMerge, Moves, Tells, history
  <1>4. ASSUME NEW r \in Requests, AddFails(r)
        PROVE  WantsOK'
    BY <1>4 DEF ConstantsOK, TypeOK, WantsOK, AddFails, Begins, Add, Moves, Tells, history
  <1>5. ASSUME NEW r \in Requests, Refuse(r)
        PROVE  WantsOK'
    BY <1>5 DEF ConstantsOK, TypeOK, WantsOK, Refuse, Begins, Add, Refused, Moves, Tells, history
  <1>6. ASSUME NEW r \in Requests, WaitSeen(r)
        PROVE  WantsOK'
    BY <1>6 DEF ConstantsOK, TypeOK, WantsOK, WaitSeen, Moves, history, torrent
  <1>7. ASSUME NEW r \in Requests, WaitFails(r)
        PROVE  WantsOK'
    BY <1>7 DEF ConstantsOK, TypeOK, WantsOK, WaitFails, Refused, Moves, Tells, history, torrent
  <1>8. ASSUME NEW r \in Requests, MergeTrackers(r)
        PROVE  WantsOK'
    BY <1>8 DEF ConstantsOK, TypeOK, WantsOK, MergeTrackers, Tells
  <1>9. ASSUME NEW r \in Requests, Poll(r)
        PROVE  WantsOK'
    BY <1>9 DEF ConstantsOK, TypeOK, WantsOK, Poll, Moves, history, torrent
  <1>10. ASSUME NEW r \in Requests, GiveUp(r)
        PROVE  WantsOK'
    BY <1>10 DEF ConstantsOK, TypeOK, WantsOK, GiveUp, Moves, history, torrent
  <1>11. ASSUME NEW r \in Requests, SetZero(r)
        PROVE  WantsOK'
    BY <1>11 DEF ConstantsOK, TypeOK, WantsOK, SetZero, Moves, ToldOfError, GroupDropped
  <1>12. ASSUME NEW r \in Requests, SetWanted(r)
        PROVE  WantsOK'
    BY <1>12 DEF ConstantsOK, TypeOK, WantsOK, SetWanted, Moves, ToldOfError, GroupDropped
  <1>13. ASSUME NEW r \in Requests, SelectionFails(r)
        PROVE  WantsOK'
    BY <1>13 DEF ConstantsOK, TypeOK, WantsOK, SelectionFails, Moves, ToldOfError, GroupDropped, history, torrent
  <1>14. CASE Restart
    BY <1>14 DEF ConstantsOK, TypeOK, WantsOK, Restart, history, torrent
  <1>15. CASE Appear
    BY <1>15 DEF ConstantsOK, TypeOK, WantsOK, Appear, requests, history
  <1>16. CASE MetadataArrives
    BY <1>16 DEF ConstantsOK, TypeOK, WantsOK, MetadataArrives, requests, history
  <1>17. CASE Remove
    BY <1>17 DEF ConstantsOK, TypeOK, WantsOK, Remove, requests
  <1>18. CASE UNCHANGED vars
    BY <1>18 DEF ConstantsOK, TypeOK, WantsOK, vars, torrent, requests, history
  <1> QED
    BY <1>1, <1>2, <1>3, <1>4, <1>5, <1>6, <1>7, <1>8, <1>9, <1>10, <1>11, <1>12, <1>13, <1>14, <1>15, <1>16, <1>17, <1>18 DEF Next, RequestStep

LEMMA ToldStep ==
  ASSUME ConstantsOK, TypeOK, ToldOK, ToldSelected, [Next]_vars
  PROVE  ToldOK' /\ ToldSelected'
PROOF
  <1>1. ASSUME NEW r \in Requests, QueueMagnet(r)
        PROVE  ToldOK' /\ ToldSelected'
    BY <1>1 DEF TypeOK, ToldOK, ToldSelected, QueueMagnet, Begins, Add, WillMerge, Moves, Tells, history
  <1>2. ASSUME NEW r \in Requests, QueueFile(r)
        PROVE  ToldOK' /\ ToldSelected'
    BY <1>2 DEF TypeOK, ToldOK, ToldSelected, QueueFile, Begins, Add, WillMerge, Moves, Tells, history
  <1>3. ASSUME NEW r \in Requests, QueueFull(r)
        PROVE  ToldOK' /\ ToldSelected'
    BY <1>3 DEF TypeOK, ToldOK, ToldSelected, QueueFull, Begins, Add, WillMerge, Moves, Tells, history
  <1>4. ASSUME NEW r \in Requests, AddFails(r)
        PROVE  ToldOK' /\ ToldSelected'
    BY <1>4 DEF TypeOK, ToldOK, ToldSelected, AddFails, Begins, Add, Moves, Tells, history
  <1>5. ASSUME NEW r \in Requests, Refuse(r)
        PROVE  ToldOK' /\ ToldSelected'
    BY <1>5 DEF TypeOK, ToldOK, ToldSelected, Refuse, Begins, Add, Refused, Moves, Tells, history
  <1>6. ASSUME NEW r \in Requests, WaitSeen(r)
        PROVE  ToldOK' /\ ToldSelected'
    BY <1>6 DEF TypeOK, ToldOK, ToldSelected, WaitSeen, Moves, history, torrent
  <1>7. ASSUME NEW r \in Requests, WaitFails(r)
        PROVE  ToldOK' /\ ToldSelected'
    BY <1>7 DEF TypeOK, ToldOK, ToldSelected, WaitFails, Refused, Moves, Tells, history, torrent
  <1>8. ASSUME NEW r \in Requests, MergeTrackers(r)
        PROVE  ToldOK' /\ ToldSelected'
    BY <1>8 DEF TypeOK, ToldOK, ToldSelected, MergeTrackers, Tells
  <1>9. ASSUME NEW r \in Requests, Poll(r)
        PROVE  ToldOK' /\ ToldSelected'
    BY <1>9 DEF TypeOK, ToldOK, ToldSelected, Poll, Moves, history, torrent
  <1>10. ASSUME NEW r \in Requests, GiveUp(r)
        PROVE  ToldOK' /\ ToldSelected'
    BY <1>10 DEF TypeOK, ToldOK, ToldSelected, GiveUp, Moves, history, torrent
  <1>11. ASSUME NEW r \in Requests, SetZero(r)
        PROVE  ToldOK' /\ ToldSelected'
    BY <1>11 DEF TypeOK, ToldOK, ToldSelected, SetZero, Moves, ToldOfError, GroupDropped
  <1>12. ASSUME NEW r \in Requests, SetWanted(r)
        PROVE  ToldOK' /\ ToldSelected'
    BY <1>12 DEF TypeOK, ToldOK, ToldSelected, SetWanted, Moves, ToldOfError, GroupDropped
  <1>13. ASSUME NEW r \in Requests, SelectionFails(r)
        PROVE  ToldOK' /\ ToldSelected'
    BY <1>13 DEF TypeOK, ToldOK, ToldSelected, SelectionFails, Moves, ToldOfError, GroupDropped, history, torrent
  <1>14. CASE Restart
    BY <1>14 DEF TypeOK, ToldOK, ToldSelected, Restart, history, torrent
  <1>15. CASE Appear
    BY <1>15 DEF TypeOK, ToldOK, ToldSelected, Appear, requests, history
  <1>16. CASE MetadataArrives
    BY <1>16 DEF TypeOK, ToldOK, ToldSelected, MetadataArrives, requests, history
  <1>17. CASE Remove
    BY <1>17 DEF TypeOK, ToldOK, ToldSelected, Remove, requests
  <1>18. CASE UNCHANGED vars
    BY <1>18 DEF TypeOK, ToldOK, ToldSelected, vars, torrent, requests, history
  <1> QED
    BY <1>1, <1>2, <1>3, <1>4, <1>5, <1>6, <1>7, <1>8, <1>9, <1>10, <1>11, <1>12, <1>13, <1>14, <1>15, <1>16, <1>17, <1>18 DEF Next, RequestStep

LEMMA MergedStep ==
  ASSUME ConstantsOK, TypeOK, MergedOK, [Next]_vars
  PROVE  MergedOK'
PROOF
  <1>1. ASSUME NEW r \in Requests, QueueMagnet(r)
        PROVE  MergedOK'
    BY <1>1 DEF ConstantsOK, TypeOK, MergedOK, MergedTrackers, QueueMagnet, Begins, Add, WillMerge, Moves, Tells, history
  <1>2. ASSUME NEW r \in Requests, QueueFile(r)
        PROVE  MergedOK'
    BY <1>2 DEF ConstantsOK, TypeOK, MergedOK, MergedTrackers, QueueFile, Begins, Add, WillMerge, Moves, Tells, history
  <1>3. ASSUME NEW r \in Requests, QueueFull(r)
        PROVE  MergedOK'
    BY <1>3 DEF ConstantsOK, TypeOK, MergedOK, MergedTrackers, QueueFull, Begins, Add, WillMerge, Moves, Tells, history
  <1>4. ASSUME NEW r \in Requests, AddFails(r)
        PROVE  MergedOK'
    BY <1>4 DEF ConstantsOK, TypeOK, MergedOK, MergedTrackers, AddFails, Begins, Add, Moves, Tells, history
  <1>5. ASSUME NEW r \in Requests, Refuse(r)
        PROVE  MergedOK'
    BY <1>5 DEF ConstantsOK, TypeOK, MergedOK, MergedTrackers, Refuse, Begins, Add, Refused, Moves, Tells, history
  <1>6. ASSUME NEW r \in Requests, WaitSeen(r)
        PROVE  MergedOK'
    BY <1>6 DEF ConstantsOK, TypeOK, MergedOK, MergedTrackers, WaitSeen, Moves, history, torrent
  <1>7. ASSUME NEW r \in Requests, WaitFails(r)
        PROVE  MergedOK'
    BY <1>7 DEF ConstantsOK, TypeOK, MergedOK, MergedTrackers, WaitFails, Refused, Moves, Tells, history, torrent
  <1>8. ASSUME NEW r \in Requests, MergeTrackers(r)
        PROVE  MergedOK'
    BY <1>8 DEF ConstantsOK, TypeOK, MergedOK, MergedTrackers, MergeTrackers, Tells
  <1>9. ASSUME NEW r \in Requests, Poll(r)
        PROVE  MergedOK'
    BY <1>9 DEF ConstantsOK, TypeOK, MergedOK, MergedTrackers, Poll, Moves, history, torrent
  <1>10. ASSUME NEW r \in Requests, GiveUp(r)
        PROVE  MergedOK'
    BY <1>10 DEF ConstantsOK, TypeOK, MergedOK, MergedTrackers, GiveUp, Moves, history, torrent
  <1>11. ASSUME NEW r \in Requests, SetZero(r)
        PROVE  MergedOK'
    BY <1>11 DEF ConstantsOK, TypeOK, MergedOK, MergedTrackers, SetZero, Moves, ToldOfError, GroupDropped
  <1>12. ASSUME NEW r \in Requests, SetWanted(r)
        PROVE  MergedOK'
    BY <1>12 DEF ConstantsOK, TypeOK, MergedOK, MergedTrackers, SetWanted, Moves, ToldOfError, GroupDropped
  <1>13. ASSUME NEW r \in Requests, SelectionFails(r)
        PROVE  MergedOK'
    BY <1>13 DEF ConstantsOK, TypeOK, MergedOK, MergedTrackers, SelectionFails, Moves, ToldOfError, GroupDropped, history, torrent
  <1>14. CASE Restart
    BY <1>14 DEF ConstantsOK, TypeOK, MergedOK, MergedTrackers, Restart, history, torrent
  <1>15. CASE Appear
    BY <1>15 DEF ConstantsOK, TypeOK, MergedOK, MergedTrackers, Appear, requests, history
  <1>16. CASE MetadataArrives
    BY <1>16 DEF ConstantsOK, TypeOK, MergedOK, MergedTrackers, MetadataArrives, requests, history
  <1>17. CASE Remove
    BY <1>17 DEF ConstantsOK, TypeOK, MergedOK, MergedTrackers, Remove, requests
  <1>18. CASE UNCHANGED vars
    BY <1>18 DEF ConstantsOK, TypeOK, MergedOK, MergedTrackers, vars, torrent, requests, history
  <1> QED
    BY <1>1, <1>2, <1>3, <1>4, <1>5, <1>6, <1>7, <1>8, <1>9, <1>10, <1>11, <1>12, <1>13, <1>14, <1>15, <1>16, <1>17, <1>18 DEF Next, RequestStep

-----------------------------------------------------------------------------
(* The specification.                                                       *)

LEMMA InitInv == ASSUME ConstantsOK, Init PROVE Inv
PROOF
  <1>1. TypeOK
    <2>1. submitted \subseteq {"magnet", "file"} /\ present \in BOOLEAN /\ known \in BOOLEAN
      BY DEF Init
    <2>2. /\ step \in [Requests -> Steps]
          /\ thread \in [Requests -> {"request", "worker"}]
          /\ told \in [Requests -> {"nothing", "deferred", "selected", "full", "error"}]
      BY DEF Init, Steps
    <2>3. tries \in [Requests -> 0..MaxTries]
      BY DEF Init, MaxTries
    <2> QED  BY <2>1, <2>2, <2>3 DEF Init, TypeOK
  <1>2. WiperOK /\ OnOK /\ WantsOK
    BY DEF ConstantsOK, Init, WiperOK, OnOK, WantsOK
  <1>3. ToldOK /\ ToldSelected /\ MergedOK
    BY DEF Init, ToldOK, ToldSelected, MergedOK, MergedTrackers
  <1> QED  BY <1>1, <1>2, <1>3 DEF Inv

LEMMA StepInv == ASSUME ConstantsOK, Inv, [Next]_vars PROVE Inv'
  BY TypeStep, WiperStep, OnStep, WantsStep, ToldStep, MergedStep DEF Inv

\* The inductive invariant: whatever requests overlap, fail or are cut off by
\* a restart, the types hold and the switched files are accounted for.
THEOREM Selection == ASSUME ConstantsOK PROVE Spec => []Inv
PROOF
  <1>1. Init => Inv  BY InitInv
  <1>2. Inv /\ [Next]_vars => Inv'  BY StepInv
  <1> QED  BY <1>1, <1>2, PTL DEF Spec

\* The files that download are those switched on since the last time all were
\* switched off by a request, or all files if none was.
THEOREM FilesAccounted == ASSUME ConstantsOK PROVE Spec => []LastWipeDecides
PROOF
  <1>1. Inv => LastWipeDecides  BY DEF Inv, OnOK, LastWipeDecides
  <1> QED  BY <1>1, Selection, PTL

\* A torrent of which nothing downloads was left so by a request between its
\* two calls, which is still to make the second or has failed to.
THEOREM NothingOnOnlyTorn == ASSUME ConstantsOK PROVE Spec => []NothingOnExplained
PROOF
  <1>1. Inv => NothingOnExplained
    <2> SUFFICES ASSUME Inv, present, on = {} PROVE wiper # NoRequest /\ step[wiper] \in {"zeroed", "torn"}
      BY DEF NothingOnExplained
    <2>1. wiper # NoRequest
      BY DEF Inv, OnOK, ConstantsOK
    <2>2. fresh = {}
      <3> SUFFICES ASSUME NEW r \in fresh PROVE FALSE
        OBVIOUS
      <3>1. PICK f : f \in Wants[r]
        BY DEF Inv, WantsOK
      <3>2. f \in SwitchedOn
        BY <3>1 DEF Inv, TypeOK, SwitchedOn, ConstantsOK
      <3> QED  BY <2>1, <3>2 DEF Inv, OnOK
    <2> QED  BY <2>1, <2>2 DEF Inv, WiperOK
  <1> QED  BY <1>1, Selection, PTL

\* The last request to switch all files off and its own on has its files,
\* whatever calls of others came in between.
THEOREM LastRequestServed == ASSUME ConstantsOK PROVE Spec => []LastServed
PROOF
  <1>1. Inv => LastServed
    BY DEF Inv, WiperOK, OnOK, SwitchedOn, LastServed, ConstantsOK
  <1> QED  BY <1>1, Selection, PTL

\* Requests that want the same files leave exactly these on.
THEOREM RepeatedRequestHarmless == ASSUME ConstantsOK PROVE Spec => []AgreeingRequests
PROOF
  <1>1. Inv => AgreeingRequests
    <2> SUFFICES ASSUME Inv, NEW W \in SUBSET Files,
                        \A r \in Requests : Wants[r] \in {{}, W},
                        wiper # NoRequest, step[wiper] = "set", present
                 PROVE  on = W
      BY DEF AgreeingRequests
    <2>1. \A r \in fresh : Wants[r] = W
      BY DEF Inv, TypeOK, WantsOK
    <2>2. wiper \in fresh
      BY DEF Inv, WiperOK
    <2> QED  BY <2>1, <2>2 DEF Inv, OnOK, SwitchedOn
  <1> QED  BY <1>1, Selection, PTL

\* A request that wants all that an earlier one wanted (a retry of existing
\* files after a first request of the same rule: RetrySelectsMore)
\* takes no file away from it.
RetryKeeps ==
    \A first, retry \in Requests :
        /\ Wants[first] \subseteq Wants[retry]
        /\ wiper = retry
        /\ step[retry] = "set"
        => Wants[first] \subseteq on
THEOREM RetryTakesNothing == ASSUME ConstantsOK PROVE Spec => []RetryKeeps
PROOF
  <1>1. Inv => RetryKeeps
    BY DEF Inv, WiperOK, OnOK, SwitchedOn, RetryKeeps, ConstantsOK
  <1> QED  BY <1>1, Selection, PTL

\* Two requests that want different files do not both get them: once the last
\* one has switched all off and only its own on, the files of the other are
\* off, although that one was answered "queued only missing/unseen files".
SecondOverrides ==
    \A first, second \in Requests :
        /\ present
        /\ told[first] = "selected"
        /\ wiper = second
        /\ fresh = {second}
        => \A f \in Wants[first] : f \in on => f \in Wants[second]
THEOREM SecondRequestOverrides == ASSUME ConstantsOK PROVE Spec => []SecondOverrides
PROOF
  <1>1. Inv => SecondOverrides
    BY DEF Inv, OnOK, SwitchedOn, SecondOverrides, ConstantsOK
  <1> QED  BY <1>1, Selection, PTL

\* "Queued only missing/unseen episode files" is told only when both calls
\* were answered.
THEOREM SelectedIsTold == ASSUME ConstantsOK PROVE Spec => []ToldSelected
PROOF
  <1>1. Inv => ToldSelected  BY DEF Inv
  <1> QED  BY <1>1, Selection, PTL

\* The trackers of a grouped request stay with the torrent.
THEOREM TrackersMerged == ASSUME ConstantsOK PROVE Spec => []MergedTrackers
PROOF
  <1>1. Inv => MergedTrackers  BY DEF Inv, MergedOK
  <1> QED  BY <1>1, Selection, PTL

\* A request is answered once.
THEOREM AnsweredOnce == ASSUME ConstantsOK PROVE Spec => AnswersFinal
PROOF
  <1> DEFINE Final == \A r \in Requests :
                 told[r] # "nothing" => told'[r] = told[r] \/ (r \in merging /\ told'[r] = "error")
  <1>1. ASSUME Inv, [Next]_vars PROVE Final
    <2>1. ASSUME NEW q \in Requests, RequestStep(q) PROVE Final
      <3>1. CASE QueueMagnet(q) \/ QueueFile(q) \/ QueueFull(q) \/ AddFails(q) \/ Refuse(q)
        BY <1>1, <3>1 DEF Inv, TypeOK, ToldOK, QueueMagnet, QueueFile, QueueFull, AddFails,
           Refuse, Refused, Begins, Tells
      <3>2. CASE WaitSeen(q) \/ WaitFails(q) \/ Poll(q) \/ GiveUp(q)
        BY <1>1, <3>2 DEF Inv, TypeOK, ToldOK, WaitSeen, WaitFails, Poll, GiveUp, Refused, Tells
      <3>3. CASE MergeTrackers(q)
        BY <1>1, <3>3 DEF Inv, TypeOK, MergeTrackers, Tells
      <3>4. CASE SetZero(q) \/ SetWanted(q) \/ SelectionFails(q)
        BY <1>1, <3>4 DEF Inv, TypeOK, ToldOK, SetZero, SetWanted, SelectionFails, ToldOfError
      <3> QED  BY <2>1, <3>1, <3>2, <3>3, <3>4 DEF RequestStep
    <2>2. CASE Restart
      BY <1>1, <2>2 DEF Inv, TypeOK, Restart
    <2>3. CASE Appear \/ MetadataArrives \/ Remove \/ UNCHANGED vars
      BY <2>3 DEF Appear, MetadataArrives, Remove, vars, requests
    <2> QED  BY <1>1, <2>1, <2>2, <2>3 DEF Next
  <1> HIDE DEF Final
  <1>2. Spec => []Inv  BY Selection
  <1>3. Inv /\ [Next]_vars => [Final]_vars  BY <1>1
  <1> QED  BY <1>2, <1>3, PTL DEF Spec, AnswersFinal, Final

=============================================================================
