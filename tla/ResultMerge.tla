----------------------------- MODULE ResultMerge -----------------------------
(* How the rows that the indexers return for one section of a search are     *)
(* grouped into results (JackettClient._merge_results).                      *)
(*                                                                           *)
(* Rows arrive in batches, one for each answered request.  A row belongs to  *)
(* the group of its key: its info hash, or else its guid, or else its title  *)
(* and size.  Trackers that hide the hash are bridged into a group that      *)
(* knows it: a row whose signature (words of the title, 64 MiB bucket of the *)
(* size, year, quality) is that of such a group joins it whatever its key,   *)
(* and the first row with a hash gathers the groups of its signature.  The   *)
(* better seeded of two joined rows gives the group its title, size, hash    *)
(* and other details, its face.                                              *)

EXTENDS Integers

CONSTANTS
    Rows,       \* what the indexers return
    Hashes,     \* info hashes
    NoHash,     \* of a row whose tracker hides it
    HashOf,     \* HashOf[r]
    Others,     \* guids, and titles with sizes
    OtherKeyOf, \* OtherKeyOf[r]: the key of r if it has no hash
    Signatures,
    NoSignature,\* of a row of unknown size, or whose title has no two latin words
    SignatureOf,\* SignatureOf[r]
    RankOf,     \* RankOf[r]: seeders, then peers, grabs, and what details it has
    NoKey,
    NoGroup

VARIABLES
    groups,     \* groups[k]: the group merged under key k, if there is one
    bridge,     \* bridge[s]: the key under which rows of signature s are merged
    taken       \* history: the rows merged so far

mergeVars == <<groups, bridge, taken>>

Keys == Hashes \cup Others
KeyOf(r) == IF HashOf[r] # NoHash THEN HashOf[r] ELSE OtherKeyOf[r]

\* A group: its face, the info hash it shows, and the rows behind its links.
Group == [face : Rows, hash : Hashes \cup {NoHash}, rows : SUBSET Rows]

ResultsOK ==
    /\ NoHash \notin Hashes
    /\ HashOf \in [Rows -> Hashes \cup {NoHash}]
    /\ Hashes \cap Others = {}
    /\ OtherKeyOf \in [Rows -> Others]
    /\ NoSignature \notin Signatures
    /\ SignatureOf \in [Rows -> Signatures \cup {NoSignature}]
    /\ RankOf \in [Rows -> Int]
    /\ NoKey \notin Keys
    /\ NoGroup \notin Group

MergeTypeOK ==
    /\ groups \in [Keys -> Group \cup {NoGroup}]
    /\ bridge \in [Signatures -> Keys \cup {NoKey}]
    /\ taken \subseteq Rows

MergeInit ==
    /\ groups = [k \in Keys |-> NoGroup]
    /\ bridge = [s \in Signatures |-> NoKey]
    /\ taken = {}

-----------------------------------------------------------------------------
Exists(k) == groups[k] # NoGroup

\* The signature of a group is that of its face.
Signed(k, s) == Exists(k) /\ SignatureOf[groups[k].face] = s

\* r joins a group; with no group there, r is one.
Joined(group, r) ==
    IF group = NoGroup THEN [face |-> r, hash |-> HashOf[r], rows |-> {r}]
    ELSE IF RankOf[r] > RankOf[group.face]
         THEN [face |-> r, hash |-> HashOf[r], rows |-> group.rows \cup {r}]
         ELSE [group EXCEPT !.rows = @ \cup {r}]

JoinsAt(k, r) == groups' = [groups EXCEPT ![k] = Joined(@, r)]

\* A batch begins: a signature is bridged if a group of it shows a hash.
NewBatch ==
    /\ bridge' \in [Signatures -> Keys \cup {NoKey}]
    /\ \A s \in Signatures :
         LET hashed == {k \in Keys : Signed(k, s) /\ groups[k].hash # NoHash}
         IN IF hashed = {} THEN bridge'[s] = NoKey ELSE bridge'[s] \in hashed
    /\ UNCHANGED <<groups, taken>>

Bridged(r) == SignatureOf[r] # NoSignature /\ bridge[SignatureOf[r]] # NoKey

\* r joins the group its signature is bridged to, whatever its own hash.
Bridge(r) ==
    /\ Bridged(r)
    /\ JoinsAt(bridge[SignatureOf[r]], r)
    /\ UNCHANGED bridge

\* r has the first hash of its signature: the groups of that signature become one
\* under its hash, with its hash, and with the best of their faces.  A group under
\* that hash whose face has another signature is replaced.
Gather(r) ==
    LET s == SignatureOf[r]
        alike == {k \in Keys : Signed(k, s)}
        faces == {groups[k].face : k \in alike}
        members == {q \in Rows : q = r \/ \E k \in alike : q \in groups[k].rows}
    IN /\ ~Bridged(r)
       /\ s # NoSignature /\ HashOf[r] # NoHash
       /\ bridge' = [bridge EXCEPT ![s] = HashOf[r]]
       /\ IF alike = {}
          THEN JoinsAt(HashOf[r], r)
          ELSE \E face \in faces \cup {r} :
                 /\ \A other \in faces \cup {r} : RankOf[other] <= RankOf[face]
                 /\ groups' = [k \in Keys |->
                      IF k = HashOf[r]
                      THEN [face |-> face, hash |-> HashOf[r], rows |-> members]
                      ELSE IF k \in alike THEN NoGroup ELSE groups[k]]

\* r has no bridge and cannot make one: it joins the group of its key.
Join(r) ==
    /\ ~Bridged(r)
    /\ SignatureOf[r] = NoSignature \/ HashOf[r] = NoHash
    /\ JoinsAt(KeyOf(r), r)
    /\ UNCHANGED bridge

Take(r) ==
    /\ Bridge(r) \/ Gather(r) \/ Join(r)
    /\ taken' = taken \cup {r}

MergeNext == NewBatch \/ \E r \in Rows : Take(r)

MergeSpec == MergeInit /\ [][MergeNext]_mergeVars

-----------------------------------------------------------------------------
(* Properties.                                                               *)

\* The rows behind the links of the results.
Held == {r \in Rows : \E k \in Keys : Exists(k) /\ r \in groups[k].rows}

\* Every row that an indexer returned is behind a link of some result
\* (_merge_results).
NothingLost == taken \subseteq Held

\* r gathers the groups of its signature under a hash whose group has another one.
Overwrites(r) ==
    /\ Gather(r)
    /\ Exists(HashOf[r]) /\ ~Signed(HashOf[r], SignatureOf[r])
    /\ \E k \in Keys : Signed(k, SignatureOf[r])

\* A row comes behind a link when it is taken, and it stays there unless the group
\* it is in is overwritten (_merge_results; del merged[existing_key]).
LosesOnlyOverwritten ==
    Held \cup (taken' \ taken)
      \subseteq Held' \cup {q \in Rows : \E r \in Rows : Overwrites(r)
                                                       /\ q \in groups[HashOf[r]].rows}

\* A torrent that cannot be told from another by its title, size, year and quality:
\* a row of it has the signature of a row with another hash.
LooksLikeAnother(h) ==
    \E r, q \in Rows :
      /\ HashOf[r] = h /\ HashOf[q] \notin {h, NoHash}
      /\ SignatureOf[r] = SignatureOf[q] /\ SignatureOf[r] # NoSignature

\* A torrent is one result, whatever titles and sizes its trackers report, unless it
\* looks like another: its rows are in the group of its hash and in no other, with no
\* row of another hash (tests/test_jackett.py, ..._groups_same_hash_duplicates_...).
OneResultPerTorrent ==
    \A h \in Hashes : LooksLikeAnother(h) \/
      \A k \in Keys : Exists(k) => \A r \in groups[k].rows :
        /\ HashOf[r] = h => k = h
        /\ k = h => HashOf[r] \in {h, NoHash}

\* If its trackers also agree on its signature, none of its rows is ever lost.
AgreedTorrentsKept ==
    \A h \in Hashes :
      \/ LooksLikeAnother(h)
      \/ \E r, q \in Rows : HashOf[r] = h /\ HashOf[q] = h /\ SignatureOf[r] # SignatureOf[q]
      \/ \A r \in taken : HashOf[r] = h => Exists(h) /\ r \in groups[h].rows
=============================================================================
