-------------------------- MODULE WatchProgressSync --------------------------
(***************************************************************************)
(* sync_watch_progress (app/services/watch_progress_sync.py) for one       *)
(* series in both libraries, with people watching on either side between   *)
(* its writes.                                                             *)
(***************************************************************************)
EXTENDS WatchProgress, SequencesExt

CONSTANTS Episodes,   \* episodes of the series in Jellyfin, in the catalog's order:
                      \* naturals other than Whole
          Positions,  \* positions a player may stop at, naturals above 0
          MaxActs,    \* bound on the acts of people (model checking only)
          MaxSyncs    \* bound on the syncs (model checking only)

VARIABLES jellyfin,  \* user data per episode
          stremio,   \* the series' item, active in the library
          writes,    \* writes the running sync has yet to make
          acts, syncs

vars == <<jellyfin, stremio, writes, acts, syncs>>

\* The records of the series in Jellyfin, by collect_watch_progress.
JellyfinRecordSet ==
  {JellyfinRecord(e, jellyfin[e]) : e \in {x \in Episodes : HasRecord(jellyfin[x])}}

\* _latest_record of a set: any with the latest time, none being the earliest.
LatestOf(records) == {r \in records : \A s \in records : r.updated >= s.updated}

\* _records_to_write_for_winner: all completed ones and the winner, the winner
\* last unless another has its time.
WriteOrder(records, winner) ==
  SetToSortSeq({r \in records : r.completed} \cup {winner},
               LAMBDA r, s : \/ r.updated < s.updated
                             \/ r.updated = s.updated /\ r.item < s.item)

Into(provider, records) ==
  [i \in DOMAIN records |-> [into |-> provider, record |-> records[i]]]

\* WatchProgressSyncService.sync.  A Stremio winner needs an item of Jellyfin's
\* with a record of its own (_with_jellyfin_target).
Plan(left) ==
  LET right == SeriesRecord(stremio, Episodes)
  IN CASE Choose(left, right) = "left" ->
            Into("stremio", WriteOrder(JellyfinRecordSet, left))
       [] Choose(left, right) = "right" ->
            IF \E r \in JellyfinRecordSet : r.item = right.item
            THEN Into("jellyfin", <<right>>) ELSE <<>>
       [] OTHER -> <<>>

Init ==
  /\ jellyfin = [e \in Episodes |-> [position |-> 0, played |-> FALSE, at |-> NoTime]]
  /\ stremio = [video |-> Whole, time |-> 0, bits |-> {}, at |-> NoTime]
  /\ writes = <<>>
  /\ acts = 0 /\ syncs = 0

Act == acts < MaxActs /\ acts' = acts + 1 /\ UNCHANGED <<writes, syncs>>

\* Somebody plays an episode in Jellyfin, to the end or to some position.
PlayInJellyfin(e, position) ==
  /\ Act
  /\ jellyfin' = [jellyfin EXCEPT ![e] = [position |-> position, played |-> position = 0,
                                          at |-> acts]]
  /\ UNCHANGED stremio

\* Likewise in Stremio, which sets the episode's bit at its end.
PlayInStremio(e, position, end) ==
  /\ Act
  /\ stremio' = [video |-> e, time |-> position, at |-> acts,
                 bits |-> IF end THEN stremio.bits \cup {e} ELSE stremio.bits]
  /\ UNCHANGED jellyfin

\* Both sides are read and compared.
Begin ==
  /\ writes = <<>>
  /\ syncs < MaxSyncs
  /\ \E left \in LatestOf(JellyfinRecordSet) : writes' = Plan(left)
  /\ syncs' = syncs + 1
  /\ UNCHANGED <<jellyfin, stremio, acts>>

\* One call of a writer, which reads the item it writes.
Write ==
  /\ writes # <<>>
  /\ LET w == Head(writes)
     IN IF w.into = "stremio"
        THEN /\ stremio' = WriteSeries(w.record, stremio, Episodes)
             /\ UNCHANGED jellyfin
        ELSE /\ jellyfin' = [jellyfin EXCEPT ![w.record.item] = WriteJellyfin(w.record, @)]
             /\ UNCHANGED stremio
  /\ writes' = Tail(writes)
  /\ UNCHANGED <<acts, syncs>>

\* A writer fails: the other writes of the title are given up.
WriteFails ==
  /\ writes # <<>>
  /\ writes' = <<>>
  /\ UNCHANGED <<jellyfin, stremio, acts, syncs>>

Next ==
  \/ \E e \in Episodes :
       \/ \E position \in Positions \cup {0} : PlayInJellyfin(e, position)
       \/ \E position \in Positions, end \in BOOLEAN : PlayInStremio(e, position, end)
  \/ Begin \/ Write \/ WriteFails

Spec == Init /\ [][Next]_vars

-----------------------------------------------------------------------------
\* "Missing progress on one side does not clear progress on the other"
\* (docs/plans/phase-32-bidirectional-watch-progress-sync.md:21): a write into
\* Stremio unmarks no episode of which Jellyfin has no progress.
MissingClearsNothing ==
  [][\A e \in stremio.bits \ stremio'.bits : HasRecord(jellyfin[e])]_vars
=============================================================================
