-------------------------- MODULE HistoryDownload --------------------------
(* A Real-Debrid download of the account's history is handed to              *)
(* MyJDownloader (_queue_real_debrid_history_download).                      *)
(*                                                                           *)
(* A request looks for the job of the item, hands the link over when there is*)
(* none, and inserts the job, whose key is unique.  Left out: finding the    *)
(* item and its link, whose failure ends a request before the hand-over.     *)

EXTENDS Integers

CONSTANTS Items, Requests, NoItem

VARIABLES
    jobs,           \* items with a job
    request,        \* request[r]: its stage and its item
    handed,         \* external: handed[i]: how often MyJDownloader took item i
    cleaned,        \* history: cleaned[i]: how often the job of item i was removed
    overlapped      \* history: items asked for while another request was busy with them,
                    \* or handed over by a request that failed afterwards

historyVars == <<jobs, request, handed, cleaned, overlapped>>

Asleep == [stage |-> "none", item |-> NoItem]

HistoryTypeOK ==
    /\ jobs \subseteq Items
    /\ request \in [Requests -> [stage : {"none", "free", "handed"}, item : Items \cup {NoItem}]]
    /\ \A r \in Requests : request[r].stage # "none" => request[r].item \in Items
    /\ handed \in [Items -> Nat] /\ cleaned \in [Items -> Nat]
    /\ overlapped \subseteq Items

HistoryInit ==
    /\ jobs = {}
    /\ request = [r \in Requests |-> Asleep]
    /\ handed = [i \in Items |-> 0] /\ cleaned = handed
    /\ overlapped = {}

\* r finds no job; a request that finds one answers "already queued".
CheckFree(r, i) ==
    /\ request[r].stage = "none" /\ i \notin jobs
    /\ request' = [request EXCEPT ![r] = [stage |-> "free", item |-> i]]
    /\ overlapped' = IF \E q \in Requests : request[q].stage # "none" /\ request[q].item = i
                     THEN overlapped \cup {i} ELSE overlapped
    /\ UNCHANGED <<jobs, handed, cleaned>>

HandOver(r) ==
    /\ request[r].stage = "free"
    /\ handed' = [handed EXCEPT ![request[r].item] = @ + 1]
    /\ request' = [request EXCEPT ![r].stage = "handed"]
    /\ UNCHANGED <<jobs, cleaned, overlapped>>

\* The job is inserted, unless another request was faster.
Insert(r) ==
    /\ request[r].stage = "handed"
    /\ jobs' = jobs \cup {request[r].item}
    /\ request' = [request EXCEPT ![r] = Asleep]
    /\ UNCHANGED <<handed, cleaned, overlapped>>

\* MyJDownloader refuses or does not answer, the insert fails, or the process ends.
Break(r) ==
    /\ request[r].stage # "none"
    /\ overlapped' = IF request[r].stage = "handed" THEN overlapped \cup {request[r].item}
                     ELSE overlapped
    /\ request' = [request EXCEPT ![r] = Asleep]
    /\ UNCHANGED <<jobs, handed, cleaned>>

\* The user removes the job (/acceleration/jobs/{id}/cleanup), to download the item anew.
Cleanup(i) ==
    /\ i \in jobs /\ jobs' = jobs \ {i}
    /\ cleaned' = [cleaned EXCEPT ![i] = @ + 1]
    /\ UNCHANGED <<request, handed, overlapped>>

HistoryNext ==
    \/ \E r \in Requests : (\E i \in Items : CheckFree(r, i)) \/ HandOver(r) \/ Insert(r) \/ Break(r)
    \/ \E i \in Items : Cleanup(i)

HistorySpec == HistoryInit /\ [][HistoryNext]_historyVars

\* Each item is handed over once, and again only after its job was removed, unless two
\* requests for it overlapped or one failed between the hand-over and the insert.
HandedOnce == \A i \in Items \ overlapped : handed[i] <= 1 + cleaned[i]

\* An item with a job was handed over: no request is answered "already queued" in vain.
JobsHanded == \A i \in jobs : handed[i] >= 1
=============================================================================
