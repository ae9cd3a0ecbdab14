--------------------------- MODULE SelectiveQueue ---------------------------
(* One torrent of qBittorrent and the requests that queue it                *)
(* (POST /search/queue), each of which wants some of its files: the files   *)
(* of missing or unseen episodes that the plan of the request's rule        *)
(* selects (ReleaseFilter!Selected).                                        *)
(*                                                                          *)
(* A magnet is added at once and its files are chosen later, by a daemon    *)
(* thread that polls qBittorrent until the list of files is known, for 45   *)
(* seconds at most.  A torrent file is inspected first, added, waited for,  *)
(* and its files are chosen by the request itself.  In both cases the       *)
(* choice is two calls: every file to priority 0, then the wanted files to  *)
(* priority 1.  Requests for the same torrent share no lock, so these calls *)
(* interleave; any call may fail, or succeed and lose its reply; and a      *)
(* restart of the application ends every request and every thread.          *)

EXTENDS Integers

CONSTANTS
    Requests,   \* the requests that queue this torrent
    Files,      \* the files of the torrent
    Wants,      \* Wants[r]: the files the plan of r selects
    Parsed,     \* Parsed[r]: some file of the torrent names an episode
    Grouped,    \* Grouped[r]: r carries several links of the same hash
    Trackers,   \* the trackers the links announce
    Announces,  \* Announces[r]: the trackers of the links of r
    NoRequest   \* stands for none of the requests

VARIABLES
    submitted,  \* forms in which qBittorrent was handed the torrent and has not listed it
    present,    \* qBittorrent lists the torrent
    known,      \* it knows the torrent's files
    on,         \* the files with a priority above 0
    trackers,   \* the trackers of the torrent
    step,       \* step[r]: how far the selection of r has come
    thread,     \* thread[r]: who makes it, the request or a daemon thread
    tries,      \* tries[r]: attempts of r begun
    told,       \* told[r]: the answer to r
    merging,    \* requests that still have to merge trackers
    merged,     \* requests that have merged theirs into the listed torrent
    wiper,      \* the last request whose zero call reached the listed torrent
    fresh       \* the requests whose files were switched on since then

torrent == <<submitted, present, known, on, trackers>>
requests == <<step, thread, tries, told, merging>>
history == <<merged, wiper, fresh>>
vars == <<torrent, requests, history>>

\* The attempts of a request: the first, and one on a link that a new search
\* of the rule returned in place of the stale one.
MaxTries == 2

ConstantsOK ==
    /\ NoRequest \notin Requests
    /\ Files # {}
    /\ Wants \in [Requests -> SUBSET Files]
    /\ Parsed \in [Requests -> BOOLEAN]
    /\ \A r \in Requests : Wants[r] # {} => Parsed[r]
    /\ Grouped \in [Requests -> BOOLEAN]
    /\ Announces \in [Requests -> SUBSET Trackers]

Steps == {"idle", "poll", "wait", "seen", "zeroed",     \* under way
          "set", "torn", "gone", "full", "refused"}     \* ended

TypeOK ==
    /\ submitted \subseteq {"magnet", "file"}
    /\ present \in BOOLEAN
    /\ known \in BOOLEAN
    /\ on \subseteq Files
    /\ trackers \subseteq Trackers
    /\ step \in [Requests -> Steps]
    /\ thread \in [Requests -> {"request", "worker"}]
    /\ tries \in [Requests -> 0..MaxTries]
    /\ told \in [Requests -> {"nothing", "deferred", "selected", "full", "error"}]
    /\ merging \subseteq Requests
    /\ merged \subseteq Requests
    /\ wiper \in Requests \cup {NoRequest}
    /\ fresh \subseteq Requests

Init ==
    /\ submitted = {}
    /\ present = FALSE
    /\ known = FALSE
    /\ on = Files
    /\ trackers = {}
    /\ step = [r \in Requests |-> "idle"]
    /\ thread = [r \in Requests |-> "request"]
    /\ tries = [r \in Requests |-> 0]
    /\ told = [r \in Requests |-> "nothing"]
    /\ merging = {}
    /\ merged = {}
    /\ wiper = NoRequest
    /\ fresh = {}

-----------------------------------------------------------------------------
(* A request adds the torrent.                                              *)

\* An attempt of r begins; several links are grouped in the first one only.
Begins(r) ==
    /\ step[r] = "idle"
    /\ tries[r] < MaxTries
    /\ tries' = [tries EXCEPT ![r] = @ + 1]

\* qBittorrent answers 409 for a torrent it has: the client takes it for success.
Add(form) == submitted' = IF present THEN submitted ELSE submitted \cup {form}

WillMerge(r) ==
    merging' = IF Grouped[r] /\ tries[r] = 0 THEN merging \cup {r} ELSE merging

Moves(r, s) == step' = [step EXCEPT ![r] = s]
Tells(r, answer) == told' = [told EXCEPT ![r] = answer]

\* A magnet link, or a local link that redirects to one: the selection is left
\* to a thread.
QueueMagnet(r) ==
    /\ Begins(r)
    /\ Add("magnet")
    /\ Moves(r, "poll")
    /\ thread' = [thread EXCEPT ![r] = "worker"]
    /\ Tells(r, "deferred")
    /\ WillMerge(r)
    /\ UNCHANGED <<present, known, on, trackers, history>>

\* A link whose torrent file the application can read.
QueueFile(r) ==
    /\ Begins(r)
    /\ Parsed[r] => Wants[r] # {}
    /\ Add("file")
    /\ IF Parsed[r]
       THEN Moves(r, "wait") /\ UNCHANGED told
       ELSE Moves(r, "full") /\ Tells(r, "full")
    /\ WillMerge(r)
    /\ UNCHANGED <<present, known, on, trackers, thread, history>>

\* No plan for the rule, or no way to inspect the torrent: all of it is queued,
\* by its file or its URL.
QueueFull(r) ==
    /\ Begins(r)
    /\ \E form \in {"magnet", "file"} : Add(form)
    /\ Moves(r, "full")
    /\ Tells(r, "full")
    /\ WillMerge(r)
    /\ UNCHANGED <<present, known, on, trackers, thread, history>>

\* qBittorrent cannot be reached, or takes the torrent and its reply is lost:
\* no second attempt.
AddFails(r) ==
    /\ Begins(r)
    /\ \/ UNCHANGED submitted
       \/ \E form \in {"magnet", "file"} : Add(form)
    /\ Moves(r, "gone")
    /\ Tells(r, "error")
    /\ UNCHANGED <<present, known, on, trackers, thread, merging, history>>

\* A SelectiveQueueError: the request may begin again, once, on another link.
Refused(r, attempt) ==
    /\ \/ attempt < MaxTries /\ Moves(r, "idle") /\ UNCHANGED told
       \/ Moves(r, "refused") /\ Tells(r, "error")
    /\ merging' = merging \ {r}

\* No missing episode in the torrent, a local link that gives no torrent file,
\* or a torrent handed over by its URL that qBittorrent never listed.
Refuse(r) ==
    /\ Begins(r)
    /\ \/ UNCHANGED submitted
       \/ Add("file")
    /\ Refused(r, tries[r] + 1)
    /\ UNCHANGED <<present, known, on, trackers, thread, history>>

\* Six looks at qBittorrent's list.
WaitSeen(r) ==
    /\ step[r] = "wait"
    /\ present
    /\ Moves(r, "seen")
    /\ UNCHANGED <<torrent, thread, tries, told, merging, history>>

WaitFails(r) ==
    /\ step[r] = "wait"
    /\ Refused(r, tries[r])
    /\ UNCHANGED <<torrent, thread, tries, history>>

\* The trackers of all links are added to the torrent, if it is listed by now.
\* The answer to r waits for it: its failure hides what was queued.
MergeTrackers(r) ==
    /\ r \in merging
    /\ step[r] \notin {"idle", "wait"}
    /\ thread[r] = "request" => step[r] \notin {"seen", "zeroed"}
    /\ merging' = merging \ {r}
    /\ \/ /\ trackers' = IF present THEN trackers \cup Announces[r] ELSE trackers
          /\ merged' = IF present THEN merged \cup {r} ELSE merged
          /\ UNCHANGED told
       \/ /\ Tells(r, "error")
          /\ UNCHANGED <<trackers, merged>>
    /\ UNCHANGED <<submitted, present, known, on, step, thread, tries, wiper, fresh>>

-----------------------------------------------------------------------------
(* The selection of the wanted files.                                       *)

\* A poll of the thread sees the files.
Poll(r) ==
    /\ step[r] = "poll"
    /\ present /\ known /\ Parsed[r]
    /\ Moves(r, IF Wants[r] = {} THEN "gone" ELSE "seen")
    /\ UNCHANGED <<torrent, thread, tries, told, merging, history>>

\* 45 seconds have passed, or qBittorrent does not know the torrent (yet), or
\* it cannot be reached: the thread ends and the torrent downloads whole.
GiveUp(r) ==
    /\ step[r] = "poll"
    /\ Moves(r, "gone")
    /\ UNCHANGED <<torrent, thread, tries, told, merging, history>>

\* The answer is an error when the request itself makes the selection.
ToldOfError(r) ==
    told' = IF thread[r] = "request" THEN [told EXCEPT ![r] = "error"] ELSE told
GroupDropped(r) ==
    merging' = IF thread[r] = "request" THEN merging \ {r} ELSE merging

\* Every file to priority 0.  The call may be carried out and its reply lost.
SetZero(r) ==
    /\ step[r] = "seen"
    /\ present /\ known
    /\ on' = {}
    /\ wiper' = r
    /\ fresh' = {}
    /\ \/ Moves(r, "zeroed") /\ UNCHANGED <<told, merging>>
       \/ Moves(r, "torn") /\ ToldOfError(r) /\ GroupDropped(r)
    /\ UNCHANGED <<submitted, present, known, trackers, thread, tries, merged>>

\* The wanted files to priority 1.
SetWanted(r) ==
    /\ step[r] = "zeroed"
    /\ present /\ known
    /\ on' = on \cup Wants[r]
    /\ fresh' = fresh \cup {r}
    /\ \/ /\ Moves(r, "set")
          /\ told' = IF thread[r] = "request" THEN [told EXCEPT ![r] = "selected"] ELSE told
          /\ UNCHANGED merging
       \/ Moves(r, "torn") /\ ToldOfError(r) /\ GroupDropped(r)
    /\ UNCHANGED <<submitted, present, known, trackers, thread, tries, merged, wiper>>

\* One of the two calls fails: nothing takes back the first.
SelectionFails(r) ==
    /\ step[r] \in {"seen", "zeroed"}
    /\ Moves(r, IF step[r] = "seen" THEN "gone" ELSE "torn")
    /\ ToldOfError(r)
    /\ GroupDropped(r)
    /\ UNCHANGED <<torrent, thread, tries, history>>

\* The application is restarted: no thread and no request survives, and an
\* unanswered request ends with a broken connection.
Restart ==
    /\ step' = [r \in Requests |->
                  IF step[r] \in {"poll", "wait", "seen"} THEN "gone"
                  ELSE IF step[r] = "zeroed" THEN "torn"
                  ELSE IF step[r] = "idle" /\ tries[r] > 0 THEN "refused"
                  ELSE step[r]]
    /\ told' = [r \in Requests |->
                  IF r \in merging \/ (told[r] = "nothing" /\ tries[r] > 0)
                  THEN "error" ELSE told[r]]
    /\ merging' = {}
    /\ UNCHANGED <<torrent, thread, tries, history>>

-----------------------------------------------------------------------------
(* qBittorrent and its user.                                                *)

\* qBittorrent lists the torrent, every file on.
Appear ==
    /\ ~present
    /\ \E form \in submitted : known' = (form = "file")
    /\ submitted' = {}
    /\ present' = TRUE
    /\ on' = Files
    /\ trackers' \in SUBSET Trackers
    /\ UNCHANGED <<requests, history>>

MetadataArrives ==
    /\ present /\ ~known
    /\ known' = TRUE
    /\ UNCHANGED <<submitted, present, on, trackers, requests, history>>

Remove ==
    /\ present
    /\ present' = FALSE
    /\ known' = FALSE
    /\ on' = Files
    /\ trackers' = {}
    /\ merged' = {}
    /\ wiper' = NoRequest
    /\ fresh' = {}
    /\ UNCHANGED <<submitted, requests>>

RequestStep(r) ==
    \/ QueueMagnet(r) \/ QueueFile(r) \/ QueueFull(r) \/ AddFails(r) \/ Refuse(r)
    \/ WaitSeen(r) \/ WaitFails(r) \/ MergeTrackers(r)
    \/ Poll(r) \/ GiveUp(r) \/ SetZero(r) \/ SetWanted(r) \/ SelectionFails(r)

Next ==
    \/ \E r \in Requests : RequestStep(r)
    \/ Restart \/ Appear \/ MetadataArrives \/ Remove

Spec == Init /\ [][Next]_vars

-----------------------------------------------------------------------------

\* The files of the requests that switched theirs on since the last zero call.
SwitchedOn == {f \in Files : \E r \in fresh : f \in Wants[r]}

\* The files that download are those of the requests that switched theirs on
\* since the last time all were switched off, or all files if none were.
LastWipeDecides == present => on = IF wiper = NoRequest THEN Files ELSE SwitchedOn

\* A torrent of which no file downloads was left so by the request that last
\* switched all off: it is about to switch its own on, or failed in between.
NothingOnExplained ==
    present /\ on = {} => wiper # NoRequest /\ step[wiper] \in {"zeroed", "torn"}

\* The last request to switch all files off gets the files it wants, whatever
\* the other requests did in between.
LastServed ==
    wiper # NoRequest /\ step[wiper] = "set" => Wants[wiper] \subseteq on

\* "Queued only missing/unseen episode files" is told after both calls were
\* answered, never when one of them failed.
ToldSelected == \A r \in Requests : told[r] = "selected" => step[r] = "set"

\* Requests that want the same files (a button pressed twice, a repeated
\* request) leave exactly these files on, in whatever order their calls arrive.
AgreeingRequests ==
    \A W \in SUBSET Files :
        /\ \A r \in Requests : Wants[r] \in {{}, W}
        /\ wiper # NoRequest
        /\ step[wiper] = "set"
        /\ present
        => on = W

\* The trackers that were merged into the torrent stay until it is removed.
MergedTrackers == \A r \in merged : Announces[r] \subseteq trackers

\* A request is answered once: only the merge of a grouped request can turn an
\* answer it holds back into an error.
AnswersFinal ==
    [][\A r \in Requests :
         told[r] # "nothing" => told'[r] = told[r] \/ (r \in merging /\ told'[r] = "error")]_vars
=============================================================================
