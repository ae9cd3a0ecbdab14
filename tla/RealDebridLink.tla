--------------------------- MODULE RealDebridLink ---------------------------
(* The link to a Real-Debrid account: device authorization, the refresh of   *)
(* its token, and its removal (routes /settings/real-debrid/...,             *)
(* real_debrid_auth.py).                                                     *)
(*                                                                           *)
(* Requests and the acceleration worker (Acceleration) run in threads, each  *)
(* with a session that loads the row first, asks Real-Debrid, and commits    *)
(* what it changed.                                                          *)
(*                                                                           *)
(* The id and the secret of the client that a flow gives are the column      *)
(* client, its two tokens and when they expire the column token.  Left out:  *)
(* whether acceleration is enabled, the account's name, and the messages.    *)

EXTENDS RowSession, Integers

CONSTANTS
    Flows,          \* device authorizations; each makes a client of its own
    Workers,
    NoClient, NoToken

VARIABLES
    link,           \* the columns client, token and status
    registry,       \* DEVICE_FLOW_REGISTRY, in memory
    started,        \* flows ever started
    authorised,     \* external: flows that the user allowed, code not used yet
    issued,         \* external: issued[f]: the last token for the client of f
    worker,         \* worker[t]: what thread t does
    raced,          \* history: the client or the token was written over a newer one since
                    \* the row was last written whole
    lost            \* history: clients of which a token was issued and not stored

linkVars == <<link, registry, started, authorised, issued, worker, raced, lost>>

Clients == Flows \cup {NoClient}
Tokens == [of : Flows, n : Nat]
Statuses == {"disconnected", "authorizing", "error", "connected", "account_error"}
Linked == {"connected", "account_error"}
Link == [client : Clients, token : Tokens \cup {NoToken}, status : Statuses]
Unlinked == [client |-> NoClient, token |-> NoToken, status |-> "disconnected"]

LinkOK == NoClient \notin Flows /\ NoToken \notin Tokens

Worker == [op : {"none", "connect", "flow", "poll", "ensure", "disconnect"},
           old : Link, flow : Clients, got : Tokens \cup {NoToken}]
Resting == [op |-> "none", old |-> Unlinked, flow |-> NoClient, got |-> NoToken]

LinkTypeOK ==
    /\ link \in Link
    /\ registry \subseteq started /\ started \subseteq Flows /\ authorised \subseteq started
    /\ issued \in [Flows -> Nat]
    /\ worker \in [Workers -> Worker]
    /\ \A t \in Workers : worker[t].op = "poll" => worker[t].flow \in Flows
    /\ raced \in BOOLEAN
    /\ lost \subseteq Flows

LinkInit ==
    /\ link = Unlinked
    /\ registry = {} /\ started = {} /\ authorised = {}
    /\ issued = [f \in Flows |-> 0]
    /\ worker = [t \in Workers |-> Resting]
    /\ raced = FALSE /\ lost = {}

-----------------------------------------------------------------------------
(* Steps of a thread.                                                        *)

\* t loads the row for op.  Only a stored token is refreshed, and one that has not
\* expired is used as it is, which changes nothing.
Enter(t, op) ==
    /\ worker[t].op = "none"
    /\ op = "ensure" => link.client # NoClient /\ link.token # NoToken
    /\ worker' = [worker EXCEPT ![t] = [op |-> op, old |-> link, flow |-> NoClient, got |-> NoToken]]
    /\ UNCHANGED <<link, registry, started, authorised, issued, raced, lost>>

\* t commits what is new in its copy of the row.
Commit(t, new) == link' = Flush(link, worker[t].old, new)
Ends(t) == worker' = [worker EXCEPT ![t] = Resting]

\* /connect
AskConnect(t) ==
    LET new == [worker[t].old EXCEPT !.status = "authorizing"]
    IN /\ worker[t].op = "connect"
       /\ Commit(t, new)
       /\ worker' = [worker EXCEPT ![t].op = "flow", ![t].old = new]
       /\ UNCHANGED <<registry, started, authorised, issued, raced, lost>>

StartFlow(t, f) ==
    /\ worker[t].op = "flow" /\ f \notin started
    /\ started' = started \cup {f} /\ registry' = registry \cup {f}
    /\ Ends(t)
    /\ UNCHANGED <<link, authorised, issued, raced, lost>>

StartFails(t) ==
    /\ worker[t].op = "flow"
    /\ Commit(t, [worker[t].old EXCEPT !.status = "error"])
    /\ Ends(t)
    /\ UNCHANGED <<registry, started, authorised, issued, raced, lost>>

\* /device/{flow_id}: an open flow is asked for.
Poll(t, f) ==
    /\ worker[t].op = "none" /\ f \in registry
    /\ worker' = [worker EXCEPT ![t] = [op |-> "poll", old |-> link, flow |-> f, got |-> NoToken]]
    /\ UNCHANGED <<link, registry, started, authorised, issued, raced, lost>>

\* Real-Debrid makes a token for client f; its answer arrives ...
Issue(t, f) ==
    /\ issued' = [issued EXCEPT ![f] = @ + 1]
    /\ worker' = [worker EXCEPT ![t].got = [of |-> f, n |-> issued'[f]]]
    /\ UNCHANGED <<link, registry, started, raced, lost>>

\* ... in exchange for the code of a flow, once, or for the token of a client.
Exchange(t) ==
    LET f == worker[t].flow
    IN /\ worker[t].op = "poll" /\ worker[t].got = NoToken /\ f \in authorised
       /\ Issue(t, f)
       /\ authorised' = authorised \ {f}

Refresh(t) ==
    /\ worker[t].op = "ensure" /\ worker[t].got = NoToken
    /\ worker[t].old.token.of = worker[t].old.client
    /\ Issue(t, worker[t].old.client)
    /\ UNCHANGED authorised

\* The token is made and the answer does not arrive: the request fails or is repeated.
RefreshLost(t) ==
    LET f == worker[t].old.client
    IN /\ worker[t].op = "ensure" /\ worker[t].got = NoToken /\ f \in Flows
       /\ issued' = [issued EXCEPT ![f] = @ + 1]
       /\ lost' = lost \cup {f}
       /\ UNCHANGED <<link, registry, started, authorised, worker, raced>>

\* The account was read: the whole link is written.
Finish(t, status) ==
    LET f == worker[t].flow
    IN /\ worker[t].op = "poll" /\ worker[t].got # NoToken
       /\ Commit(t, [client |-> f, token |-> worker[t].got, status |-> status])
       /\ raced' = (link # worker[t].old)
       /\ registry' = registry \ {f}
       /\ Ends(t)
       /\ UNCHANGED <<started, authorised, issued, lost>>

\* Real-Debrid refuses, or does not answer one of the three calls.
PollFails(t) ==
    LET f == worker[t].flow
    IN /\ worker[t].op = "poll"
       /\ Commit(t, [worker[t].old EXCEPT !.status = "error"])
       /\ registry' = registry \ {f}
       /\ authorised' \in {authorised, authorised \ {f}}
       /\ lost' = IF worker[t].got = NoToken THEN lost ELSE lost \cup {f}
       /\ Ends(t)
       /\ UNCHANGED <<started, issued, raced>>

\* ensure_real_debrid_access_token: the token is written.
StoreToken(t) ==
    LET old == worker[t].old
    IN /\ worker[t].op = "ensure" /\ worker[t].got # NoToken
       /\ Commit(t, [old EXCEPT !.token = worker[t].got])
       /\ raced' = (raced \/ link.client # old.client \/ link.token # old.token)
       /\ Ends(t)
       /\ UNCHANGED <<registry, started, authorised, issued, lost>>

\* /disconnect
Disconnect(t) ==
    /\ worker[t].op = "disconnect"
    /\ Commit(t, Unlinked)
    /\ raced' = (link # worker[t].old)
    /\ Ends(t)
    /\ UNCHANGED <<registry, started, authorised, issued, lost>>

\* t answers without a change (still pending, a refresh that failed), or its commit fails.
GiveUp(t) ==
    /\ worker[t].op # "none"
    /\ lost' = IF worker[t].got = NoToken THEN lost ELSE lost \cup {worker[t].got.of}
    /\ Ends(t)
    /\ UNCHANGED <<link, registry, started, authorised, issued, raced>>

-----------------------------------------------------------------------------
(* The user, time, and a crash.                                              *)

Authorise(f) ==
    /\ f \in started /\ issued[f] = 0 /\ authorised' = authorised \cup {f}
    /\ UNCHANGED <<link, registry, started, issued, worker, raced, lost>>

Expire(f) ==
    /\ f \in registry /\ registry' = registry \ {f}
    /\ UNCHANGED <<link, started, authorised, issued, worker, raced, lost>>

LinkRestart ==
    /\ registry' = {}
    /\ worker' = [t \in Workers |-> Resting]
    /\ lost' = lost \cup {f \in Flows : \E t \in Workers :
                            worker[t].got # NoToken /\ worker[t].got.of = f}
    /\ UNCHANGED <<link, started, authorised, issued, raced>>

LinkNext ==
    \/ \E t \in Workers :
         \/ \E op \in {"connect", "ensure", "disconnect"} : Enter(t, op)
         \/ AskConnect(t) \/ StartFails(t) \/ Exchange(t) \/ Refresh(t) \/ RefreshLost(t)
         \/ PollFails(t) \/ StoreToken(t) \/ Disconnect(t) \/ GiveUp(t)
         \/ \E f \in Flows : StartFlow(t, f) \/ Poll(t, f)
         \/ \E status \in Linked : Finish(t, status)
    \/ \E f \in Flows : Authorise(f) \/ Expire(f)
    \/ LinkRestart

LinkSpec == LinkInit /\ [][LinkNext]_linkVars

-----------------------------------------------------------------------------
(* Properties.                                                               *)

\* The stored token is of the stored client, and there is one when there is the other:
\* the refresh of an old link never marks a new one with its token.
LinkCoherent ==
    ~raced => \/ link.client = NoClient /\ link.token = NoToken
              \/ link.client # NoClient /\ link.token # NoToken /\ link.token.of = link.client

\* A link that the page shows as removed is removed, and one shown as made is there.
StatusTrue ==
    ~raced => /\ link.status = "disconnected" => link.client = NoClient
              /\ link.status \in Linked => link.client # NoClient

\* The newest token of the linked client is stored, or held by a thread that will store
\* it, unless the answer with one got lost: Real-Debrid may refuse any older one.
TokenNewest ==
    ~raced /\ link.client # NoClient /\ link.client \notin lost =>
        LET newest == [of |-> link.client, n |-> issued[link.client]]
        IN link.token = newest \/ \E t \in Workers : worker[t].got = newest
=============================================================================
