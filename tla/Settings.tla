------------------------------ MODULE Settings ------------------------------
(* The settings: one row that every page loads and repairs, that forms, the  *)
(* scheduler and the automatic syncs save parts of, and that the environment *)
(* overrides (settings_service.py, routes /settings/...).                    *)
(*                                                                           *)
(* Requests and workers hold sessions of their own.  Loading the settings    *)
(* (get_or_create) brings its columns into normal form, which may depend on  *)
(* other columns and on the quality taxonomy, and encrypts keys of older     *)
(* versions; a route then takes the values of its form over and commits; a   *)
(* test does so on a copy.                                                   *)
(*                                                                           *)
(* Left out: what the values are, the messages, the fallbacks of one column  *)
(* to another, default_add_paused, which is always saved as True, and the    *)
(* columns of the Real-Debrid link (RealDebridLink).                         *)

EXTENDS RowSession

CONSTANTS
    Columns, Values, Blank,
    Providers,      \* what the form of a provider saves: sets of columns
    Pages,          \* what the other pages and the workers save: likewise
    Secrets,        \* columns with passwords and keys
    Checked,        \* those of which only the key found in them counts (the OMDb key)
    Initial,        \* of a new row
    Unposted,       \* Unposted[c]: what is read for a field that a form does not have
    KeyIn,          \* KeyIn[v]: the key found in v (normalize_omdb_api_key), or Blank
    FormsOf,        \* FormsOf[c][v]: what loading may make of v in column c, once or again
    Environment,    \* Environment[c]: what overrides column c, or Blank
    Sessions,
    NoRow

VARIABLES
    row,            \* the settings
    session,        \* session[s]: its stage and its copy of the row
    tested,         \* what the latest test was made with
    saved,          \* history: what was last saved in each column
    crossed         \* history: columns saved or repaired over a newer value

settingsVars == <<row, session, tested, saved, crossed>>

Row == [Columns -> Values]

SettingsOK ==
    /\ Blank \in Values /\ Initial \in Row /\ Unposted \in Row /\ Environment \in Row
    /\ Secrets \subseteq Columns /\ Checked \subseteq Secrets
    /\ \A section \in Providers \cup Pages : section \subseteq Columns
    /\ KeyIn \in [Values -> Values]
    /\ FormsOf \in [Columns -> [Values -> SUBSET Values]]
    /\ \A c \in Columns, v \in Values : \A w \in FormsOf[c][v] : FormsOf[c][w] \subseteq FormsOf[c][v]
    /\ \A c \in Secrets, v \in Values :
         v # Blank /\ (c \in Checked => KeyIn[v] # Blank) => Blank \notin FormsOf[c][v]
    /\ NoRow \notin Row

-----------------------------------------------------------------------------
(* Values.                                                                   *)

\* What get_or_create may make of a row.
Repaired(r) == {new \in Row : \A c \in Columns : new[c] \in {r[c]} \cup FormsOf[c][r[c]]}

\* A form posts some fields of a section.  One that it does not have is reset; a secret is
\* taken over when it is posted, and can be one.
Posted(section) == UNION {[fields -> Values] : fields \in SUBSET section}
Field(form, c) ==
    LET value == IF c \in DOMAIN form THEN form[c]
                 ELSE IF c \in Secrets THEN Blank ELSE Unposted[c]
    IN IF c \in Checked THEN KeyIn[value] ELSE value
Taken(section, form) == {c \in section : c \in Secrets => Field(form, c) # Blank}
Applied(old, section, form) ==
    [c \in Columns |-> IF c \in Taken(section, form) THEN Field(form, c) ELSE old[c]]

\* What the program uses of a row.
Effective(r) == [c \in Columns |-> IF Environment[c] # Blank THEN Environment[c] ELSE r[c]]

-----------------------------------------------------------------------------
(* Sessions.                                                                 *)

Session == [stage : {"none", "loaded", "ready"}, old : Row \cup {NoRow}]
Closed == [stage |-> "none", old |-> NoRow]

\* Routes that save a set of columns, and the old form that saves those of all providers
\* and of the defaults at once.
Sections == Providers \cup Pages

SettingsTypeOK ==
    /\ row \in Row \cup {NoRow}
    /\ session \in [Sessions -> Session]
    /\ \A s \in Sessions : session[s].stage = "ready" => session[s].old # NoRow
    /\ \A s \in Sessions : row = NoRow => session[s].old = NoRow
    /\ tested \in Row \cup {NoRow}
    /\ saved \in Row
    /\ crossed \subseteq Columns

SettingsInit ==
    /\ row \in Row \cup {NoRow}
    /\ session = [s \in Sessions |-> Closed]
    /\ tested = NoRow
    /\ saved = IF row = NoRow THEN Initial ELSE row
    /\ crossed = {}

\* get_or_create: the row is loaded ...
Open(s) ==
    /\ session[s].stage = "none"
    /\ session' = [session EXCEPT ![s] = [stage |-> "loaded", old |-> row]]
    /\ UNCHANGED <<row, tested, saved, crossed>>

\* ... or inserted, which fails when another session was faster; ...
Create(s) ==
    /\ session[s].stage = "loaded" /\ session[s].old = NoRow
    /\ row' = IF row = NoRow THEN Initial ELSE row
    /\ session' = [session EXCEPT ![s] = IF row = NoRow THEN [stage |-> "ready", old |-> Initial]
                                         ELSE Closed]
    /\ UNCHANGED <<tested, saved, crossed>>

\* ... and repaired: committed and loaded again when that changes anything, or a quality
\* profile is one of the defaults.
Repair(s) ==
    LET old == session[s].old
    IN /\ session[s].stage = "loaded" /\ old # NoRow
       /\ UNCHANGED <<tested, saved>>
       /\ \E new \in Repaired(old), again \in BOOLEAN :
            /\ row' = Flush(row, old, new)
            /\ session' = [session EXCEPT ![s] = [stage |-> "ready",
                                     old |-> IF new = old /\ ~again THEN old ELSE row']]
            /\ crossed' = crossed \cup {c \in Columns : new[c] # old[c] /\ row[c] # old[c]}

\* s saves what was posted for a section.
Save(s, section, form) ==
    LET old == session[s].old  new == Applied(old, section, form)
    IN /\ session[s].stage = "ready"
       /\ row' = Flush(row, old, new)
       /\ saved' = [c \in Columns |-> IF c \in Taken(section, form) THEN new[c] ELSE saved[c]]
       /\ crossed' = crossed \cup {c \in Taken(section, form) : row[c] # old[c]}
       /\ session' = [session EXCEPT ![s] = Closed]
       /\ UNCHANGED tested

\* s tests what was posted for a provider, on a copy (_clone_settings).
Test(s, section, form) ==
    /\ session[s].stage = "ready"
    /\ tested' = Effective(Applied(session[s].old, section, form))
    /\ session' = [session EXCEPT ![s] = Closed]
    /\ UNCHANGED <<row, saved, crossed>>

\* The page is only shown, the form was refused, or the process ends.
Leave(s) ==
    /\ session[s].stage # "none"
    /\ session' = [session EXCEPT ![s] = Closed]
    /\ UNCHANGED <<row, tested, saved, crossed>>

SettingsNext == \E s \in Sessions :
    \/ Open(s) \/ Create(s) \/ Repair(s) \/ Leave(s)
    \/ \E section \in Sections : \E form \in Posted(section) : Save(s, section, form)
    \/ \E section \in Providers : \E form \in Posted(section) : Test(s, section, form)

SettingsSpec == SettingsInit /\ [][SettingsNext]_settingsVars

-----------------------------------------------------------------------------
(* Properties.                                                               *)

\* Each column holds what was saved in it last, or what loading made of that, unless two
\* sessions that wrote it overlapped: no page that only shows the settings, and no save of
\* another section from an older copy of the row, takes a save back.
LastSaveCounts ==
    row # NoRow => \A c \in Columns \ crossed : row[c] \in {saved[c]} \cup FormsOf[c][saved[c]]

\* A password or key is never emptied, by no form, test or race, nor by the repair of
\* another column, except the OMDb key, by a repair of a copy with no key in it: that one
\* is emptied even if a key was saved meanwhile.
SecretsKept ==
    [][\A c \in Secrets :
         row # NoRow /\ row[c] # Blank =>
           \/ row'[c] # Blank
           \/ /\ c \in Checked
              /\ \E s \in Sessions : /\ Repair(s) /\ session[s].old[c] # Blank
                                     /\ KeyIn[session[s].old[c]] = Blank]_settingsVars

\* A save of one section leaves the columns of all others as they are by then, however old
\* the copy is that its session loaded.
OthersKept ==
    [][\A s \in Sessions, section \in Sections : \A form \in Posted(section) :
         row # NoRow /\ Save(s, section, form) => \A c \in Columns \ section : row'[c] = row[c]]_settingsVars
=============================================================================
