------------------------------- MODULE Review -------------------------------
(***************************************************************************)
(* Reviewers and scripts that share one catalog file (cmd_review in        *)
(* cli.py, Catalog in review.py).  A session loads the catalog once, then  *)
(* saves all of it after every decision.  save() writes a temporary file,  *)
(* fsyncs it and renames it over the catalog; each of these is a step here,*)
(* so sessions interleave, fail and are killed between any two of them.    *)
(*                                                                         *)
(* A catalog maps every column to its decision or to Pending.  A file that *)
(* does not exist is the catalog without decisions.  A decision is who     *)
(* decided and the label; notes, times and rule ids are left out.          *)
(***************************************************************************)
EXTENDS Naturals

CONSTANTS
    Session,        \* who may have the catalog open: reviewers and scripts
    Column,         \* (table, column) pairs
    Label,
    Pending,        \* the value of a column nobody has decided on
    MaxSessions,    \* bound: sessions started in a behaviour
    PowerLoss       \* TRUE if the machine may lose what was not fsynced

ASSUME SessionsAssumption == MaxSessions \in Nat
ASSUME PendingAssumption == Pending \notin Session \X Label
ASSUME PowerAssumption == PowerLoss \in BOOLEAN

VARIABLES
    file,       \* the catalog in the file
    cut,        \* whether that is what was left of a file that was cut off
    older,      \* catalogs that a power cut may bring back: renames not yet on disk
    settled,    \* whether the current file's content was fsynced
    pc,         \* pc[s]: out, asking, or a step of save()
    catalog,    \* catalog[s]: the session's catalog in memory
    todo,       \* todo[s]: the pending columns it has still to ask about
    column,     \* column[s]: the column it has just decided or revoked
    temp,       \* temp[s]: its temporary file: none, partial, whole or durable
    known,      \* known[s]: the file as s last loaded or saved it (properties only)
    latest,     \* latest[c]: the last change of c that was saved (properties only)
    sessions    \* how many sessions were started

vars == <<file, cut, older, settled, pc, catalog, todo, column, temp, known, latest, sessions>>

Decision == Session \X Label
CatalogOf == [Column -> Decision \union {Pending}]
NoDecisions == [c \in Column |-> Pending]
Saving == {"create", "write", "sync", "replace"}

TypeOK ==
    /\ file \in CatalogOf
    /\ cut \in BOOLEAN
    /\ older \subseteq CatalogOf
    /\ settled \in BOOLEAN
    /\ pc \in [Session -> {"out", "asking"} \union Saving]
    /\ catalog \in [Session -> CatalogOf]
    /\ todo \in [Session -> SUBSET Column]
    /\ column \in [Session -> Column \union {Pending}]
    /\ temp \in [Session -> {"none", "partial", "whole", "durable"}]
    /\ known \in [Session -> CatalogOf]
    /\ latest \in CatalogOf
    /\ sessions \in 0..MaxSessions
-----------------------------------------------------------------------------
(* A session. *)

\* Catalog.load, once per session.  Of a file that was cut off, it may refuse what
\* is left (and no session starts), but an empty file is the empty catalog, and
\* one cut between two decisions is a shorter one.
Load(s) ==
    /\ pc[s] = "out"
    /\ sessions < MaxSessions
    /\ sessions' = sessions + 1
    /\ known' = [known EXCEPT ![s] = file]

\* Mutant: the columns asked about are all of the data's.
AskAll(header, cat) == header

\* Catalog.pending: the data's columns nobody has decided on.
PendingOf(header, cat) == {c \in header : cat[c] = Pending}

\* cmd_review on a data file with these columns; with none pending it returns.
StartReview(s) ==
    /\ Load(s)
    /\ \E header \in SUBSET Column :
        /\ PendingOf(header, file) # {}
        /\ todo' = [todo EXCEPT ![s] = PendingOf(header, file)]
    /\ catalog' = [catalog EXCEPT ![s] = file]
    /\ pc' = [pc EXCEPT ![s] = "asking"]
    /\ UNCHANGED <<file, cut, older, settled, column, temp, latest>>

\* "s": on to the next column, or done after the last one.
Skip(s) ==
    /\ pc[s] = "asking"
    /\ \E c \in todo[s] :
        /\ todo' = [todo EXCEPT ![s] = @ \ {c}]
        /\ pc' = [pc EXCEPT ![s] = IF todo[s] = {c} THEN "out" ELSE "asking"]
    /\ UNCHANGED <<file, cut, older, settled, catalog, column, temp, known, latest, sessions>>

\* "q", the end of the input, or Ctrl-C at the prompt.
Quit(s) ==
    /\ pc[s] = "asking"
    /\ todo' = [todo EXCEPT ![s] = {}]
    /\ pc' = [pc EXCEPT ![s] = "out"]
    /\ UNCHANGED <<file, cut, older, settled, catalog, column, temp, known, latest, sessions>>

\* Mutant: the label alone is stored, and not who decided.
DecideAnonymously(s) ==
    /\ pc[s] = "asking"
    /\ \E c \in todo[s], label \in Label :
        /\ catalog' = [catalog EXCEPT ![s][c] = label]
        /\ column' = [column EXCEPT ![s] = c]
        /\ todo' = [todo EXCEPT ![s] = @ \ {c}]
    /\ pc' = [pc EXCEPT ![s] = "create"]
    /\ UNCHANGED <<file, cut, older, settled, temp, known, latest, sessions>>

\* A label is accepted, typed, or public: decide() in memory, then save().
Decide(s) ==
    /\ pc[s] = "asking"
    /\ \E c \in todo[s], label \in Label :
        /\ catalog' = [catalog EXCEPT ![s][c] = <<s, label>>]
        /\ column' = [column EXCEPT ![s] = c]
        /\ todo' = [todo EXCEPT ![s] = @ \ {c}]
    /\ pc' = [pc EXCEPT ![s] = "create"]
    /\ UNCHANGED <<file, cut, older, settled, temp, known, latest, sessions>>

\* A script that loads the catalog, revokes a decision and saves.
RevokeScript(s) ==
    /\ Load(s)
    /\ \E c \in Column :
        /\ file[c] # Pending
        /\ catalog' = [catalog EXCEPT ![s] = [file EXCEPT ![c] = Pending]]
        /\ column' = [column EXCEPT ![s] = c]
    /\ todo' = [todo EXCEPT ![s] = {}]
    /\ pc' = [pc EXCEPT ![s] = "create"]
    /\ UNCHANGED <<file, cut, older, settled, temp, latest>>
-----------------------------------------------------------------------------
(* Catalog.save, in the directory of the catalog. *)

CreateTemp(s) ==
    /\ pc[s] = "create"
    /\ temp' = [temp EXCEPT ![s] = "partial"]
    /\ pc' = [pc EXCEPT ![s] = "write"]
    /\ UNCHANGED <<file, cut, older, settled, catalog, todo, column, known, latest, sessions>>

WriteTemp(s) ==
    /\ pc[s] = "write"
    /\ temp' = [temp EXCEPT ![s] = "whole"]
    /\ pc' = [pc EXCEPT ![s] = "sync"]
    /\ UNCHANGED <<file, cut, older, settled, catalog, todo, column, known, latest, sessions>>

\* Mutant: the temporary file is closed without an fsync.
CloseTemp(s) ==
    /\ pc[s] = "sync"
    /\ pc' = [pc EXCEPT ![s] = "replace"]
    /\ UNCHANGED <<file, cut, older, settled, catalog, todo, column, temp, known, latest, sessions>>

SyncTemp(s) ==
    /\ pc[s] = "sync"
    /\ temp' = [temp EXCEPT ![s] = "durable"]
    /\ pc' = [pc EXCEPT ![s] = "replace"]
    /\ UNCHANGED <<file, cut, older, settled, catalog, todo, column, known, latest, sessions>>

\* os.replace.  The directory is not fsynced, so the rename may still be lost.
Replace(s) ==
    /\ pc[s] = "replace"
    /\ file' = catalog[s]
    /\ cut' = FALSE
    /\ settled' = (temp[s] = "durable")
    /\ older' = IF PowerLoss /\ settled THEN older \union {file} ELSE older
    /\ temp' = [temp EXCEPT ![s] = "none"]
    /\ pc' = [pc EXCEPT ![s] = IF todo[s] = {} THEN "out" ELSE "asking"]
    /\ known' = [known EXCEPT ![s] = catalog[s]]
    /\ latest' = [latest EXCEPT ![column[s]] = catalog[s][column[s]]]
    /\ UNCHANGED <<catalog, todo, column, sessions>>

\* Mutant: the temporary file is left behind.
SaveFailsUncleaned(s) ==
    /\ pc[s] \in Saving
    /\ todo' = [todo EXCEPT ![s] = {}]
    /\ pc' = [pc EXCEPT ![s] = "out"]
    /\ UNCHANGED <<file, cut, older, settled, catalog, column, temp, known, latest, sessions>>

\* Any step of save() raises (disk full, no permission, Ctrl-C): the temporary
\* file is unlinked and the exception ends the session.
SaveFails(s) ==
    /\ pc[s] \in Saving
    /\ temp' = [temp EXCEPT ![s] = "none"]
    /\ todo' = [todo EXCEPT ![s] = {}]
    /\ pc' = [pc EXCEPT ![s] = "out"]
    /\ UNCHANGED <<file, cut, older, settled, catalog, column, known, latest, sessions>>
-----------------------------------------------------------------------------
(* The environment. *)

\* The process is killed.  A temporary file it had stays in the directory under
\* a name nobody will use again, so it is out of the picture.
Kill(s) ==
    /\ pc[s] # "out"
    /\ pc' = [pc EXCEPT ![s] = "out"]
    /\ todo' = [todo EXCEPT ![s] = {}]
    /\ temp' = [temp EXCEPT ![s] = "none"]
    /\ UNCHANGED <<file, cut, older, settled, catalog, column, known, latest, sessions>>

\* The file system writes the directory and the data out.
Writeback ==
    /\ PowerLoss
    /\ older # {} \/ ~settled
    /\ older' = {}
    /\ settled' = TRUE
    /\ UNCHANGED <<file, cut, pc, catalog, todo, column, temp, known, latest, sessions>>

\* What may be left of a catalog's file: some of its decisions, or none.
Remains(cat) == {[c \in Column |-> IF c \in kept THEN cat[c] ELSE Pending] : kept \in SUBSET Column}

\* The machine dies: an earlier rename may come back, and content that was not
\* fsynced may be cut off.
PowerFails ==
    /\ PowerLoss
    /\ \/ UNCHANGED <<file, cut>>
       \/ file' \in older /\ cut' = FALSE
       \/ ~settled /\ file' \in Remains(file) /\ cut' = TRUE
    /\ older' = {}
    /\ settled' = TRUE
    /\ pc' = [s \in Session |-> "out"]
    /\ todo' = [s \in Session |-> {}]
    /\ temp' = [s \in Session |-> "none"]
    /\ latest' = IF cut' THEN latest ELSE file'
    /\ UNCHANGED <<catalog, column, known, sessions>>
-----------------------------------------------------------------------------
Init ==
    /\ file = NoDecisions
    /\ cut = FALSE
    /\ older = {}
    /\ settled = TRUE
    /\ pc = [s \in Session |-> "out"]
    /\ catalog = [s \in Session |-> NoDecisions]
    /\ todo = [s \in Session |-> {}]
    /\ column = [s \in Session |-> Pending]
    /\ temp = [s \in Session |-> "none"]
    /\ known = [s \in Session |-> NoDecisions]
    /\ latest = NoDecisions
    /\ sessions = 0

Next ==
    \/ \E s \in Session :
        \/ StartReview(s) \/ Skip(s) \/ Quit(s) \/ Decide(s) \/ RevokeScript(s)
        \/ CreateTemp(s) \/ WriteTemp(s) \/ SyncTemp(s) \/ Replace(s) \/ SaveFails(s)
        \/ Kill(s)
    \/ Writeback \/ PowerFails

Spec == Init /\ [][Next]_vars
-----------------------------------------------------------------------------
(* Properties. *)

\* Wherever a session fails, is killed or loses power, the catalog file is a
\* whole catalog: the temporary file is fsynced before it takes the name.
CatalogWhole == ~cut

\* A save that fails, or is interrupted, leaves no temporary file behind.
TempsCleaned == \A s \in Session : temp[s] # "none" => pc[s] \in Saving

\* A save changes the column it was made for, and nothing else that is as the
\* session last saw it; and a review replaces no decision it had seen.  So two
\* sessions that do not overlap never undo each other's work.
KeepsWhatItKnew ==
    [][\A s \in Session : Replace(s) =>
        \A c \in Column :
            file[c] = known[s][c] /\ file'[c] # file[c] =>
                c = column[s] /\ (file[c] = Pending \/ file'[c] = Pending)]_vars

\* cli.py:195, "after every decision, so nothing is lost": the file holds, for
\* every column, the last decision or revocation of it that anyone saved.
NothingLost == ~cut => file = latest
=============================================================================
