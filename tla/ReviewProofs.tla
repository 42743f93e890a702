---------------------------- MODULE ReviewProofs ----------------------------
(***************************************************************************)
(* Theorems about the catalog and its review sessions, for any number of   *)
(* sessions, columns and labels, with and without power cuts.              *)
(***************************************************************************)
EXTENDS Review, TLAPS

-----------------------------------------------------------------------------
(* The inductive invariant. *)

\* Only fsynced content takes the catalog's name.
FileInv ==
    /\ file \in CatalogOf
    /\ cut = FALSE
    /\ settled = TRUE

\* How far the temporary file is follows from where save() is.
TempInv == \A s \in Session :
    temp[s] = CASE pc[s] = "write" -> "partial"
                [] pc[s] = "sync" -> "whole"
                [] pc[s] = "replace" -> "durable"
                [] OTHER -> "none"

\* Between decisions a session's catalog is the one it last loaded or saved,
\* and what it has still to ask about is pending there.
AskingInv == \A s \in Session :
    /\ pc[s] = "asking" => catalog[s] = known[s]
    /\ pc[s] # "out" => \A c \in todo[s] : catalog[s][c] = Pending

\* In save() the two differ in one column, which one of them has no decision on.
SavingInv == \A s \in Session : pc[s] \in Saving =>
    /\ column[s] \in Column
    /\ \A c \in Column : catalog[s][c] # known[s][c] =>
        /\ c = column[s]
        /\ known[s][c] = Pending \/ catalog[s][c] = Pending

IInv ==
    /\ TypeOK
    /\ FileInv
    /\ TempInv
    /\ AskingInv
    /\ SavingInv

-----------------------------------------------------------------------------
(* Every step preserves the invariant. *)

\* A session starts, with the file as it is.
LEMMA LoadStep ==
    ASSUME IInv, NEW s \in Session, StartReview(s) \/ RevokeScript(s)
    PROVE  IInv'
<1>1. sessions + 1 \in 0..MaxSessions
  BY SessionsAssumption DEF IInv, TypeOK, StartReview, RevokeScript, Load
<1>2. file \in CatalogOf /\ known' = [known EXCEPT ![s] = file] /\ sessions' = sessions + 1
      /\ pc[s] = "out"
  BY DEF IInv, FileInv, StartReview, RevokeScript, Load
<1>3. CASE StartReview(s)
  <2>1. PICK header \in SUBSET Column : todo' = [todo EXCEPT ![s] = PendingOf(header, file)]
    BY <1>3 DEF StartReview
  <2>2. PendingOf(header, file) \in SUBSET Column /\ \A c \in PendingOf(header, file) : file[c] = Pending
    BY DEF PendingOf
  <2>3. /\ catalog' = [catalog EXCEPT ![s] = file]
        /\ pc' = [pc EXCEPT ![s] = "asking"]
        /\ UNCHANGED <<file, cut, older, settled, column, temp, latest>>
    BY <1>3 DEF StartReview
  <2>4. TypeOK'
    BY <1>1, <1>2, <2>1, <2>2, <2>3 DEF IInv, TypeOK
  <2>5. FileInv' /\ TempInv'
    BY <1>2, <2>3 DEF IInv, TypeOK, FileInv, TempInv
  <2>6. AskingInv'
    BY <1>2, <2>1, <2>2, <2>3 DEF IInv, TypeOK, AskingInv
  <2>7. SavingInv'
    BY <1>2, <2>3 DEF IInv, TypeOK, SavingInv, Saving
  <2> QED BY <2>4, <2>5, <2>6, <2>7 DEF IInv
<1>4. CASE RevokeScript(s)
  <2>1. PICK c \in Column : /\ catalog' = [catalog EXCEPT ![s] = [file EXCEPT ![c] = Pending]]
                            /\ column' = [column EXCEPT ![s] = c]
    BY <1>4 DEF RevokeScript
  <2>2. /\ todo' = [todo EXCEPT ![s] = {}]
        /\ pc' = [pc EXCEPT ![s] = "create"]
        /\ UNCHANGED <<file, cut, older, settled, temp, latest>>
    BY <1>4 DEF RevokeScript
  <2>3. [file EXCEPT ![c] = Pending] \in CatalogOf
    BY <1>2 DEF CatalogOf
  <2>4. TypeOK'
    BY <1>1, <1>2, <2>1, <2>2, <2>3 DEF IInv, TypeOK, Saving
  <2>5. FileInv' /\ TempInv'
    BY <1>2, <2>2 DEF IInv, TypeOK, FileInv, TempInv
  <2>6. AskingInv'
    BY <1>2, <2>1, <2>2 DEF IInv, TypeOK, AskingInv
  <2>7. SavingInv'
    <3>1. catalog'[s] = [file EXCEPT ![c] = Pending] /\ known'[s] = file /\ column'[s] = c
      BY <1>2, <2>1 DEF IInv, TypeOK
    <3>2. \A d \in Column : catalog'[s][d] # known'[s][d] => d = c /\ catalog'[s][d] = Pending
      BY <1>2, <3>1 DEF CatalogOf
    <3>3. \A r \in Session : r # s => /\ pc'[r] = pc[r] /\ column'[r] = column[r]
                                      /\ catalog'[r] = catalog[r] /\ known'[r] = known[r]
      BY <1>2, <2>1, <2>2 DEF IInv, TypeOK
    <3> QED BY <2>1, <3>1, <3>2, <3>3 DEF IInv, SavingInv
  <2> QED BY <2>4, <2>5, <2>6, <2>7 DEF IInv
<1> QED BY <1>3, <1>4

\* A session moves on, or ends, without a decision.
LEMMA LeaveStep ==
    ASSUME IInv, NEW s \in Session, Skip(s) \/ Quit(s) \/ SaveFails(s) \/ Kill(s)
    PROVE  IInv'
<1>1. UNCHANGED <<file, cut, older, settled, catalog, column, known, latest, sessions>>
  BY DEF Skip, Quit, SaveFails, Kill
<1>2. /\ todo'[s] \subseteq todo[s]
      /\ \/ pc'[s] = "out"
         \/ pc'[s] = "asking" /\ pc[s] = "asking"
      /\ temp'[s] = "none"
      /\ \A r \in Session : r # s => pc'[r] = pc[r] /\ todo'[r] = todo[r] /\ temp'[r] = temp[r]
  BY DEF IInv, TypeOK, TempInv, Skip, Quit, SaveFails, Kill
<1>3. TypeOK'
  <2>1. todo' \in [Session -> SUBSET Column]
    BY DEF IInv, TypeOK, Skip, Quit, SaveFails, Kill
  <2>2. pc' \in [Session -> {"out", "asking"} \union Saving]
    BY DEF IInv, TypeOK, Skip, Quit, SaveFails, Kill
  <2>3. temp' \in [Session -> {"none", "partial", "whole", "durable"}]
    BY DEF IInv, TypeOK, Skip, Quit, SaveFails, Kill
  <2> QED BY <1>1, <2>1, <2>2, <2>3 DEF IInv, TypeOK
<1>4. FileInv' /\ TempInv'
  BY <1>1, <1>2 DEF IInv, FileInv, TempInv
<1>5. AskingInv' /\ SavingInv'
  BY <1>1, <1>2 DEF IInv, AskingInv, SavingInv, Saving
<1> QED BY <1>3, <1>4, <1>5 DEF IInv

\* A decision fills in a column that was pending.
LEMMA DecideStep ==
    ASSUME IInv, NEW s \in Session, Decide(s)
    PROVE  IInv'
<1>1. PICK c \in todo[s], label \in Label :
        /\ catalog' = [catalog EXCEPT ![s][c] = <<s, label>>]
        /\ column' = [column EXCEPT ![s] = c]
        /\ todo' = [todo EXCEPT ![s] = @ \ {c}]
  BY DEF Decide
<1>2. /\ pc' = [pc EXCEPT ![s] = "create"] /\ pc[s] = "asking"
      /\ UNCHANGED <<file, cut, older, settled, temp, known, latest, sessions>>
  BY DEF Decide
<1>3. c \in Column /\ todo[s] \subseteq Column
  BY DEF IInv, TypeOK
<1>4. /\ catalog'[s] = [catalog[s] EXCEPT ![c] = <<s, label>>]
      /\ \A r \in Session : r # s => catalog'[r] = catalog[r]
  BY <1>1 DEF IInv, TypeOK
<1>5. catalog[s] \in CatalogOf /\ catalog[s] = known[s] /\ catalog[s][c] = Pending
  BY <1>2 DEF IInv, TypeOK, AskingInv
<1>6. TypeOK'
  <2>1. <<s, label>> \in Decision
    BY DEF Decision
  <2>2. [catalog[s] EXCEPT ![c] = <<s, label>>] \in CatalogOf
    BY <1>5, <2>1 DEF CatalogOf
  <2>3. catalog' \in [Session -> CatalogOf]
    BY <1>1, <2>2 DEF IInv, TypeOK
  <2> QED BY <1>1, <1>2, <1>3, <2>3 DEF IInv, TypeOK, Saving
<1>7. FileInv' /\ TempInv'
  BY <1>2 DEF IInv, TypeOK, FileInv, TempInv
<1>8. \A d \in Column : d # c => catalog'[s][d] = catalog[s][d]
  BY <1>4, <1>5 DEF CatalogOf
<1>9. /\ pc'[s] = "create" /\ column'[s] = c /\ todo'[s] = todo[s] \ {c}
      /\ \A r \in Session : r # s => pc'[r] = pc[r] /\ column'[r] = column[r] /\ todo'[r] = todo[r]
  BY <1>1, <1>2 DEF IInv, TypeOK
<1>10. AskingInv'
  <2>1. \A d \in todo'[s] : catalog'[s][d] = Pending
    BY <1>2, <1>3, <1>8, <1>9 DEF IInv, AskingInv
  <2> SUFFICES ASSUME NEW r \in Session
               PROVE  /\ pc'[r] = "asking" => catalog'[r] = known[r]
                      /\ pc'[r] # "out" => \A d \in todo'[r] : catalog'[r][d] = Pending
    BY <1>2 DEF AskingInv
  <2>2. CASE r = s
    BY <1>9, <2>1, <2>2
  <2>3. CASE r # s
    BY <1>4, <1>9, <2>3 DEF IInv, AskingInv
  <2> QED BY <2>2, <2>3
<1>11. SavingInv'
  <2>1. \A d \in Column : catalog'[s][d] # known[s][d] => d = c /\ known[s][d] = Pending
    BY <1>5, <1>8
  <2> SUFFICES ASSUME NEW r \in Session, pc'[r] \in Saving
               PROVE  /\ column'[r] \in Column
                      /\ \A d \in Column : catalog'[r][d] # known[r][d] =>
                            /\ d = column'[r]
                            /\ known[r][d] = Pending \/ catalog'[r][d] = Pending
    BY <1>2 DEF SavingInv
  <2>2. CASE r = s
    BY <1>3, <1>9, <2>1, <2>2
  <2>3. CASE r # s
    BY <1>4, <1>9, <2>3 DEF IInv, SavingInv
  <2> QED BY <2>2, <2>3
<1> QED BY <1>6, <1>7, <1>10, <1>11 DEF IInv

\* The temporary file is created, written and synced.
LEMMA TempStep ==
    ASSUME IInv, NEW s \in Session, CreateTemp(s) \/ WriteTemp(s) \/ SyncTemp(s)
    PROVE  IInv'
<1>1. UNCHANGED <<file, cut, older, settled, catalog, todo, column, known, latest, sessions>>
  BY DEF CreateTemp, WriteTemp, SyncTemp
<1>2. pc[s] \in Saving /\ pc'[s] \in Saving /\ pc'[s] # "asking" /\ pc[s] # "out"
      /\ \A r \in Session : r # s => pc'[r] = pc[r] /\ temp'[r] = temp[r]
  BY DEF IInv, TypeOK, CreateTemp, WriteTemp, SyncTemp, Saving
<1>3. TypeOK'
  BY <1>1 DEF IInv, TypeOK, CreateTemp, WriteTemp, SyncTemp, Saving
<1>4. FileInv' /\ TempInv'
  BY DEF IInv, TypeOK, FileInv, TempInv, CreateTemp, WriteTemp, SyncTemp
<1>5. AskingInv' /\ SavingInv'
  BY <1>1, <1>2 DEF IInv, AskingInv, SavingInv
<1> QED BY <1>3, <1>4, <1>5 DEF IInv

\* The file that takes the catalog's name is whole and on disk.
LEMMA ReplaceStep ==
    ASSUME IInv, NEW s \in Session, Replace(s)
    PROVE  IInv'
<1>1. pc[s] = "replace" /\ temp[s] = "durable" /\ catalog[s] \in CatalogOf
  BY DEF IInv, TypeOK, TempInv, Replace
<1>2. /\ file' = catalog[s] /\ cut' = FALSE /\ settled' = TRUE
      /\ older' \in {older, older \union {file}}
      /\ UNCHANGED <<catalog, todo, column, sessions>>
  BY <1>1 DEF Replace
<1>3. /\ pc'[s] \in {"out", "asking"} /\ temp'[s] = "none" /\ known'[s] = catalog[s]
      /\ \A r \in Session : r # s => pc'[r] = pc[r] /\ temp'[r] = temp[r] /\ known'[r] = known[r]
  BY DEF IInv, TypeOK, Replace
<1>4. TypeOK'
  <2>1. column[s] \in Column /\ catalog[s][column[s]] \in Decision \union {Pending}
    BY <1>1 DEF IInv, SavingInv, Saving, CatalogOf
  <2>2. latest' \in CatalogOf
    BY <2>1 DEF IInv, TypeOK, Replace, CatalogOf
  <2>3. /\ pc' \in [Session -> {"out", "asking"} \union Saving]
        /\ temp' \in [Session -> {"none", "partial", "whole", "durable"}]
        /\ known' \in [Session -> CatalogOf]
    BY <1>1 DEF IInv, TypeOK, Replace
  <2> QED BY <1>1, <1>2, <2>2, <2>3 DEF IInv, TypeOK, FileInv
<1>5. FileInv' /\ TempInv'
  BY <1>1, <1>2, <1>3 DEF IInv, FileInv, TempInv
<1>6. AskingInv' /\ SavingInv'
  BY <1>1, <1>2, <1>3 DEF IInv, AskingInv, SavingInv, Saving
<1> QED BY <1>4, <1>5, <1>6 DEF IInv

\* The disk settles, or the machine dies: what comes back is an earlier catalog.
LEMMA EnvironmentStep ==
    ASSUME IInv, Writeback \/ PowerFails
    PROVE  IInv'
<1>1. CASE Writeback
  BY <1>1 DEF Writeback, IInv, TypeOK, FileInv, TempInv, AskingInv, SavingInv
<1>2. CASE PowerFails
  <2>1. file' \in CatalogOf /\ cut' = FALSE /\ latest' \in CatalogOf
    BY <1>2 DEF IInv, TypeOK, FileInv, PowerFails
  <2>2. TypeOK'
    BY <1>2, <2>1 DEF IInv, TypeOK, PowerFails
  <2>3. FileInv' /\ TempInv'
    BY <1>2, <2>1 DEF FileInv, TempInv, PowerFails
  <2>4. AskingInv' /\ SavingInv'
    BY <1>2 DEF AskingInv, SavingInv, Saving, PowerFails
  <2> QED BY <2>2, <2>3, <2>4 DEF IInv
<1> QED BY <1>1, <1>2

\* A catalog without decisions, and nobody in it.
LEMMA InitInvariant == Init => IInv
<1> SUFFICES ASSUME Init PROVE IInv
  OBVIOUS
<1>1. NoDecisions \in CatalogOf
  BY DEF NoDecisions, CatalogOf
<1>2. TypeOK
  <2>1. /\ file \in CatalogOf /\ latest \in CatalogOf
        /\ cut \in BOOLEAN /\ settled \in BOOLEAN
        /\ older \subseteq CatalogOf
    BY <1>1 DEF Init
  <2>2. /\ catalog \in [Session -> CatalogOf]
        /\ known \in [Session -> CatalogOf]
    BY <1>1 DEF Init
  <2>3. /\ pc \in [Session -> {"out", "asking"} \union Saving]
        /\ todo \in [Session -> SUBSET Column]
        /\ column \in [Session -> Column \union {Pending}]
        /\ temp \in [Session -> {"none", "partial", "whole", "durable"}]
    BY DEF Init
  <2>4. sessions \in 0..MaxSessions
    BY SessionsAssumption DEF Init
  <2> QED BY <2>1, <2>2, <2>3, <2>4 DEF TypeOK
<1>3. FileInv /\ TempInv
  BY <1>1 DEF Init, FileInv, TempInv
<1>4. AskingInv /\ SavingInv
  BY DEF Init, AskingInv, SavingInv, Saving
<1> QED BY <1>2, <1>3, <1>4 DEF IInv

\* Every step of every session, and of the environment.
LEMMA StepInvariant ==
    ASSUME IInv, [Next]_vars
    PROVE  IInv'
<1>1. CASE UNCHANGED vars
  BY <1>1 DEF vars, IInv, TypeOK, FileInv, TempInv, AskingInv, SavingInv
<1> QED BY <1>1, LoadStep, LeaveStep, DecideStep, TempStep, ReplaceStep, EnvironmentStep DEF Next

-----------------------------------------------------------------------------
(* The theorems. *)

\* A session's catalog differs from the file it knows only in the column that
\* it is saving, and only fsynced content takes the catalog's name.
THEOREM Invariance == Spec => []IInv
<1>1. IInv /\ [Next]_vars => IInv'
  BY StepInvariant
<1> QED BY <1>1, InitInvariant, PTL DEF Spec

\* The model's state always has its type.
THEOREM TypeCorrect == Spec => []TypeOK
<1>1. IInv => TypeOK
  BY DEF IInv
<1> QED BY <1>1, Invariance, PTL

\* Catalog.save (review.py): wherever a session or the machine dies, the file
\* that Catalog.load reads is a whole catalog.
THEOREM CatalogStaysWhole == Spec => []CatalogWhole
<1>1. IInv => CatalogWhole
  BY DEF IInv, FileInv, CatalogWhole
<1> QED BY <1>1, Invariance, PTL

\* Only a save() that is running has a temporary file.
THEOREM TempsAreCleaned == Spec => []TempsCleaned
<1>1. IInv => TempsCleaned
  BY DEF IInv, TempInv, TempsCleaned, Saving
<1> QED BY <1>1, Invariance, PTL

\* Where the file is as the session last saw it, a save changes the one column
\* it was made for, and replaces no decision by another.
THEOREM SavesOneColumn == Spec => KeepsWhatItKnew
<1>1. IInv /\ [Next]_vars =>
        [\A s \in Session : Replace(s) =>
            \A c \in Column :
                file[c] = known[s][c] /\ file'[c] # file[c] =>
                    c = column[s] /\ (file[c] = Pending \/ file'[c] = Pending)]_vars
  <2> SUFFICES ASSUME IInv, NEW s \in Session, Replace(s), NEW c \in Column,
                      file[c] = known[s][c], file'[c] # file[c]
               PROVE  c = column[s] /\ (file[c] = Pending \/ file'[c] = Pending)
    OBVIOUS
  <2>1. pc[s] \in Saving /\ file' = catalog[s]
    BY DEF Replace, Saving
  <2> QED BY <2>1 DEF IInv, SavingInv
<1> QED BY <1>1, Invariance, PTL DEF Spec, KeepsWhatItKnew

-----------------------------------------------------------------------------
(* Sessions one after the other. *)

\* Nobody opens the catalog while somebody has it open.
OneAtATime == \A r, s \in Session : pc[r] # "out" /\ pc[s] # "out" => r = s

\* The file is what the last saves of its columns made it, and who has it open
\* knows it.
KnownInv ==
    /\ file = latest
    /\ \A s \in Session : pc[s] # "out" => known[s] = file

\* The step that the run review_lost shows to go wrong when sessions overlap.
LEMMA KnownStep ==
    ASSUME IInv, OneAtATime, OneAtATime', KnownInv, [Next]_vars
    PROVE  KnownInv'
<1>1. ASSUME NEW s \in Session, StartReview(s) \/ RevokeScript(s)
      PROVE  KnownInv'
  <2>1. UNCHANGED <<file, latest>> /\ known' = [known EXCEPT ![s] = file]
    BY <1>1 DEF StartReview, RevokeScript, Load
  <2>2. \A r \in Session : r # s => pc'[r] = pc[r]
    BY <1>1 DEF IInv, TypeOK, StartReview, RevokeScript
  <2> QED BY <2>1, <2>2 DEF IInv, TypeOK, KnownInv
<1>2. ASSUME NEW s \in Session,
             \/ Skip(s) \/ Quit(s) \/ Decide(s) \/ CreateTemp(s) \/ WriteTemp(s) \/ SyncTemp(s)
             \/ SaveFails(s) \/ Kill(s)
      PROVE  KnownInv'
  <2>1. UNCHANGED <<file, latest, known>> /\ pc[s] # "out"
    BY <1>2 DEF Skip, Quit, Decide, CreateTemp, WriteTemp, SyncTemp, SaveFails, Kill, Saving
  <2>2. \A r \in Session : r # s => pc'[r] = pc[r]
    BY <1>2 DEF IInv, TypeOK, Skip, Quit, Decide, CreateTemp, WriteTemp, SyncTemp, SaveFails, Kill
  <2> QED BY <2>1, <2>2 DEF KnownInv
<1>3. ASSUME NEW s \in Session, Replace(s)
      PROVE  KnownInv'
  <2>1. /\ pc[s] = "replace" /\ pc[s] \in Saving
        /\ catalog[s] \in CatalogOf /\ latest \in CatalogOf
        /\ column[s] \in Column
    BY <1>3 DEF IInv, TypeOK, SavingInv, Replace, Saving
  <2>2. \A c \in Column : catalog[s][c] # latest[c] => c = column[s]
    BY <2>1 DEF IInv, SavingInv, KnownInv
  <2>3. latest' = [latest EXCEPT ![column[s]] = catalog[s][column[s]]] /\ file' = catalog[s]
    BY <1>3 DEF Replace
  <2>4. latest' \in [Column -> Decision \union {Pending}]
    BY <2>1, <2>3 DEF CatalogOf
  <2>5. \A c \in Column : latest'[c] = catalog[s][c]
    BY <2>1, <2>2, <2>3 DEF CatalogOf
  <2>6. latest' = catalog[s]
    BY <2>1, <2>4, <2>5 DEF CatalogOf
  <2>7. known'[s] = catalog[s] /\ \A r \in Session : r # s => pc'[r] = "out"
    BY <1>3, <2>1 DEF IInv, TypeOK, Replace, OneAtATime
  <2> QED BY <2>3, <2>6, <2>7 DEF KnownInv
<1>4. CASE Writeback
  BY <1>4 DEF Writeback, KnownInv
<1>5. CASE PowerFails
  <2>1. cut' = FALSE
    BY <1>5 DEF IInv, FileInv, PowerFails
  <2> QED BY <1>5, <2>1 DEF PowerFails, KnownInv
<1>6. CASE UNCHANGED vars
  BY <1>6 DEF vars, KnownInv
<1> QED BY <1>1, <1>2, <1>3, <1>4, <1>5, <1>6 DEF Next

\* cli.py:195, "so nothing is lost", is true of sessions that do not overlap:
\* every decision and revocation that was saved is in the file, until a power
\* cut brings an earlier catalog back.
THEOREM AloneNothingIsLost == Spec /\ []OneAtATime => []NothingLost
<1>1. Init => KnownInv
  BY DEF Init, KnownInv
<1>2. IInv /\ OneAtATime /\ OneAtATime' /\ KnownInv /\ [Next]_vars => KnownInv'
  BY KnownStep
<1>3. KnownInv => NothingLost
  BY DEF KnownInv, NothingLost
<1> QED BY <1>1, <1>2, <1>3, Invariance, PTL DEF Spec
=============================================================================
