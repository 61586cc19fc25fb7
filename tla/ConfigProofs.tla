---------------------------- MODULE ConfigProofs ----------------------------
(***************************************************************************)
(* Theorems about ConfigStore, for any number of loading threads, any      *)
(* number of versions and any of the failures; and about CodexSwitch, for  *)
(* any configuration a user may come with and any number of its edits.     *)
(***************************************************************************)
EXTENDS ConfigStore, CodexSwitch, FiniteInduction, TLAPS

(* What is served once the owner of the lock has put back what it must.    *)
Base == IF lock = None THEN data ELSE before

(* The lock is held by the loader that normalises or by the edit that      *)
(* saves, and by nobody once the process is gone.                          *)
LockOf ==
  /\ \A l \in Loader : lock = l <=> pc[l] = "normalising"
  /\ \A l \in Loader : pc[l] \in {"comparing", "marking"} => l = Watcher
  /\ lock = Editor <=> saving # "idle"
  /\ ~up => lock = None /\ \A l \in Loader : pc[l] = "idle"

(* What is served, and what can be put back, is valid or was imported.     *)
DataOf ==
  /\ up => Base.kind \in Valid \cup {"imported"}
  /\ saving # "idle" => data.kind \in {"edited", "imported"}
  /\ \A l \in Loader : pc[l] = "normalising" => data = got[l]
  /\ file.kind # "torn"

(* The version of an edit that is being saved is its own: nobody has read  *)
(* it, stamped it, reported it or written another one like it.             *)
OwnVersion ==
  saving # "idle" =>
    /\ data.ver > 0 /\ data.ver \notin accepted \cup rejected
    /\ saving # "stamping" =>
         /\ file.ver # data.ver /\ before.ver # data.ver
         /\ attempt # data.ver
         /\ \A l \in Loader : got[l].ver # data.ver /\ seen[l] # data.ver

(* No version is newer than the clock.                                     *)
VersionsOf ==
  /\ file.ver <= clock /\ data.ver <= clock /\ before.ver <= clock
  /\ attempt <= clock /\ accepted \subseteq 1 .. clock
  /\ rejected \subseteq 1 .. clock
  /\ \A l \in Loader : got[l].ver <= clock /\ seen[l] <= clock

(* A rejected edit is not even what may be put back.                       *)
RejectedOf ==
  \A v \in rejected :
    /\ Base.ver # v /\ file.ver # v
    /\ \A l \in Loader : got[l].ver # v

(* A file that counts as seen is served, or the watcher is about to load   *)
(* it.                                                                     *)
SeenOf ==
  up /\ attempt = Signature /\ file.kind \in {"good", "edited"} =>
    \/ Base = file \/ missed
    \/ pc[Watcher] = "reading"
    \/ pc[Watcher] \in {"committing", "normalising"} /\ got[Watcher] = file

(* While a replacement is stamped the file is what was put there, or some- *)
(* thing that is no edit.                                                  *)
ReplacedOf ==
  saving = "stamping" => file = data \/ file.ver \notin accepted \cup {data.ver}

(* An accepted edit that is in the file is served, unless a load overtook  *)
(* it.                                                                     *)
AcceptedOf == up /\ file.ver \in accepted => Base = file \/ overtaken

Inv ==
  /\ TypeOK /\ LockOf /\ DataOf /\ OwnVersion /\ VersionsOf /\ RejectedOf
  /\ SeenOf /\ ReplacedOf /\ AcceptedOf

-----------------------------------------------------------------------------
(* The two contents that stand for no file.                                *)
LEMMA Constants ==
  /\ Absent \in Content /\ Absent.ver = 0 /\ Absent.kind = "absent"
  /\ Defaults \in Document /\ Defaults.ver = 0 /\ Defaults.kind = "empty"
BY ConfigAssumption DEF Absent, Defaults, Content, Document, Kinds

(* What a writer or an edit makes is a document, and newer than all others.*)
LEMMA FreshFacts ==
  ASSUME TypeOK, clock < MaxVersion,
         NEW k \in {"good", "edited", "empty", "broken", "misshapen",
                    "imported"}
  PROVE  /\ Fresh(k) \in Document /\ Fresh(k).ver = clock + 1
         /\ Fresh(k).kind = k /\ clock + 1 \in 0 .. MaxVersion
BY ConfigAssumption, SMTT(60) DEF TypeOK, Fresh, Document, Content, Kinds

(* The types are kept by every step.                                       *)
LEMMA TypeStep ==
  ASSUME TypeOK, [Next]_vars
  PROVE  TypeOK'
<1>1. ASSUME NEW l \in Loader, Peek(l) PROVE TypeOK'
  BY <1>1 DEF TypeOK, Peek, Goto, historyVars
<1>2. ASSUME NEW l \in Loader, Compare(l) PROVE TypeOK'
  BY <1>2, ConfigAssumption, Constants, SMTT(60) DEF TypeOK, Content, Document, Kinds,
      Compare, At, Goto, Done, Signature, loadVars, historyVars
<1>3. ASSUME NEW l \in Loader, Mark(l) PROVE TypeOK'
  BY <1>3 DEF TypeOK, Mark, Goto, historyVars
<1>4. ASSUME NEW l \in Loader, Button(l) PROVE TypeOK'
  BY <1>4 DEF TypeOK, Button, Goto, historyVars
<1>5. ASSUME NEW l \in Loader, Read(l) PROVE TypeOK'
  BY <1>5, Constants DEF TypeOK, Read, Goto, Parsed, historyVars
<1>6. ASSUME NEW l \in Loader, ReadFails(l) PROVE TypeOK'
  <2>1. missed' \in BOOLEAN
    <3>1. CASE UNCHANGED missed
      BY <3>1 DEF TypeOK
    <3>2. CASE missed' = (missed \/ l = Watcher)
      BY <3>2
    <3>3. QED
      BY <1>6, <3>1, <3>2 DEF ReadFails
  <2>2. pc' = [pc EXCEPT ![l] = "idle"] /\ seen' = [seen EXCEPT ![l] = 0]
        /\ got' = [got EXCEPT ![l] = Defaults]
    BY <1>6 DEF ReadFails, Done
  <2>3. UNCHANGED <<file, clock, up, lock, data, before, attempt, saving,
                     accepted, rejected, overtaken>>
    BY <1>6 DEF ReadFails
  <2>4. 0 \in 0 .. MaxVersion
    BY ConfigAssumption
  <2>5. QED
    BY <2>1, <2>2, <2>3, <2>4, Constants DEF TypeOK
<1>7. ASSUME NEW l \in Loader, Commit(l) PROVE TypeOK'
  BY <1>7 DEF TypeOK, Commit, Goto, historyVars
<1>8. ASSUME NEW l \in Loader, Normalised(l) PROVE TypeOK'
  BY <1>8, Constants DEF TypeOK, Content, Document, Normalised, Done, Unlock,
      Signature
<1>9. ASSUME NEW l \in Loader, RollBack(l) PROVE TypeOK'
  BY <1>9, ConfigAssumption, Constants DEF TypeOK, RollBack, PutBack, Done,
      Unlock, historyVars
<1>10. ASSUME NEW k \in {"edited", "imported"}, BeginEdit(k) PROVE TypeOK'
  BY <1>10, ConfigAssumption DEF TypeOK, Content, Document, Kinds, BeginEdit,
      Fresh, loadVars, historyVars
<1>11. CASE Write
  BY <1>11 DEF TypeOK, Write, WriteTemporary, loadVars, historyVars
<1>12. CASE BackUp
  BY <1>12 DEF TypeOK, BackUp, loadVars, historyVars
<1>13. CASE Replace
  BY <1>13 DEF TypeOK, Replace, loadVars, historyVars
<1>14. CASE Stamp
  BY <1>14, Constants DEF TypeOK, Stamp, Unlock, Signature, Document, Content,
      loadVars
<1>15. CASE EditFails
  <2>1. rejected' \subseteq 0 .. MaxVersion
    BY <1>15 DEF TypeOK, EditFails, Document, Content
  <2>2. data' = before /\ before' = Defaults /\ lock' = None /\ saving' = "idle"
    BY <1>15 DEF EditFails, AbortEdit, Unlock
  <2>3. UNCHANGED <<file, clock, up, attempt, loadVars, accepted, missed,
                     overtaken>>
    BY <1>15 DEF EditFails, AbortEdit
  <2>4. QED
    BY <2>1, <2>2, <2>3, Constants DEF TypeOK, loadVars
<1>16. CASE OtherStep
  <2>1. file' \in Document \cup {Absent} /\ clock' \in 0 .. MaxVersion
    BY <1>16, FreshFacts, ConfigAssumption DEF OtherStep, OtherWrites,
        OtherRemoves, TypeOK
  <2>2. QED
    BY <1>16, <2>1 DEF TypeOK, OtherStep, OtherWrites, OtherRemoves, loadVars,
        historyVars
<1>17. CASE Crash
  <2>1. pc' = [m \in Loader |-> "idle"] /\ seen' = [m \in Loader |-> 0]
        /\ got' = [m \in Loader |-> Defaults]
    BY <1>17 DEF Crash
  <2>2. UNCHANGED <<file, clock, accepted, rejected>> /\ up' = FALSE
        /\ missed' = FALSE /\ overtaken' = FALSE
    BY <1>17 DEF Crash
  <2>3. lock' = None /\ data' = Defaults /\ before' = Defaults /\ attempt' = 0
        /\ saving' = "idle"
    BY <1>17 DEF Crash, Unlock
  <2>4. 0 \in 0 .. MaxVersion
    BY ConfigAssumption
  <2>5. QED
    BY <2>1, <2>2, <2>3, <2>4, Constants DEF TypeOK
<1>18. CASE Start
  <2>1. data' \in Document /\ attempt' \in 0 .. MaxVersion
    BY <1>18, Constants, ConfigAssumption DEF TypeOK, Start, Parsed, Signature,
        Document, Content
  <2>2. up' = TRUE /\ missed' = FALSE /\ overtaken' = FALSE
    BY <1>18 DEF Start
  <2>3. UNCHANGED <<file, clock, lock, before, loadVars, saving, accepted,
                    rejected>>
    BY <1>18 DEF Start
  <2>4. QED
    BY <2>1, <2>2, <2>3 DEF TypeOK, loadVars
<1>19. CASE UNCHANGED vars
  BY <1>19 DEF TypeOK, vars, loadVars, historyVars
<1>20. QED
  BY <1>1, <1>2, <1>3, <1>4, <1>5, <1>6, <1>7, <1>8, <1>9, <1>10, <1>11,
      <1>12, <1>13, <1>14, <1>15, <1>16, <1>17, <1>18, <1>19 DEF Next,
      LoadStep, SaveStep

(* The lock is taken and given back with the step that owns it.            *)
LEMMA LockStep ==
  ASSUME TypeOK, LockOf, [Next]_vars
  PROVE  LockOf'
<1>1. ASSUME NEW l \in Loader, Peek(l) PROVE LockOf'
  BY <1>1 DEF LockOf, Peek, At, Goto
<1>2. ASSUME NEW l \in Loader, Compare(l) PROVE LockOf'
  BY <1>2 DEF TypeOK, LockOf, Compare, At, Goto, Done
<1>3. ASSUME NEW l \in Loader, Mark(l) PROVE LockOf'
  BY <1>3 DEF LockOf, Mark, At, Goto
<1>4. ASSUME NEW l \in Loader, Button(l) PROVE LockOf'
  BY <1>4 DEF LockOf, Button, At, Goto
<1>5. ASSUME NEW l \in Loader, Read(l) PROVE LockOf'
  BY <1>5 DEF LockOf, Read, At, Goto
<1>6. ASSUME NEW l \in Loader, ReadFails(l) PROVE LockOf'
  BY <1>6 DEF LockOf, ReadFails, At, Done
<1>7. ASSUME NEW l \in Loader, Commit(l) PROVE LockOf'
  BY <1>7, ConfigAssumption DEF TypeOK, LockOf, Commit, At, Goto, LockFree
<1>8. ASSUME NEW l \in Loader, Normalised(l) PROVE LockOf'
  BY <1>8, ConfigAssumption DEF TypeOK, LockOf, Normalised, At, Done, Unlock
<1>9. ASSUME NEW l \in Loader, RollBack(l) PROVE LockOf'
  BY <1>9, ConfigAssumption DEF TypeOK, LockOf, RollBack, At, Done, Unlock
<1>10. ASSUME NEW k \in {"edited", "imported"}, BeginEdit(k) PROVE LockOf'
  BY <1>10, ConfigAssumption DEF LockOf, BeginEdit, LockFree, loadVars
<1>11. CASE Write
  BY <1>11 DEF LockOf, Write, loadVars
<1>12. CASE BackUp
  BY <1>12 DEF LockOf, BackUp, loadVars
<1>13. CASE Replace
  BY <1>13 DEF LockOf, Replace, loadVars
<1>14. CASE Stamp
  BY <1>14, ConfigAssumption DEF LockOf, Stamp, Unlock, loadVars
<1>15. CASE EditFails
  BY <1>15, ConfigAssumption DEF LockOf, EditFails, Unlock, loadVars
<1>16. CASE OtherStep
  BY <1>16 DEF LockOf, OtherStep, OtherWrites, OtherRemoves, loadVars
<1>17. CASE Crash
  BY <1>17, ConfigAssumption DEF LockOf, Crash, Unlock
<1>18. CASE Start
  BY <1>18 DEF LockOf, Start, loadVars
<1>19. CASE UNCHANGED vars
  BY <1>19 DEF LockOf, vars, loadVars
<1>20. QED
  BY <1>1, <1>2, <1>3, <1>4, <1>5, <1>6, <1>7, <1>8, <1>9, <1>10, <1>11,
      <1>12, <1>13, <1>14, <1>15, <1>16, <1>17, <1>18, <1>19 DEF Next,
      LoadStep, SaveStep

(* What is put in place or back is valid: an edit is, and a loaded         *)
(* document is kept only when it is.                                       *)
LEMMA DataStep ==
  ASSUME Inv, [Next]_vars
  PROVE  DataOf'
<1>1. ASSUME NEW l \in Loader, Peek(l) PROVE DataOf'
  BY <1>1 DEF Inv, DataOf, Base, Peek, Goto
<1>2. ASSUME NEW l \in Loader, Compare(l) PROVE DataOf'
  BY <1>2 DEF Inv, TypeOK, DataOf, Base, Compare, Goto, Done
<1>3. ASSUME NEW l \in Loader, Mark(l) PROVE DataOf'
  BY <1>3 DEF Inv, DataOf, Base, Mark, Goto
<1>4. ASSUME NEW l \in Loader, Button(l) PROVE DataOf'
  BY <1>4 DEF Inv, DataOf, Base, Button, Goto
<1>5. ASSUME NEW l \in Loader, Read(l) PROVE DataOf'
  BY <1>5 DEF Inv, DataOf, Base, Read, At, Goto
<1>6. ASSUME NEW l \in Loader, ReadFails(l) PROVE DataOf'
  BY <1>6 DEF Inv, DataOf, Base, ReadFails, At, Done
<1>7. ASSUME NEW l \in Loader, Commit(l) PROVE DataOf'
  BY <1>7, ConfigAssumption DEF Inv, LockOf, DataOf, Base, Commit, Goto,
      LockFree
<1>8. ASSUME NEW l \in Loader, Normalised(l) PROVE DataOf'
  BY <1>8 DEF Inv, TypeOK, DataOf, Base, Normalised, Done, Unlock
<1>9. ASSUME NEW l \in Loader, RollBack(l) PROVE DataOf'
  BY <1>9, ConfigAssumption DEF Inv, TypeOK, LockOf, DataOf, Base, RollBack,
      At, PutBack, Done, Unlock
<1>10. ASSUME NEW k \in {"edited", "imported"}, BeginEdit(k) PROVE DataOf'
  BY <1>10, ConfigAssumption DEF Inv, LockOf, DataOf, Base, BeginEdit,
      LockFree, Fresh, loadVars
<1>11. CASE Write
  BY <1>11 DEF Inv, DataOf, Base, Write, WriteTemporary, loadVars
<1>12. CASE BackUp
  BY <1>12 DEF Inv, DataOf, Base, BackUp, loadVars
<1>13. CASE Replace
  BY <1>13 DEF Inv, DataOf, Base, Replace, loadVars
<1>14. CASE Stamp
  BY <1>14 DEF Inv, DataOf, Base, Valid, Stamp, Unlock, loadVars
<1>15. CASE EditFails
  BY <1>15, ConfigAssumption DEF Inv, LockOf, DataOf, Base, EditFails,
      AbortEdit, Unlock, loadVars
<1>16. CASE OtherStep
  BY <1>16, Constants DEF Inv, DataOf, Base, OtherStep, OtherWrites,
      OtherRemoves, Fresh, loadVars
<1>17. CASE Crash
  BY <1>17 DEF Inv, DataOf, Crash
<1>18. CASE Start
  BY <1>18, ConfigAssumption DEF Inv, LockOf, DataOf, Base, Start, loadVars
<1>19. CASE UNCHANGED vars
  BY <1>19 DEF Inv, DataOf, Base, vars, loadVars
<1>20. QED
  BY <1>1, <1>2, <1>3, <1>4, <1>5, <1>6, <1>7, <1>8, <1>9, <1>10, <1>11,
      <1>12, <1>13, <1>14, <1>15, <1>16, <1>17, <1>18, <1>19 DEF Next,
      LoadStep, SaveStep

(* Only writers and edits make versions, and they count up.                *)
LEMMA VersionStep ==
  ASSUME Inv, [Next]_vars
  PROVE  VersionsOf'
<1>1. ASSUME NEW l \in Loader, Peek(l) PROVE VersionsOf'
  BY <1>1 DEF Inv, VersionsOf, Peek, historyVars
<1>2. ASSUME NEW l \in Loader, Compare(l) PROVE VersionsOf'
  BY <1>2, Constants DEF Inv, TypeOK, VersionsOf, Compare, Done, Signature,
      historyVars
<1>3. ASSUME NEW l \in Loader, Mark(l) PROVE VersionsOf'
  BY <1>3 DEF Inv, VersionsOf, Mark, historyVars
<1>4. ASSUME NEW l \in Loader, Button(l) PROVE VersionsOf'
  BY <1>4 DEF Inv, VersionsOf, Button, historyVars
<1>5. ASSUME NEW l \in Loader, Read(l) PROVE VersionsOf'
  BY <1>5, Constants DEF Inv, VersionsOf, Read, Parsed, historyVars
<1>6. ASSUME NEW l \in Loader, ReadFails(l) PROVE VersionsOf'
  BY <1>6, Constants DEF Inv, TypeOK, VersionsOf, ReadFails, Done
<1>7. ASSUME NEW l \in Loader, Commit(l) PROVE VersionsOf'
  BY <1>7 DEF Inv, VersionsOf, Commit, historyVars
<1>8. ASSUME NEW l \in Loader, Normalised(l) PROVE VersionsOf'
  BY <1>8, Constants DEF Inv, TypeOK, VersionsOf, Normalised, Done, Unlock,
      Signature
<1>9. ASSUME NEW l \in Loader, RollBack(l) PROVE VersionsOf'
  BY <1>9, Constants DEF Inv, TypeOK, VersionsOf, RollBack, PutBack, Done,
      Unlock, historyVars
<1>10. ASSUME NEW k \in {"edited", "imported"}, BeginEdit(k) PROVE VersionsOf'
  BY <1>10, Constants DEF Inv, TypeOK, VersionsOf, Content, Document,
      BeginEdit, Fresh, loadVars, historyVars
<1>11. CASE Write
  BY <1>11 DEF Inv, VersionsOf, Write, WriteTemporary, loadVars, historyVars
<1>12. CASE BackUp
  BY <1>12 DEF Inv, VersionsOf, BackUp, loadVars, historyVars
<1>13. CASE Replace
  BY <1>13 DEF Inv, VersionsOf, Replace, loadVars, historyVars
<1>14. CASE Stamp
  <2>1. saving = "stamping" /\ data.ver \in 1 .. clock
    BY <1>14 DEF Inv, TypeOK, OwnVersion, VersionsOf, Content, Document, Stamp
  <2>2. accepted' \subseteq 1 .. clock'
    BY <1>14, <2>1 DEF Inv, VersionsOf, Stamp
  <2>3. QED
    BY <1>14, <2>2, Constants DEF Inv, TypeOK, VersionsOf, Stamp, Unlock,
        Signature, loadVars
<1>15. CASE EditFails
  <2>1. saving # "idle" /\ data.ver \in 1 .. clock
    BY <1>15 DEF Inv, TypeOK, OwnVersion, VersionsOf, Content, Document,
        EditFails
  <2>2. rejected' \subseteq 1 .. clock'
    BY <1>15, <2>1 DEF Inv, VersionsOf, EditFails
  <2>3. QED
    BY <1>15, <2>2, Constants DEF Inv, TypeOK, VersionsOf, EditFails,
        AbortEdit, Unlock, loadVars
<1>16. CASE OtherStep
  <2>1. file'.ver <= clock' /\ clock <= clock' /\ clock \in Nat
        /\ clock' \in Nat
    BY <1>16, FreshFacts, Constants DEF Inv, TypeOK, OtherStep, OtherWrites,
        OtherRemoves
  <2>2. UNCHANGED <<data, before, attempt, loadVars, historyVars>>
    BY <1>16 DEF OtherStep, OtherWrites, OtherRemoves
  <2>3. QED
    BY <2>1, <2>2 DEF Inv, TypeOK, VersionsOf, Content, Document, loadVars,
        historyVars
<1>17. CASE Crash
  BY <1>17, Constants DEF Inv, TypeOK, VersionsOf, Crash, Unlock
<1>18. CASE Start
  BY <1>18, Constants DEF Inv, VersionsOf, Start, Parsed, Signature, loadVars
<1>19. CASE UNCHANGED vars
  BY <1>19 DEF Inv, VersionsOf, vars, loadVars, historyVars
<1>20. QED
  BY <1>1, <1>2, <1>3, <1>4, <1>5, <1>6, <1>7, <1>8, <1>9, <1>10, <1>11,
      <1>12, <1>13, <1>14, <1>15, <1>16, <1>17, <1>18, <1>19 DEF Next,
      LoadStep, SaveStep

(* Nobody else gets hold of an edit's version before it is in the file.    *)
LEMMA OwnStep ==
  ASSUME Inv, [Next]_vars
  PROVE  OwnVersion'
<1>1. ASSUME NEW l \in Loader, Peek(l) PROVE OwnVersion'
  BY <1>1, ConfigAssumption DEF Inv, LockOf, OwnVersion, Peek, LockFree
<1>2. ASSUME NEW l \in Loader, Compare(l) PROVE OwnVersion'
  BY <1>2, Constants DEF Inv, TypeOK, OwnVersion, Compare, Done, Signature,
      historyVars
<1>3. ASSUME NEW l \in Loader, Mark(l) PROVE OwnVersion'
  BY <1>3, ConfigAssumption DEF Inv, LockOf, OwnVersion, Mark, LockFree
<1>4. ASSUME NEW l \in Loader, Button(l) PROVE OwnVersion'
  BY <1>4 DEF Inv, OwnVersion, Button, historyVars
<1>5. ASSUME NEW l \in Loader, Read(l) PROVE OwnVersion'
  BY <1>5, Constants DEF Inv, OwnVersion, Read, Parsed, historyVars
<1>6. ASSUME NEW l \in Loader, ReadFails(l) PROVE OwnVersion'
  BY <1>6, Constants DEF Inv, OwnVersion, ReadFails, Done
<1>7. ASSUME NEW l \in Loader, Commit(l) PROVE OwnVersion'
  BY <1>7, ConfigAssumption DEF Inv, LockOf, OwnVersion, Commit, LockFree
<1>8. ASSUME NEW l \in Loader, Normalised(l) PROVE OwnVersion'
  BY <1>8, ConfigAssumption DEF Inv, LockOf, OwnVersion, Normalised, At
<1>9. ASSUME NEW l \in Loader, RollBack(l) PROVE OwnVersion'
  BY <1>9, ConfigAssumption DEF Inv, LockOf, OwnVersion, RollBack, At
<1>10. ASSUME NEW k \in {"edited", "imported"}, BeginEdit(k) PROVE OwnVersion'
  BY <1>10 DEF Inv, TypeOK, OwnVersion, VersionsOf, BeginEdit, Fresh,
      loadVars, historyVars
<1>11. CASE Write
  BY <1>11 DEF Inv, OwnVersion, Write, WriteTemporary, loadVars, historyVars
<1>12. CASE BackUp
  BY <1>12 DEF Inv, OwnVersion, BackUp, loadVars, historyVars
<1>13. CASE Replace
  BY <1>13 DEF Inv, OwnVersion, Replace, historyVars
<1>14. CASE Stamp
  BY <1>14 DEF OwnVersion, Stamp
<1>15. CASE EditFails
  BY <1>15 DEF OwnVersion, EditFails
<1>16. CASE OtherStep
  BY <1>16, Constants DEF Inv, TypeOK, OwnVersion, VersionsOf, OtherStep,
      OtherWrites, OtherRemoves, Fresh, loadVars, historyVars
<1>17. CASE Crash
  BY <1>17 DEF OwnVersion, Crash
<1>18. CASE Start
  BY <1>18, ConfigAssumption DEF Inv, LockOf, OwnVersion, Start
<1>19. CASE UNCHANGED vars
  BY <1>19 DEF Inv, OwnVersion, vars, loadVars, historyVars
<1>20. QED
  BY <1>1, <1>2, <1>3, <1>4, <1>5, <1>6, <1>7, <1>8, <1>9, <1>10, <1>11,
      <1>12, <1>13, <1>14, <1>15, <1>16, <1>17, <1>18, <1>19 DEF Next,
      LoadStep, SaveStep

(* A failed edit is in memory only, and what it replaced is put back.      *)
LEMMA RejectedStep ==
  ASSUME Inv, [Next]_vars
  PROVE  RejectedOf'
<1>1. ASSUME NEW l \in Loader, Peek(l) PROVE RejectedOf'
  BY <1>1 DEF Inv, RejectedOf, Base, Peek, historyVars
<1>2. ASSUME NEW l \in Loader, Compare(l) PROVE RejectedOf'
  BY <1>2, Constants DEF Inv, TypeOK, VersionsOf, RejectedOf, Base, Compare,
      Done, historyVars
<1>3. ASSUME NEW l \in Loader, Mark(l) PROVE RejectedOf'
  BY <1>3 DEF Inv, RejectedOf, Base, Mark, historyVars
<1>4. ASSUME NEW l \in Loader, Button(l) PROVE RejectedOf'
  BY <1>4 DEF Inv, RejectedOf, Base, Button, historyVars
<1>5. ASSUME NEW l \in Loader, Read(l) PROVE RejectedOf'
  BY <1>5, Constants DEF Inv, RejectedOf, Base, Read, Parsed, historyVars
<1>6. ASSUME NEW l \in Loader, ReadFails(l) PROVE RejectedOf'
  BY <1>6, Constants DEF Inv, VersionsOf, RejectedOf, Base, ReadFails, Done
<1>7. ASSUME NEW l \in Loader, Commit(l) PROVE RejectedOf'
  BY <1>7 DEF Inv, RejectedOf, Base, Commit, LockFree, historyVars
<1>8. ASSUME NEW l \in Loader, Normalised(l) PROVE RejectedOf'
  BY <1>8, Constants DEF Inv, VersionsOf, RejectedOf, DataOf, Base,
      Normalised, At, Done, Unlock
<1>9. ASSUME NEW l \in Loader, RollBack(l) PROVE RejectedOf'
  BY <1>9, ConfigAssumption, Constants DEF Inv, LockOf, VersionsOf,
      RejectedOf, Base, RollBack, At, PutBack, Done, Unlock, historyVars
<1>10. ASSUME NEW k \in {"edited", "imported"}, BeginEdit(k) PROVE RejectedOf'
  BY <1>10, ConfigAssumption DEF Inv, RejectedOf, Base, BeginEdit, LockFree,
      loadVars, historyVars
<1>11. CASE Write
  BY <1>11 DEF Inv, RejectedOf, Base, Write, WriteTemporary, loadVars,
      historyVars
<1>12. CASE BackUp
  BY <1>12 DEF Inv, RejectedOf, Base, BackUp, loadVars, historyVars
<1>13. CASE Replace
  BY <1>13 DEF Inv, OwnVersion, RejectedOf, Base, Replace, loadVars,
      historyVars
<1>14. CASE Stamp
  BY <1>14 DEF Inv, OwnVersion, RejectedOf, Base, Stamp, Unlock, loadVars
<1>15. CASE EditFails
  BY <1>15, ConfigAssumption DEF Inv, LockOf, OwnVersion, RejectedOf, Base,
      EditFails, AbortEdit, Unlock, loadVars
<1>16. CASE OtherStep
  BY <1>16, Constants DEF Inv, TypeOK, VersionsOf, RejectedOf, Content,
      Document, Base, OtherStep, OtherWrites, OtherRemoves, Fresh, loadVars,
      historyVars
<1>17. CASE Crash
  BY <1>17, Constants DEF Inv, VersionsOf, RejectedOf, Base, Crash, Unlock
<1>18. CASE Start
  BY <1>18, Constants DEF Inv, RejectedOf, Base, Start, Parsed, loadVars
<1>19. CASE UNCHANGED vars
  BY <1>19 DEF Inv, RejectedOf, Base, vars, loadVars, historyVars
<1>20. QED
  BY <1>1, <1>2, <1>3, <1>4, <1>5, <1>6, <1>7, <1>8, <1>9, <1>10, <1>11,
      <1>12, <1>13, <1>14, <1>15, <1>16, <1>17, <1>18, <1>19 DEF Next,
      LoadStep, SaveStep

(* A signature is stamped with what is served, or before it is loaded.     *)
LEMMA SeenStep ==
  ASSUME Inv, [Next]_vars
  PROVE  SeenOf'
<1>1. ASSUME NEW l \in Loader, Peek(l) PROVE SeenOf'
  BY <1>1 DEF Inv, SeenOf, Base, Signature, Peek, At, historyVars
<1>2. ASSUME NEW l \in Loader, Compare(l) PROVE SeenOf'
  BY <1>2, ConfigAssumption DEF Inv, TypeOK, SeenOf, Base, Signature, Compare,
      At, Goto, Done, historyVars
<1>3. ASSUME NEW l \in Loader, Mark(l) PROVE SeenOf'
  BY <1>3 DEF Inv, TypeOK, LockOf, SeenOf, Mark, At, Goto
<1>4. ASSUME NEW l \in Loader, Button(l) PROVE SeenOf'
  BY <1>4 DEF Inv, SeenOf, Base, Signature, Button, Goto, historyVars
<1>5. ASSUME NEW l \in Loader, Read(l) PROVE SeenOf'
  BY <1>5, Constants DEF Inv, TypeOK, SeenOf, Base, Signature, Read, Goto,
      Parsed, historyVars
<1>6. ASSUME NEW l \in Loader, ReadFails(l) PROVE SeenOf'
  BY <1>6, ConfigAssumption DEF Inv, TypeOK, SeenOf, Base, Signature,
      Unparsable, ReadFails, Done
<1>7. ASSUME NEW l \in Loader, Commit(l) PROVE SeenOf'
  BY <1>7, ConfigAssumption DEF Inv, SeenOf, Base, Signature, Commit, At,
      Goto, LockFree, historyVars
<1>8. ASSUME NEW l \in Loader, Normalised(l) PROVE SeenOf'
  BY <1>8, Constants DEF SeenOf, Base, Normalised, Unlock, Parsed
<1>9. ASSUME NEW l \in Loader, RollBack(l) PROVE SeenOf'
  BY <1>9 DEF Inv, DataOf, SeenOf, Base, Signature, Valid, RollBack, At,
      PutBack, Done, Unlock, historyVars
<1>10. ASSUME NEW k \in {"edited", "imported"}, BeginEdit(k) PROVE SeenOf'
  BY <1>10, ConfigAssumption DEF Inv, SeenOf, Base, Signature, BeginEdit,
      LockFree, loadVars, historyVars
<1>11. CASE Write
  BY <1>11 DEF Inv, SeenOf, Base, Signature, Write, WriteTemporary, loadVars,
      historyVars
<1>12. CASE BackUp
  BY <1>12 DEF Inv, SeenOf, Base, Signature, BackUp, loadVars, historyVars
<1>13. CASE Replace
  <2>1. attempt # data.ver /\ file' = data /\ attempt' = attempt
    BY <1>13 DEF Inv, OwnVersion, Replace
  <2>2. QED
    BY <2>1 DEF SeenOf, Signature
<1>14. CASE Stamp
  BY <1>14, Constants DEF SeenOf, Base, Stamp, Unlock, Parsed
<1>15. CASE EditFails
  BY <1>15, ConfigAssumption DEF Inv, LockOf, SeenOf, Base, Signature,
      EditFails, AbortEdit, Unlock, loadVars
<1>16. CASE OtherStep
  <2>1. file'.ver = clock + 1 \/ file'.kind = "absent"
    BY <1>16, FreshFacts, Constants DEF Inv, OtherStep, OtherWrites,
        OtherRemoves
  <2>2. attempt' = attempt /\ attempt <= clock /\ attempt \in Nat
        /\ clock \in Nat
    BY <1>16 DEF Inv, TypeOK, VersionsOf, OtherStep, OtherWrites, OtherRemoves
  <2>3. QED
    BY <2>1, <2>2 DEF SeenOf, Signature
<1>17. CASE Crash
  BY <1>17 DEF SeenOf, Crash
<1>18. CASE Start
  BY <1>18, Constants DEF Inv, LockOf, SeenOf, Base, Start, Parsed
<1>19. CASE UNCHANGED vars
  BY <1>19 DEF Inv, SeenOf, Base, Signature, vars, loadVars, historyVars
<1>20. QED
  BY <1>1, <1>2, <1>3, <1>4, <1>5, <1>6, <1>7, <1>8, <1>9, <1>10, <1>11,
      <1>12, <1>13, <1>14, <1>15, <1>16, <1>17, <1>18, <1>19 DEF Next,
      LoadStep, SaveStep

(* Nobody but another program touches the file before it is stamped.       *)
LEMMA ReplacedStep ==
  ASSUME Inv, [Next]_vars
  PROVE  ReplacedOf'
<1>1. CASE Replace
  BY <1>1 DEF ReplacedOf, Replace
<1>2. CASE OtherStep
  <2>1. file'.ver = clock + 1 \/ file'.ver = 0
    BY <1>2, FreshFacts, Constants DEF Inv, OtherStep, OtherWrites,
        OtherRemoves
  <2>2. /\ UNCHANGED <<accepted, data, saving>>
        /\ accepted \subseteq 1 .. clock /\ clock \in Nat
        /\ data.ver <= clock /\ data.ver \in Nat
    BY <1>2 DEF Inv, TypeOK, VersionsOf, Document, Content, OtherStep,
        OtherWrites, OtherRemoves, historyVars
  <2>3. saving = "stamping" => data.ver > 0
    BY DEF Inv, OwnVersion
  <2>4. QED
    BY <2>1, <2>2, <2>3 DEF ReplacedOf
<1>3. ASSUME NEW l \in Loader, Commit(l) \/ Normalised(l) \/ RollBack(l)
      PROVE  saving' # "stamping"
  <2>1. saving' = saving /\ lock # Editor
    BY <1>3, ConfigAssumption DEF Inv, LockOf, Commit, Normalised, RollBack,
        At, LockFree
  <2>2. QED
    BY <2>1 DEF Inv, LockOf
<1>4. ASSUME NEW l \in Loader,
             \/ Peek(l) \/ Compare(l) \/ Mark(l) \/ Button(l)
             \/ Read(l) \/ ReadFails(l)
      PROVE  UNCHANGED <<file, data, accepted, saving>>
  BY <1>4 DEF Peek, Compare, Mark, Button, Read, ReadFails, historyVars
<1>5. ASSUME NEW k \in {"edited", "imported"}, BeginEdit(k)
      PROVE  saving' # "stamping"
  BY <1>5 DEF BeginEdit
<1>6. CASE Write \/ BackUp \/ Stamp \/ EditFails \/ Crash
  BY <1>6 DEF ReplacedOf, Write, BackUp, Stamp, EditFails, Crash
<1>7. CASE Start
  BY <1>7, ConfigAssumption DEF Inv, LockOf, ReplacedOf, Start
<1>8. CASE UNCHANGED vars
  BY <1>8 DEF Inv, ReplacedOf, vars, historyVars
<1>9. CASE \E l \in Loader : LoadStep(l)
  <2>1. PICK l \in Loader : LoadStep(l)
    BY <1>9
  <2>2. saving' # "stamping" \/ UNCHANGED <<file, data, accepted, saving>>
    BY <1>3, <1>4, <2>1 DEF LoadStep
  <2>3. QED
    BY <2>2 DEF Inv, ReplacedOf
<1>10. CASE \E k \in {"edited", "imported"} : BeginEdit(k)
  BY <1>5, <1>10 DEF ReplacedOf
<1>11. QED
  BY <1>1, <1>2, <1>6, <1>7, <1>8, <1>9, <1>10 DEF Next, SaveStep

(* An accepted edit leaves memory only with another file, or by a load     *)
(* that read another document.                                             *)
LEMMA AcceptedStep ==
  ASSUME Inv, [Next]_vars
  PROVE  AcceptedOf'
<1>1. ASSUME NEW l \in Loader, Peek(l) PROVE AcceptedOf'
  BY <1>1 DEF Inv, AcceptedOf, Base, Peek, historyVars
<1>2. ASSUME NEW l \in Loader, Compare(l) PROVE AcceptedOf'
  BY <1>2 DEF Inv, AcceptedOf, Base, Compare, historyVars
<1>3. ASSUME NEW l \in Loader, Mark(l) PROVE AcceptedOf'
  BY <1>3 DEF Inv, AcceptedOf, Base, Mark, historyVars
<1>4. ASSUME NEW l \in Loader, Button(l) PROVE AcceptedOf'
  BY <1>4 DEF Inv, AcceptedOf, Base, Button, historyVars
<1>5. ASSUME NEW l \in Loader, Read(l) PROVE AcceptedOf'
  BY <1>5 DEF Inv, AcceptedOf, Base, Read, historyVars
<1>6. ASSUME NEW l \in Loader, ReadFails(l) PROVE AcceptedOf'
  BY <1>6 DEF Inv, AcceptedOf, Base, ReadFails
<1>7. ASSUME NEW l \in Loader, Commit(l) PROVE AcceptedOf'
  BY <1>7, ConfigAssumption DEF Inv, AcceptedOf, Base, Commit, LockFree,
      historyVars
<1>8. ASSUME NEW l \in Loader, Normalised(l) PROVE AcceptedOf'
  <2>1. Base' = data /\ file' = file /\ accepted' = accepted
        /\ overtaken' = (file.ver \in accepted /\ data # file)
    BY <1>8 DEF Base, Normalised, Unlock
  <2>2. QED
    BY <2>1 DEF AcceptedOf
<1>9. ASSUME NEW l \in Loader, RollBack(l) PROVE AcceptedOf'
  BY <1>9, ConfigAssumption DEF Inv, LockOf, AcceptedOf, Base, RollBack, At,
      PutBack, Unlock, historyVars
<1>10. ASSUME NEW k \in {"edited", "imported"}, BeginEdit(k) PROVE AcceptedOf'
  BY <1>10, ConfigAssumption DEF Inv, AcceptedOf, Base, BeginEdit, LockFree,
      historyVars
<1>11. CASE Write
  BY <1>11 DEF Inv, AcceptedOf, Base, Write, WriteTemporary, historyVars
<1>12. CASE BackUp
  BY <1>12 DEF Inv, AcceptedOf, Base, BackUp, historyVars
<1>13. CASE Replace
  BY <1>13 DEF Inv, OwnVersion, AcceptedOf, Replace, historyVars
<1>14. CASE Stamp
  BY <1>14 DEF Inv, ReplacedOf, AcceptedOf, Base, Stamp, Unlock
<1>15. CASE EditFails
  BY <1>15, ConfigAssumption DEF Inv, LockOf, AcceptedOf, Base, EditFails,
      AbortEdit, Unlock
<1>16. CASE OtherStep
  <2>1. file'.ver = clock + 1 \/ file'.ver = 0
    BY <1>16, FreshFacts, Constants DEF Inv, OtherStep, OtherWrites,
        OtherRemoves
  <2>2. accepted' = accepted /\ accepted \subseteq 1 .. clock /\ clock \in Nat
    BY <1>16 DEF Inv, TypeOK, VersionsOf, OtherStep, OtherWrites,
        OtherRemoves, historyVars
  <2>3. QED
    BY <2>1, <2>2 DEF AcceptedOf
<1>17. CASE Crash
  BY <1>17 DEF AcceptedOf, Crash
<1>18. CASE Start
  BY <1>18, Constants DEF Inv, LockOf, VersionsOf, AcceptedOf, Base, Start,
      Parsed
<1>19. CASE UNCHANGED vars
  BY <1>19 DEF Inv, AcceptedOf, Base, vars, historyVars
<1>20. QED
  BY <1>1, <1>2, <1>3, <1>4, <1>5, <1>6, <1>7, <1>8, <1>9, <1>10, <1>11,
      <1>12, <1>13, <1>14, <1>15, <1>16, <1>17, <1>18, <1>19 DEF Next,
      LoadStep, SaveStep

-----------------------------------------------------------------------------
(* A process that has not started yet satisfies the invariant.             *)
LEMMA InitInv == Init => Inv
<1> SUFFICES ASSUME Init PROVE Inv
  OBVIOUS
<1>1. TypeOK
  <2>1. file \in Document \cup {Absent}
    BY ConfigAssumption DEF Init, Document, Content, Kinds
  <2>2. pc = [l \in Loader |-> "idle"] /\ seen = [l \in Loader |-> 0]
        /\ got = [l \in Loader |-> Defaults] /\ clock = 1 /\ lock = None
        /\ data = Defaults /\ before = Defaults /\ attempt = 0 /\ ~up
        /\ ~missed /\ ~overtaken
        /\ saving = "idle" /\ accepted = {} /\ rejected = {}
    BY DEF Init
  <2>3. 0 \in 0 .. MaxVersion /\ 1 \in 0 .. MaxVersion
    BY ConfigAssumption
  <2>4. up \in BOOLEAN /\ missed \in BOOLEAN /\ overtaken \in BOOLEAN
    BY DEF Init
  <2>5. QED
    BY <2>1, <2>2, <2>3, <2>4, Constants DEF TypeOK
<1>2. LockOf
  BY ConfigAssumption DEF Init, LockOf
<1>3. DataOf /\ OwnVersion /\ RejectedOf /\ SeenOf /\ ReplacedOf /\ AcceptedOf
  BY Constants DEF Init, DataOf, OwnVersion, RejectedOf, SeenOf, ReplacedOf,
     AcceptedOf
<1>4. VersionsOf
  BY Constants DEF Init, VersionsOf
<1>5. QED
  BY <1>1, <1>2, <1>3, <1>4 DEF Inv

(* The parts of the invariant, kept by every step, together.               *)
LEMMA InvStep == Inv /\ [Next]_vars => Inv'
BY TypeStep, LockStep, DataStep, VersionStep, OwnStep, RejectedStep, SeenStep,
   ReplacedStep, AcceptedStep DEF Inv

(* The inductive invariant holds in every behaviour.                       *)
LEMMA InvTheorem == Spec => []Inv
BY InitInv, InvStep, PTL DEF Spec

(* Type correctness: file, memory, stamps and threads keep to their types. *)
THEOREM ConfigTypeTheorem == Spec => []TypeOK
<1>1. Inv => TypeOK
  BY DEF Inv
<1>2. QED
  BY InvTheorem, <1>1, PTL

(* Whoever honours the lock finds a valid configuration or the last        *)
(* import, whatever other programs leave in the file and however many      *)
(* threads load it.                                                        *)
THEOREM LastValidTheorem == Spec => []LastValid
<1>1. Inv => LastValid
  <2> SUFFICES ASSUME Inv, up, lock \notin Loader
        PROVE  data.kind \in Valid \cup {"imported"}
    BY DEF LastValid
  <2>1. CASE lock = None
    BY <2>1 DEF Inv, DataOf, Base
  <2>2. CASE lock = Editor
    BY <2>2 DEF Inv, LockOf, DataOf, Valid
  <2>3. QED
    BY <2>1, <2>2 DEF Inv, TypeOK
<1>2. QED
  BY InvTheorem, <1>1, PTL

(* An edit whose failure was reported before the file was replaced is      *)
(* neither in memory nor in the file nor in the hands of a loader.         *)
THEOREM RejectedTheorem == Spec => []RejectedIsGone
<1>1. Inv => RejectedIsGone
  <2> SUFFICES ASSUME Inv, NEW v \in rejected PROVE data.ver # v
    BY DEF Inv, RejectedOf, RejectedIsGone
  <2>1. CASE lock = None
    BY <2>1 DEF Inv, RejectedOf, Base
  <2>2. CASE lock = Editor
    BY <2>2 DEF Inv, LockOf, OwnVersion
  <2>3. CASE lock \in Loader
    BY <2>3 DEF Inv, LockOf, DataOf, RejectedOf
  <2>4. QED
    BY <2>1, <2>2, <2>3 DEF Inv, TypeOK
<1>2. QED
  BY InvTheorem, <1>1, PTL

(* The watcher skips a valid file only when it is served, or when it was   *)
(* written at the very moment of a stamp.                                  *)
THEOREM SeenTheorem == Spec => []SeenIsServed
<1>1. Inv => SeenIsServed
  BY ConfigAssumption DEF Inv, SeenOf, LockOf, Base, SeenIsServed
<1>2. QED
  BY InvTheorem, <1>1, PTL

(* Whenever the process dies, the file it leaves is whole.                 *)
THEOREM WholeTheorem == Spec => []CrashLeavesWhole
<1>1. Inv => CrashLeavesWhole
  BY DEF Inv, DataOf, CrashLeavesWhole
<1>2. QED
  BY InvTheorem, <1>1, PTL

(* For any number of loading threads: whatever takes the place of an       *)
(* accepted edit in the file was made from it, unless a load that had read *)
(* another document put it in memory over that edit.  A wrong signature, a *)
(* failed edit, a broken file or a crash never costs an accepted edit.     *)
THEOREM EditsTheorem == Spec => LostToLoadsOnly
<1>1. ASSUME Inv, [Next]_vars, ReplacesAccepted
      PROVE  before = file \/ overtaken
  <2>1. up /\ lock # None /\ file.ver \in accepted
    BY <1>1, ConfigAssumption DEF Inv, LockOf, ReplacesAccepted
  <2>2. QED
    BY <1>1, <2>1 DEF Inv, AcceptedOf, Base
<1>2. Inv /\ [Next]_vars => [ReplacesAccepted => before = file \/ overtaken]_vars
  BY <1>1
<1>3. QED
  BY InvTheorem, <1>2, PTL DEF Spec, LostToLoadsOnly

(* Readers find a valid configuration, and the watcher's stamp is its own.  *)
THEOREM MemoryTheorem == Spec => []MemoryServes
  BY ConfigTypeTheorem, LastValidTheorem, SeenTheorem,
     PTL DEF MemoryServes

(* Neither a failed edit nor a death of the process leaves half an edit.    *)
THEOREM WholeEditTheorem == Spec => []NoHalfEdit
  BY RejectedTheorem, WholeTheorem,
     PTL DEF NoHalfEdit

-----------------------------------------------------------------------------
(* The switch of Codex. *)

LEMMA LeastMeans ==
  ASSUME NEW S \in SUBSET Nat, S # {}
  PROVE  Min(S) \in S /\ \A n \in S : Min(S) <= n
<1>1. \E n \in S : \A m \in S : n <= m  BY LeastNatural
<1>2. QED  BY <1>1 DEF Min

(* The keys that the bridge writes and removes, and all lines there may be.  *)
BridgeKeys == {"model_provider", "openai_base_url", "model_limits", "tool_output_token_limit",
               "model", "request_compression"}
Values == {"bridge", "default", "false", "mine"}

KeyLines == {KeyLine(key, value) : key \in BridgeKeys \cup {"model_catalog_json", "trust"},
                                   value \in Values}
HeaderLines == {Header("features", FALSE), Header("project", FALSE), Header("project", TRUE)}
AnyLine == TomlLine \cup HeaderLines \cup KeyLines

(* z is s with the lines from a up to b replaced by m others. *)
Spliced(s, z, a, b, m) ==
    /\ s \in Seq(AnyLine) /\ z \in Seq(AnyLine)
    /\ a \in Nat \ {0} /\ b \in Nat /\ m \in Nat
    /\ a <= b /\ b <= Len(s) + 1
    /\ Len(z) = Len(s) + a + m - b
    /\ \A i \in 1..Len(z) :
          /\ i < a => z[i] = s[i]
          /\ i >= a + m => z[i] = s[i - a - m + b]

(* No section of which the header is cut out loses it to the one before.     *)
Clean(s, a, b) ==
    (\E h \in Headers(s) : a <= h /\ h < b) => b = Len(s) + 1 \/ b \in Headers(s)

(* What the bridge may put in.                                               *)
Foreign(line) ==
    ~Own(line) /\ ~line.noted /\ line.head \notin BridgeSections

LEMMA SplicedBack ==
  ASSUME NEW s, NEW z, NEW a, NEW b, NEW m, Spliced(s, z, a, b, m)
  PROVE  /\ \A i \in 1..Len(z) : i < a => i \in 1..Len(s) /\ z[i] = s[i]
         /\ \A i \in 1..Len(z) : i >= a + m =>
               i - a - m + b \in b..Len(s) /\ z[i] = s[i - a - m + b]
         /\ \A i \in 1..Len(s) : i < a => i \in 1..Len(z) /\ z[i] = s[i]
         /\ \A i \in 1..Len(s) : i >= b =>
               i + a + m - b \in (a + m)..Len(z) /\ z[i + a + m - b] = s[i]
<1>1. Len(s) \in Nat /\ Len(z) \in Nat  BY DEF Spliced
<1>2. /\ a \in Nat \ {0} /\ b \in Nat /\ m \in Nat /\ a <= b /\ b <= Len(s) + 1
      /\ Len(z) = Len(s) + a + m - b
  BY DEF Spliced
<1>3. ASSUME NEW i \in 1..Len(z), i < a PROVE i \in 1..Len(s) /\ z[i] = s[i]
  BY <1>1, <1>2, <1>3 DEF Spliced
<1>4. ASSUME NEW i \in 1..Len(z), i >= a + m
      PROVE  i - a - m + b \in b..Len(s) /\ z[i] = s[i - a - m + b]
  BY <1>1, <1>2, <1>4, SMTT(60) DEF Spliced
<1>5. ASSUME NEW i \in 1..Len(s), i < a PROVE i \in 1..Len(z) /\ z[i] = s[i]
  BY <1>1, <1>2, <1>5 DEF Spliced
<1>6. ASSUME NEW i \in 1..Len(s), i >= b
      PROVE  i + a + m - b \in (a + m)..Len(z) /\ z[i + a + m - b] = s[i]
  <2>1. PICK j \in Int : j = i + a + m - b  BY <1>1, <1>2
  <2>2. j \in 1..Len(z) /\ j >= a + m /\ j - a - m + b = i /\ j <= Len(z)
    BY <1>1, <1>2, <1>6, <2>1
  <2>3. z[j] = s[j - a - m + b]  BY <2>2 DEF Spliced
  <2>4. QED  BY <1>1, <1>2, <2>1, <2>2, <2>3
<1>7. QED  BY <1>3, <1>4, <1>5, <1>6

LEMMA HeadersMap ==
  ASSUME NEW s, NEW z, NEW a, NEW b, NEW m, Spliced(s, z, a, b, m)
  PROVE  /\ \A h \in Headers(s) : h < a => h \in Headers(z)
         /\ \A h \in Headers(s) : h >= b => h + a + m - b \in Headers(z)
<1>1. /\ \A i \in 1..Len(s) : i < a => i \in 1..Len(z) /\ z[i] = s[i]
      /\ \A i \in 1..Len(s) : i >= b =>
               i + a + m - b \in (a + m)..Len(z) /\ z[i + a + m - b] = s[i]
  BY SplicedBack
<1>2. a \in Nat \ {0} /\ b \in Nat /\ m \in Nat /\ Len(z) \in Nat  BY DEF Spliced
<1>3. \A i \in (a + m)..Len(z) : i \in 1..Len(z)  BY <1>2
<1>4. QED  BY <1>1, <1>3 DEF Headers

LEMMA SplicedTop ==
  ASSUME NEW s, NEW z, NEW a, NEW b, NEW m, Spliced(s, z, a, b, m), Clean(s, a, b)
  PROVE  \A i \in Top(z) : /\ i < a => i \in Top(s)
                           /\ i >= a + m => i - a - m + b \in Top(s)
<1>1. Len(s) \in Nat /\ Len(z) \in Nat  BY DEF Spliced
<1>2. /\ a \in Nat \ {0} /\ b \in Nat /\ m \in Nat /\ a <= b /\ b <= Len(s) + 1
      /\ Len(z) = Len(s) + a + m - b
  BY DEF Spliced
<1>3. /\ \A h \in Headers(s) : h < a => h \in Headers(z)
      /\ \A h \in Headers(s) : h >= b => h + a + m - b \in Headers(z)
  BY HeadersMap
<1>4. /\ \A i \in 1..Len(z) : i < a => i \in 1..Len(s)
      /\ \A i \in 1..Len(z) : i >= a + m => i - a - m + b \in b..Len(s)
  BY SplicedBack
<1>5. Headers(s) \subseteq 1..Len(s) /\ Headers(z) \subseteq 1..Len(z)  BY DEF Headers
<1>6. TAKE i \in Top(z)
<1>7. i \in 1..Len(z) /\ \A h \in Headers(z) : i < h  BY DEF Top
<1>8. ASSUME i < a PROVE i \in Top(s)
  <2>1. i \in 1..Len(s)  BY <1>4, <1>7, <1>8
  <2>2. \A h \in Headers(s) : i < h
    <3>1. TAKE h \in Headers(s)
    <3>2. h \in Nat  BY <1>5
    <3>3. QED  BY <1>2, <1>3, <1>7, <1>8, <3>2
  <2>3. QED  BY <2>1, <2>2 DEF Top
<1>9. ASSUME i >= a + m PROVE i - a - m + b \in Top(s)
  <2>1. PICK j \in b..Len(s) : j = i - a - m + b  BY <1>4, <1>7, <1>9
  <2>2. j \in 1..Len(s)  BY <1>1, <1>2
  <2>3. \A h \in Headers(s) : h >= b => j < h
    <3>1. TAKE h \in Headers(s)
    <3>2. h \in Nat  BY <1>5
    <3>3. QED  BY <1>2, <1>3, <1>7, <2>1, <3>2
  <2>4. \A h \in Headers(s) : ~(h < a)
    <3>1. TAKE h \in Headers(s)
    <3>2. h \in Nat  BY <1>5
    <3>3. QED  BY <1>2, <1>3, <1>7, <1>9, <3>2
  <2>5. \A h \in Headers(s) : ~(a <= h /\ h < b)
    <3>1. SUFFICES ASSUME NEW h \in Headers(s), a <= h, h < b PROVE FALSE
      OBVIOUS
    <3>2. b = Len(s) + 1 \/ b \in Headers(s)  BY <3>1 DEF Clean
    <3>3. b # Len(s) + 1  BY <1>1, <1>2, <2>1
    <3>4. b \in Headers(s) /\ j >= b  BY <3>2, <3>3, <1>1, <1>2
    <3>5. j < b  BY <2>3, <3>4, <1>2
    <3>6. QED  BY <3>4, <3>5, <1>1, <1>2
  <2>6. \A h \in Headers(s) : j < h
    <3>1. TAKE h \in Headers(s)
    <3>2. h \in Nat  BY <1>5
    <3>3. QED  BY <1>2, <2>3, <2>4, <2>5, <3>2
  <2>7. j \in Top(s)  BY <2>2, <2>6 DEF Top
  <2>8. QED  BY <2>1, <2>7
<1>10. QED  BY <1>8, <1>9

LEMMA SplicedSeparate ==
  ASSUME NEW s, NEW z, NEW a, NEW b, NEW m, Spliced(s, z, a, b, m), Clean(s, a, b),
         \A i \in 1..Len(z) : a <= i /\ i < a + m => Foreign(z[i]),
         Separate(s), Plain(s)
  PROVE  Separate(z) /\ Plain(z)
<1>1. Len(s) \in Nat /\ Len(z) \in Nat  BY DEF Spliced
<1>2. /\ a \in Nat \ {0} /\ b \in Nat /\ m \in Nat /\ a <= b /\ b <= Len(s) + 1
      /\ Len(z) = Len(s) + a + m - b
  BY DEF Spliced
<1>3. /\ \A h \in Headers(s) : h < a => h \in Headers(z)
      /\ \A h \in Headers(s) : h >= b => h + a + m - b \in Headers(z)
  BY HeadersMap
<1>4. /\ \A i \in 1..Len(z) : i < a => i \in 1..Len(s) /\ z[i] = s[i]
      /\ \A i \in 1..Len(z) : i >= a + m =>
            i - a - m + b \in b..Len(s) /\ z[i] = s[i - a - m + b]
  BY SplicedBack
<1>5. Headers(s) \subseteq 1..Len(s) /\ Headers(z) \subseteq 1..Len(z)  BY DEF Headers
<1>6. \A i \in b..Len(s) : i \in 1..Len(s)  BY <1>1, <1>2
<1>7. Plain(z)
  <2>1. SUFFICES ASSUME NEW i \in 1..Len(z) PROVE ~z[i].noted
    BY DEF Plain
  <2>2. i < a \/ i >= a + m \/ (a <= i /\ i < a + m)  BY <1>1, <1>2
  <2>3. QED  BY <1>4, <1>6, <2>2 DEF Plain, Foreign
<1>8. SUFFICES ASSUME NEW h \in Headers(z), NEW i \in 1..Len(z), h < i,
                      z[h].head \in BridgeSections, z[i].key \in OwnKeys
               PROVE  \E g \in Headers(z) : h < g /\ g <= i
  BY <1>7 DEF Separate
<1>9. h \in 1..Len(z)  BY <1>5
<1>10. ~(a <= h /\ h < a + m) /\ ~(a <= i /\ i < a + m)
  BY <1>8, <1>9 DEF Foreign, Own
<1>11. CASE h < a /\ i < a
  <2>1. h \in Headers(s) /\ i \in 1..Len(s) /\ z[h] = s[h] /\ z[i] = s[i]
    BY <1>4, <1>9, <1>11 DEF Headers
  <2>2. PICK g \in Headers(s) : h < g /\ g <= i  BY <2>1, <1>8 DEF Separate
  <2>3. g \in Headers(z)  BY <2>2, <1>1, <1>2, <1>3, <1>5, <1>11
  <2>4. QED  BY <2>2, <2>3
<1>12. CASE h < a /\ i >= a + m
  <2>1. PICK j \in b..Len(s) : j = i - a - m + b  BY <1>4, <1>12
  <2>2. j \in 1..Len(s) /\ z[i] = s[j]  BY <1>4, <1>6, <1>12, <2>1
  <2>3. h \in Headers(s) /\ z[h] = s[h]  BY <1>4, <1>9, <1>12 DEF Headers
  <2>4. h < j  BY <1>1, <1>2, <1>9, <1>12
  <2>5. PICK g \in Headers(s) : h < g /\ g <= j  BY <2>2, <2>3, <2>4, <1>8 DEF Separate
  <2>6. g \in Nat  BY <1>5
  <2>7. CASE g < a
    <3>1. g \in Headers(z)  BY <2>7, <1>3
    <3>2. g <= i  BY <2>6, <2>7, <1>1, <1>2, <1>12
    <3>3. QED  BY <2>5, <3>1, <3>2
  <2>8. ASSUME NEW k \in Headers(s), k >= b, k <= j
        PROVE  \E x \in Headers(z) : h < x /\ x <= i
    <3>1. PICK x \in Headers(z) : x = k + a + m - b  BY <2>8, <1>3
    <3>2. k \in Nat  BY <1>5
    <3>3. h < x /\ x <= i  BY <3>1, <3>2, <2>1, <2>8, <1>1, <1>2, <1>9, <1>12
    <3>4. QED  BY <3>1, <3>3
  <2>9. CASE g >= b
    BY <2>5, <2>8, <2>9
  <2>10. CASE a <= g /\ g < b
    <3>1. b = Len(s) + 1 \/ b \in Headers(s)  BY <2>10 DEF Clean
    <3>2. b \in Headers(s)  BY <3>1, <2>1, <1>1, <1>2
    <3>3. b <= j  BY <1>1, <1>2
    <3>4. QED  BY <3>2, <3>3, <2>8, <1>2
  <2>11. QED  BY <2>6, <2>7, <2>9, <2>10, <1>2
<1>13. CASE h >= a + m
  <2>1. i >= a + m  BY <1>1, <1>2, <1>8, <1>9, <1>13
  <2>2. PICK j \in b..Len(s) : j = i - a - m + b  BY <1>4, <2>1
  <2>3. j \in 1..Len(s) /\ z[i] = s[j]  BY <1>4, <1>6, <2>1, <2>2
  <2>4. PICK k \in b..Len(s) : k = h - a - m + b  BY <1>4, <1>9, <1>13
  <2>5. k \in Headers(s) /\ z[h] = s[k]
    <3>1. k \in 1..Len(s) /\ z[h] = s[k]  BY <1>4, <1>6, <1>9, <1>13, <2>4
    <3>2. QED  BY <3>1 DEF Headers
  <2>6. k < j  BY <1>1, <1>2, <1>8, <1>9, <2>2, <2>4
  <2>7. PICK g \in Headers(s) : k < g /\ g <= j  BY <2>3, <2>5, <2>6, <1>8 DEF Separate
  <2>8. g \in Nat  BY <1>5
  <2>9. g >= b  BY <2>7, <2>8, <1>1, <1>2
  <2>10. PICK x \in Headers(z) : x = g + a + m - b  BY <2>9, <1>3
  <2>11. h < x /\ x <= i
    BY <2>2, <2>4, <2>7, <2>8, <2>10, <1>1, <1>2, <1>9
  <2>12. QED  BY <2>10, <2>11
<1>14. QED  BY <1>1, <1>2, <1>8, <1>9, <1>10, <1>11, <1>12, <1>13

(* The bridge's line about the catalog comes before any other about one.     *)
CatalogFirst(s) ==
    \A i, j \in Top(s) :
        s[i] = CatalogLine /\ s[j].key = "model_catalog_json" => i <= j

LEMMA SplicedCatalog ==
  ASSUME NEW s, NEW z, NEW a, NEW b, NEW m, Spliced(s, z, a, b, m), Clean(s, a, b),
         \A i \in 1..Len(z) :
            a <= i /\ i < a + m => z[i].key # "model_catalog_json"
  PROVE  /\ CatalogFirst(s) => CatalogFirst(z)
         /\ CatalogLine \notin TopLines(s) => CatalogLine \notin TopLines(z)
<1>1. Len(s) \in Nat /\ Len(z) \in Nat  BY DEF Spliced
<1>2. /\ a \in Nat \ {0} /\ b \in Nat /\ m \in Nat /\ a <= b /\ b <= Len(s) + 1
      /\ Len(z) = Len(s) + a + m - b
  BY DEF Spliced
<1>3. /\ \A i \in 1..Len(z) : i < a => i \in 1..Len(s) /\ z[i] = s[i]
      /\ \A i \in 1..Len(z) : i >= a + m =>
            i - a - m + b \in b..Len(s) /\ z[i] = s[i - a - m + b]
  BY SplicedBack
<1>4. \A i \in Top(z) : /\ i \in 1..Len(z)
                        /\ i < a => i \in Top(s)
                        /\ i >= a + m => i - a - m + b \in Top(s)
  BY SplicedTop DEF Top
<1>5. CatalogLine.key = "model_catalog_json"  BY DEF CatalogLine, KeyLine
<1> DEFINE From(i) == IF i < a THEN i ELSE i - a - m + b
<1>6. \A i \in Top(z) : z[i].key = "model_catalog_json" =>
          i \in 1..Len(z) /\ (i < a \/ i >= a + m) /\ From(i) \in Top(s) /\ z[i] = s[From(i)]
  <2>1. TAKE i \in Top(z)
  <2>2. HAVE z[i].key = "model_catalog_json"
  <2>3. i \in 1..Len(z)  BY <1>4
  <2>4. i < a \/ i >= a + m  BY <1>1, <1>2, <2>2, <2>3
  <2>5. CASE i < a  BY <2>5, <2>3, <1>3, <1>4
  <2>6. CASE i >= a + m
    <3>1. ~(i < a)  BY <1>1, <1>2, <2>3, <2>6
    <3>2. QED  BY <3>1, <2>3, <2>6, <1>3, <1>4
  <2>7. QED  BY <2>4, <2>5, <2>6
<1>7. ASSUME CatalogFirst(s) PROVE CatalogFirst(z)
  <2>1. SUFFICES ASSUME NEW i \in Top(z), NEW j \in Top(z), z[i] = CatalogLine,
                        z[j].key = "model_catalog_json"
                 PROVE  i <= j
    BY DEF CatalogFirst
  <2>2. /\ i \in 1..Len(z) /\ (i < a \/ i >= a + m) /\ From(i) \in Top(s) /\ s[From(i)] = CatalogLine
        /\ j \in 1..Len(z) /\ (j < a \/ j >= a + m) /\ From(j) \in Top(s)
        /\ s[From(j)].key = "model_catalog_json"
    BY <1>5, <1>6, <2>1
  <2> HIDE DEF From
  <2>3. From(i) <= From(j)  BY <1>7, <2>2 DEF CatalogFirst
  <2>4. QED  BY <1>1, <1>2, <2>2, <2>3 DEF From
<1>8. ASSUME CatalogLine \notin TopLines(s) PROVE CatalogLine \notin TopLines(z)
  <2>1. SUFFICES ASSUME NEW i \in Top(z), z[i] = CatalogLine PROVE FALSE
    BY DEF TopLines
  <2>2. From(i) \in Top(s) /\ s[From(i)] = CatalogLine  BY <1>5, <1>6, <2>1
  <2> HIDE DEF From
  <2>3. QED  BY <1>8, <2>2 DEF TopLines
<1>9. QED  BY <1>7, <1>8

(* What a filter has let through after n lines.                              *)
OwnRun(f, s, N) ==
    f = [n \in 0..N |-> IF n = 0 THEN <<>>
                        ELSE IF Own(s[n]) THEN Append(f[n - 1], s[n]) ELSE f[n - 1]]

LEMMA OwnRuns ==
  ASSUME NEW s, Len(s) \in Nat
  PROVE  \E f : /\ OwnLines(s) = f[Len(s)] /\ f[0] = <<>>
                /\ \A n \in 1..Len(s) :
                      f[n] = IF Own(s[n]) THEN Append(f[n - 1], s[n]) ELSE f[n - 1]
<1> DEFINE N == Len(s)
           own == CHOOSE f : OwnRun(f, s, N)
           T == {m \in Nat : \E f : OwnRun(f, s, m)}
<1>1. OwnLines(s) = own[N]
  BY DEF OwnLines, OwnRun
<1>2. T = Nat
  <2>1. 0 \in T
    <3> DEFINE g == [n \in 0 .. 0 |-> <<>>]
    <3>1. OwnRun(g, s, 0)  BY DEF OwnRun
    <3>2. QED  BY <3>1
  <2>2. ASSUME NEW m \in T PROVE m + 1 \in T
    <3>1. m \in Nat  OBVIOUS
    <3>2. PICK g : OwnRun(g, s, m)  OBVIOUS
    <3> DEFINE y == IF Own(s[m + 1]) THEN Append(g[m], s[m + 1]) ELSE g[m]
               h == [n \in 0 .. (m + 1) |-> IF n = m + 1 THEN y ELSE g[n]]
               After(k, n) == IF n = 0 THEN <<>>
                             ELSE IF Own(s[n]) THEN Append(k[n - 1], s[n]) ELSE k[n - 1]
    <3>3. OwnRun(h, s, m + 1)
      <4> HIDE DEF y
      <4>1. \A n \in 0 .. m : h[n] = g[n]  BY <3>1
      <4>2. h[m + 1] = y  BY <3>1
      <4>3. \A n \in 0 .. (m + 1) : h[n] = After(h, n)
        <5> TAKE n \in 0 .. (m + 1)
        <5>1. CASE n = m + 1
          <6>1. n - 1 = m /\ n # 0 /\ m \in 0 .. m  BY <5>1, <3>1
          <6>2. h[n - 1] = g[m]  BY <6>1, <4>1
          <6>3. QED  BY <5>1, <6>1, <6>2, <4>2 DEF y
        <5>2. CASE n \in 0 .. m
          <6>1. n = 0 \/ n - 1 \in 0 .. m  BY <5>2, <3>1
          <6>2. g[n] = After(g, n)
            BY <3>2, <5>2 DEF OwnRun
          <6>3. QED  BY <5>2, <6>1, <6>2, <4>1
        <5>3. QED  BY <5>1, <5>2, <3>1
      <4>4. h = [n \in 0 .. (m + 1) |-> h[n]]  OBVIOUS
      <4> HIDE DEF h
      <4>5. QED  BY <4>3, <4>4 DEF OwnRun
    <3>4. m + 1 \in Nat  BY <3>1
    <3>5. QED  BY <3>3, <3>4
  <2> HIDE DEF T
  <2>3. T \in SUBSET Nat  BY DEF T
  <2>4. QED  BY <2>1, <2>2, <2>3, NaturalsReached
<1>3. OwnRun(own, s, N)
  <2>1. \E g : OwnRun(g, s, N)  BY <1>2
  <2>2. QED  BY <2>1
<1> HIDE DEF own
<1>4. own[0] = <<>>  BY <1>3 DEF OwnRun
<1>5. \A n \in 1 .. N : own[n] = IF Own(s[n]) THEN Append(own[n - 1], s[n]) ELSE own[n - 1]
  <2>1. TAKE n \in 1 .. N
  <2>2. n \in 0 .. N /\ n # 0  OBVIOUS
  <2>3. QED  BY <1>3, <2>2, Zenon DEF OwnRun
<1>6. QED  BY <1>1, <1>4, <1>5

LEMMA SplicedOwn ==
  ASSUME NEW s, NEW z, NEW a, NEW b, NEW m, Spliced(s, z, a, b, m),
         \A i \in 1..Len(z) : a <= i /\ i < a + m => ~Own(z[i]),
         \A i \in 1..Len(s) : a <= i /\ i < b => ~Own(s[i])
  PROVE  OwnLines(z) = OwnLines(s)
<1>1. Len(s) \in Nat /\ Len(z) \in Nat  BY DEF Spliced
<1>2. /\ a \in Nat \ {0} /\ b \in Nat /\ m \in Nat /\ a <= b /\ b <= Len(s) + 1
      /\ Len(z) = Len(s) + a + m - b
  BY DEF Spliced
<1>3. PICK f : /\ OwnLines(s) = f[Len(s)] /\ f[0] = <<>>
               /\ \A n \in 1..Len(s) :
                     f[n] = IF Own(s[n]) THEN Append(f[n - 1], s[n]) ELSE f[n - 1]
  BY <1>1, OwnRuns
<1>4. PICK g : /\ OwnLines(z) = g[Len(z)] /\ g[0] = <<>>
               /\ \A n \in 1..Len(z) :
                     g[n] = IF Own(z[n]) THEN Append(g[n - 1], z[n]) ELSE g[n - 1]
  BY <1>1, OwnRuns
<1>5. /\ \A i \in 1..Len(z) : i < a => i \in 1..Len(s) /\ z[i] = s[i]
      /\ \A i \in 1..Len(z) : i >= a + m =>
            i - a - m + b \in b..Len(s) /\ z[i] = s[i - a - m + b]
  BY SplicedBack
<1> DEFINE P == {n \in Nat : n < a => f[n] = g[n]}
           Q == {n \in Nat : a + n <= b => f[a - 1 + n] = f[a - 1]}
           R == {n \in Nat : n <= m => g[a - 1 + n] = g[a - 1]}
           S == {n \in Nat : b + n <= Len(s) + 1 => f[b - 1 + n] = g[a + m - 1 + n]}
<1>6. P = Nat
  <2>1. 0 \in P  BY <1>3, <1>4
  <2>2. ASSUME NEW n \in P PROVE n + 1 \in P
    <3>1. n \in Nat /\ n + 1 \in Nat  OBVIOUS
    <3>2. SUFFICES ASSUME n + 1 < a PROVE f[n + 1] = g[n + 1]
      BY <3>1
    <3>3. n < a /\ n + 1 \in 1..Len(z) /\ n + 1 - 1 = n  BY <1>1, <1>2, <3>1, <3>2
    <3>4. f[n] = g[n]  BY <3>3
    <3>5. PICK k : k = n + 1  OBVIOUS
    <3>6. k \in 1..Len(z) /\ k \in 1..Len(s) /\ z[k] = s[k] /\ f[k - 1] = g[k - 1]
      BY <1>5, <3>2, <3>3, <3>4, <3>5
    <3>7. f[k] = g[k]  BY <1>3, <1>4, <3>6
    <3>8. QED  BY <3>5, <3>7
  <2> HIDE DEF P
  <2>3. P \in SUBSET Nat  BY DEF P
  <2>4. QED  BY <2>1, <2>2, <2>3, NaturalsReached
<1>7. Q = Nat
  <2>1. 0 \in Q  BY <1>2
  <2>2. ASSUME NEW n \in Q PROVE n + 1 \in Q
    <3>1. n \in Nat /\ n + 1 \in Nat  OBVIOUS
    <3>2. SUFFICES ASSUME a + (n + 1) <= b PROVE f[a - 1 + (n + 1)] = f[a - 1]
      BY <3>1
    <3>3. PICK k \in Nat : k = a + n  BY <1>2, <3>1
    <3>4. k \in 1..Len(s) /\ a <= k /\ k < b /\ k - 1 = a - 1 + n /\ k = a - 1 + (n + 1)
      BY <1>1, <1>2, <3>1, <3>2, <3>3
    <3>5. a + n <= b  BY <1>1, <1>2, <3>1, <3>2
    <3>6. f[k - 1] = f[a - 1]  BY <3>4, <3>5
    <3>7. f[k] = f[k - 1]  BY <1>3, <3>4
    <3>8. QED  BY <3>4, <3>6, <3>7
  <2> HIDE DEF Q
  <2>3. Q \in SUBSET Nat  BY DEF Q
  <2>4. QED  BY <2>1, <2>2, <2>3, NaturalsReached
<1>8. R = Nat
  <2>1. 0 \in R  BY <1>2
  <2>2. ASSUME NEW n \in R PROVE n + 1 \in R
    <3>1. n \in Nat /\ n + 1 \in Nat  OBVIOUS
    <3>2. SUFFICES ASSUME n + 1 <= m PROVE g[a - 1 + (n + 1)] = g[a - 1]
      BY <3>1
    <3>3. PICK k \in Nat : k = a + n  BY <1>2, <3>1
    <3>4. k \in 1..Len(z) /\ a <= k /\ k < a + m /\ k - 1 = a - 1 + n /\ k = a - 1 + (n + 1)
      BY <1>1, <1>2, <3>1, <3>2, <3>3
    <3>5. n <= m  BY <1>1, <1>2, <3>1, <3>2
    <3>6. g[k - 1] = g[a - 1]  BY <3>4, <3>5
    <3>7. g[k] = g[k - 1]  BY <1>4, <3>4
    <3>8. QED  BY <3>4, <3>6, <3>7
  <2> HIDE DEF R
  <2>3. R \in SUBSET Nat  BY DEF R
  <2>4. QED  BY <2>1, <2>2, <2>3, NaturalsReached
<1>9. f[b - 1] = g[a + m - 1]
  <2>1. a - 1 \in Nat /\ a - 1 < a /\ b - a \in Nat /\ m <= m
        /\ a + (b - a) <= b /\ a - 1 + (b - a) = b - 1 /\ a - 1 + m = a + m - 1
    BY <1>2
  <2>2. a - 1 \in P /\ b - a \in Q /\ m \in R  BY <1>2, <1>6, <1>7, <1>8, <2>1
  <2>3. f[a - 1] = g[a - 1]  BY <2>1, <2>2
  <2>4. f[b - 1] = f[a - 1]  BY <2>1, <2>2
  <2>5. g[a + m - 1] = g[a - 1]  BY <2>1, <2>2
  <2>6. QED  BY <2>3, <2>4, <2>5
<1>10. S = Nat
  <2>1. 0 \in S  BY <1>2, <1>9
  <2>2. ASSUME NEW n \in S PROVE n + 1 \in S
    <3>1. n \in Nat /\ n + 1 \in Nat  OBVIOUS
    <3>2. SUFFICES ASSUME b + (n + 1) <= Len(s) + 1
                   PROVE  f[b - 1 + (n + 1)] = g[a + m - 1 + (n + 1)]
      BY <3>1
    <3>3. PICK k \in Nat : k = b + n  BY <1>2, <3>1
    <3>4. PICK l \in Nat : l = a + m + n  BY <1>2, <3>1
    <3>5. /\ k \in 1..Len(s) /\ k - 1 = b - 1 + n /\ k = b - 1 + (n + 1)
          /\ l \in 1..Len(z) /\ l >= a + m /\ l - 1 = a + m - 1 + n
          /\ l = a + m - 1 + (n + 1) /\ l - a - m + b = k
      BY <1>1, <1>2, <3>1, <3>2, <3>3, <3>4
    <3>6. b + n <= Len(s) + 1  BY <1>1, <1>2, <3>1, <3>2
    <3>7. f[k - 1] = g[l - 1]  BY <3>5, <3>6
    <3>8. z[l] = s[k]  BY <1>5, <3>5
    <3>9. f[k] = g[l]  BY <1>3, <1>4, <3>5, <3>7, <3>8
    <3>10. QED  BY <3>5, <3>9
  <2> HIDE DEF S
  <2>3. S \in SUBSET Nat  BY DEF S
  <2>4. QED  BY <2>1, <2>2, <2>3, NaturalsReached
<1>11. f[Len(s)] = g[Len(z)]
  <2> DEFINE n == Len(s) + 1 - b
  <2>1. n \in Nat  BY <1>1, <1>2
  <2>2. b + n <= Len(s) + 1 /\ b - 1 + n = Len(s) /\ a + m - 1 + n = Len(z)
    BY <1>1, <1>2
  <2> HIDE DEF n
  <2>3. n \in S  BY <1>10, <2>1
  <2>4. QED  BY <2>2, <2>3
<1>12. QED  BY <1>3, <1>4, <1>11

LinesOK(s) ==
    s \in Seq(AnyLine) /\ CatalogFirst(s) /\ (~NotedHeaders => Plain(s) /\ Separate(s))

(* What every edit of the bridge does to the lines: nothing to the user's,   *)
(* and nothing that names the catalog.                                       *)
Edited(s, z) ==
    /\ LinesOK(z)
    /\ ~NotedHeaders => OwnLines(z) = OwnLines(s)
    /\ CatalogLine \notin TopLines(s) => CatalogLine \notin TopLines(z)

LEMMA SplicedEdited ==
  ASSUME NEW s, NEW z, NEW a, NEW b, NEW m, LinesOK(s), Spliced(s, z, a, b, m), Clean(s, a, b),
         \A i \in 1..Len(z) : a <= i /\ i < a + m =>
            Foreign(z[i]) /\ z[i].key # "model_catalog_json",
         \A i \in 1..Len(s) : a <= i /\ i < b => NotedHeaders \/ ~Own(s[i])
  PROVE  Edited(s, z)
<1>1. z \in Seq(AnyLine)  BY DEF Spliced
<1>2. /\ CatalogFirst(s) => CatalogFirst(z)
      /\ CatalogLine \notin TopLines(s) => CatalogLine \notin TopLines(z)
  BY SplicedCatalog
<1>3. ASSUME ~NotedHeaders
      PROVE  OwnLines(z) = OwnLines(s) /\ Separate(z) /\ Plain(z)
  <2>1. Separate(s) /\ Plain(s)  BY <1>3 DEF LinesOK
  <2>2. \A i \in 1..Len(z) : a <= i /\ i < a + m => Foreign(z[i])  OBVIOUS
  <2>3. Separate(z) /\ Plain(z)  BY <2>1, <2>2, SplicedSeparate
  <2>4. \A i \in 1..Len(z) : a <= i /\ i < a + m => ~Own(z[i])  BY DEF Foreign
  <2>5. \A i \in 1..Len(s) : a <= i /\ i < b => ~Own(s[i])  BY <1>3
  <2>6. OwnLines(z) = OwnLines(s)  BY <2>4, <2>5, SplicedOwn
  <2>7. QED  BY <2>3, <2>6
<1>4. QED  BY <1>1, <1>2, <1>3 DEF Edited, LinesOK

-----------------------------------------------------------------------------
(* Where the writer looks. *)

LEMMA EndMeans ==
  ASSUME NEW s \in Seq(AnyLine), NEW from \in 1..(Len(s) + 1)
  PROVE  LET end == EndFrom(s, from)
         IN /\ end \in from..(Len(s) + 1)
            /\ end = Len(s) + 1 \/ end \in Headers(s)
            /\ \A i \in 1..Len(s) : from <= i /\ i < end => i \notin Headers(s)
<1> DEFINE E == {i \in Headers(s) : i >= from} \cup {Len(s) + 1}
           end == Min(E)
<1>1. Len(s) \in Nat  OBVIOUS
<1>2. Headers(s) \subseteq 1..Len(s)  BY DEF Headers
<1>3. E \in SUBSET Nat /\ E # {}  BY <1>1, <1>2
<1> HIDE DEF E
<1>4. end \in E /\ \A n \in E : end <= n  BY <1>3, LeastMeans
<1> HIDE DEF end
<1>5. end \in Nat  BY <1>3, <1>4
<1>6. end \in from..(Len(s) + 1) /\ (end = Len(s) + 1 \/ end \in Headers(s))
  BY <1>1, <1>2, <1>4, <1>5 DEF E
<1>7. ASSUME NEW i \in 1..Len(s), from <= i, i < end, i \in Headers(s) PROVE FALSE
  <2>1. i \in E  BY <1>7 DEF E
  <2>2. QED  BY <1>4, <1>5, <1>7, <2>1
<1>8. EndFrom(s, from) = end  BY DEF EndFrom, E, end
<1>9. QED  BY <1>6, <1>7, <1>8

LEMMA StartMeans ==
  ASSUME NEW s \in Seq(AnyLine), NEW section
  PROVE  LET from == SectionStart(s, section)
         IN /\ from \in 0..(Len(s) + 1)
            /\ section = "top" => from = 1
<1> DEFINE F == {i \in Headers(s) : s[i].head = section}
<1>1. Len(s) \in Nat  OBVIOUS
<1>2. Headers(s) \subseteq 1..Len(s)  BY DEF Headers
<1>3. CASE section = "top"
  BY <1>1, <1>3 DEF SectionStart
<1>4. CASE section # "top" /\ F = {}
  BY <1>1, <1>4 DEF SectionStart
<1>5. CASE section # "top" /\ F # {}
  <2>1. F \in SUBSET Nat  BY <1>2
  <2> HIDE DEF F
  <2>2. Min(F) \in F  BY <1>5, <2>1, LeastMeans
  <2>3. Min(F) \in 1..Len(s)  BY <1>2, <2>2 DEF F
  <2>4. SectionStart(s, section) = Min(F) + 1  BY <1>5 DEF SectionStart, F
  <2>5. QED  BY <1>1, <1>5, <2>3, <2>4
<1>6. QED  BY <1>3, <1>4, <1>5

LEMMA KeyMeans ==
  ASSUME NEW s \in Seq(AnyLine), NEW key, NEW section
  PROVE  LET from == SectionStart(s, section)
             at == KeyAt(s, key, section)
         IN /\ from = 0 => at = 0
            /\ at # 0 => /\ at \in 1..Len(s) /\ s[at].key = key /\ at \notin Headers(s)
                         /\ section = "top" => at \in Top(s)
                         /\ section = "top" => \A i \in Top(s) : s[i].key = key => at <= i
            /\ at = 0 /\ section = "top" => \A i \in Top(s) : s[i].key # key
<1> DEFINE from == SectionStart(s, section)
           end == EndFrom(s, from)
           F == {i \in from..(end - 1) : s[i].key = key}
           at == KeyAt(s, key, section)
<1>1. Len(s) \in Nat /\ Headers(s) \subseteq 1..Len(s)  BY DEF Headers
<1>2. from \in 0..(Len(s) + 1) /\ (section = "top" => from = 1)  BY StartMeans
<1>3. at = IF from = 0 \/ F = {} THEN 0 ELSE Min(F)  BY DEF KeyAt
<1> HIDE DEF from, at
<1>4. CASE from = 0
  BY <1>1, <1>2, <1>3, <1>4 DEF from, at
<1>5. CASE from # 0
  <2>1. from \in 1..(Len(s) + 1)  BY <1>1, <1>2, <1>5
  <2>2. /\ end \in from..(Len(s) + 1)
        /\ end = Len(s) + 1 \/ end \in Headers(s)
        /\ \A i \in 1..Len(s) : from <= i /\ i < end => i \notin Headers(s)
    BY <2>1, EndMeans
  <2> HIDE DEF end
  <2>3. ASSUME section = "top" PROVE \A i \in Top(s) : i \in from..(end - 1)
    <3>1. TAKE i \in Top(s)
    <3>2. i \in 1..Len(s) /\ \A h \in Headers(s) : i < h  BY DEF Top
    <3>3. i < end  BY <1>1, <2>1, <2>2, <3>2
    <3>4. QED  BY <1>1, <1>2, <2>2, <2>3, <3>2, <3>3
  <2>4. F \in SUBSET Nat
    <3>1. from..(end - 1) \subseteq Nat  BY <1>1, <2>1, <2>2
    <3>2. QED  BY <3>1
  <2>5. CASE F = {}
    <3>1. at = 0  BY <1>3, <2>5
    <3>2. ASSUME section = "top" PROVE \A i \in Top(s) : s[i].key # key
      BY <2>3, <2>5, <3>2
    <3>3. QED  BY <3>1, <3>2 DEF from, at
  <2>6. CASE F # {}
    <3> HIDE DEF F
    <3>1. Min(F) \in F /\ \A n \in F : Min(F) <= n  BY <2>4, <2>6, LeastMeans
    <3>2. at = Min(F)  BY <1>3, <1>5, <2>6
    <3>3. at \in from..(end - 1) /\ s[at].key = key  BY <3>1, <3>2 DEF F
    <3>4. at \in 1..Len(s) /\ at # 0 /\ from <= at /\ at < end
      BY <1>1, <2>1, <2>2, <3>3
    <3>5. at \notin Headers(s)  BY <2>2, <3>4
    <3>6. ASSUME section = "top" PROVE at \in Top(s)
      <4>1. \A h \in Headers(s) : at < h
        <5>1. TAKE h \in Headers(s)
        <5>2. h \in 1..Len(s)  BY <1>1
        <5>3. from <= h  BY <1>2, <3>6, <5>2
        <5>4. ~(h < end)  BY <2>2, <5>2, <5>3
        <5>5. QED  BY <1>1, <2>1, <2>2, <3>4, <5>2, <5>4
      <4>2. QED  BY <3>4, <4>1 DEF Top
    <3>7. ASSUME section = "top", NEW i \in Top(s), s[i].key = key PROVE at <= i
      <4>1. i \in F  BY <2>3, <3>7 DEF F
      <4>2. QED  BY <3>1, <3>2, <4>1
    <3>8. QED  BY <1>5, <3>3, <3>4, <3>5, <3>6, <3>7 DEF from, at
  <2>7. QED  BY <2>5, <2>6
<1>6. QED  BY <1>4, <1>5

-----------------------------------------------------------------------------
(* The writer. *)

LEMMA Joined ==
  ASSUME NEW S, NEW x \in Seq(S), NEW y \in Seq(S)
  PROVE  /\ x \o y \in Seq(S) /\ Len(x \o y) = Len(x) + Len(y)
         /\ \A i \in 1..Len(x \o y) :
               (x \o y)[i] = IF i <= Len(x) THEN x[i] ELSE y[i - Len(x)]
OBVIOUS

LEMMA CutSpliced ==
  ASSUME NEW s \in Seq(AnyLine), NEW a \in 1..(Len(s) + 1), NEW b \in a..(Len(s) + 1)
  PROVE  Spliced(s, SubSeq(s, 1, a - 1) \o SubSeq(s, b, Len(s)), a, b, 0)
<1> DEFINE x == SubSeq(s, 1, a - 1)
           y == SubSeq(s, b, Len(s))
           z == x \o y
<1>1. Len(s) \in Nat /\ a \in Nat \ {0} /\ b \in Nat /\ a <= b /\ b <= Len(s) + 1
  OBVIOUS
<1>2. /\ x \in Seq(AnyLine) /\ Len(x) = a - 1
      /\ \A i \in 1..(a - 1) : x[i] = s[i]
  BY <1>1
<1>3. y \in Seq(AnyLine) /\ Len(y) = Len(s) + 1 - b
  BY <1>1
<1>4. \A i \in 1..(Len(s) + 1 - b) : y[i] = s[b + i - 1]
  BY <1>1
<1> HIDE DEF x, y
<1>5. z \in Seq(AnyLine) /\ Len(z) = Len(s) + a + 0 - b
  <2>1. z \in Seq(AnyLine) /\ Len(z) = Len(x) + Len(y)  BY <1>2, <1>3, Joined
  <2>2. QED  BY <1>1, <1>2, <1>3, <2>1
<1>6. \A i \in 1..Len(z) : z[i] = IF i <= Len(x) THEN x[i] ELSE y[i - Len(x)]
  BY <1>2, <1>3, Joined
<1>7. ASSUME NEW i \in 1..Len(z)
      PROVE  /\ i < a => z[i] = s[i]
             /\ i >= a + 0 => z[i] = s[i - a - 0 + b]
  <2>1. CASE i < a
    BY <1>1, <1>2, <1>6, <2>1
  <2>2. CASE i >= a
    <3>1. PICK j \in Nat : j = i - (a - 1)  BY <1>1, <2>2
    <3>2. j \in 1..(Len(s) + 1 - b) /\ ~(i <= Len(x)) /\ i - Len(x) = j
      BY <1>1, <1>2, <1>5, <2>2, <3>1
    <3>3. z[i] = s[b + j - 1]  BY <1>4, <1>6, <3>2
    <3>4. b + j - 1 = i - a - 0 + b  BY <1>1, <3>1
    <3>5. ~(i < a)  BY <1>1, <2>2
    <3>6. QED  BY <3>3, <3>4, <3>5
  <2>3. QED  BY <1>1, <2>1, <2>2
<1> HIDE DEF z
<1>8. Spliced(s, z, a, b, 0)
  BY <1>1, <1>5, <1>7 DEF Spliced
<1>9. QED  BY <1>8 DEF z, x, y

LEMMA PutSpliced ==
  ASSUME NEW s \in Seq(AnyLine), NEW a \in 1..(Len(s) + 1), NEW e \in AnyLine
  PROVE  LET z == InsertAt(s, a, e)
         IN Spliced(s, z, a, a, 1) /\ a \in 1..Len(z) /\ z[a] = e
<1> DEFINE x == SubSeq(s, 1, a - 1)
           y == SubSeq(s, a, Len(s))
           z == x \o <<e>> \o y
<1>1. Len(s) \in Nat /\ a \in Nat \ {0} /\ a <= Len(s) + 1
  OBVIOUS
<1>2. /\ x \in Seq(AnyLine) /\ Len(x) = a - 1
      /\ \A i \in 1..(a - 1) : x[i] = s[i]
  BY <1>1
<1>3. y \in Seq(AnyLine) /\ Len(y) = Len(s) + 1 - a
  BY <1>1
<1>4. \A i \in 1..(Len(s) + 1 - a) : y[i] = s[a + i - 1]
  BY <1>1
<1> DEFINE w == x \o <<e>>
<1> HIDE DEF x, y
<1>5. w \in Seq(AnyLine) /\ Len(w) = a
  BY <1>1, <1>2
<1>6. \A i \in 1..a : w[i] = IF i <= Len(x) THEN x[i] ELSE e
  BY <1>1, <1>2
<1> HIDE DEF w
<1>7. z = w \o y  BY DEF w
<1> HIDE DEF z
<1>8. z \in Seq(AnyLine) /\ Len(z) = Len(s) + a + 1 - a
  <2>1. z \in Seq(AnyLine) /\ Len(z) = Len(w) + Len(y)  BY <1>3, <1>5, <1>7, Joined
  <2>2. QED  BY <1>1, <1>3, <1>5, <2>1
<1>9. \A i \in 1..Len(z) : z[i] = IF i <= a THEN w[i] ELSE y[i - a]
  BY <1>3, <1>5, <1>7, Joined
<1>10. a \in 1..Len(z) /\ z[a] = e
  <2>1. a \in 1..Len(z) /\ a \in 1..a /\ a <= a /\ ~(a <= Len(x))  BY <1>1, <1>2, <1>8
  <2>2. QED  BY <1>6, <1>9, <2>1
<1>11. ASSUME NEW i \in 1..Len(z)
       PROVE  /\ i < a => z[i] = s[i]
              /\ i >= a + 1 => z[i] = s[i - a - 1 + a]
  <2>1. CASE i < a
    <3>1. i \in 1..a /\ i <= a /\ i <= Len(x) /\ i \in 1..(a - 1) /\ ~(i >= a + 1)
      BY <1>1, <1>2, <2>1
    <3>2. QED  BY <1>2, <1>6, <1>9, <3>1
  <2>2. CASE i >= a + 1
    <3>1. PICK j \in Nat : j = i - a  BY <1>1, <2>2
    <3>2. j \in 1..(Len(s) + 1 - a) /\ ~(i <= a) /\ i - a = j /\ ~(i < a)
      BY <1>1, <1>8, <2>2, <3>1
    <3>3. z[i] = s[a + j - 1]  BY <1>4, <1>9, <3>2
    <3>4. a + j - 1 = i - a - 1 + a  BY <1>1, <3>1
    <3>5. QED  BY <3>2, <3>3, <3>4
  <2>3. CASE i = a
    BY <1>1, <2>3
  <2>4. QED  BY <1>1, <2>1, <2>2, <2>3
<1>12. Spliced(s, z, a, a, 1)
  BY <1>1, <1>8, <1>11 DEF Spliced
<1>13. InsertAt(s, a, e) = z  BY DEF InsertAt, z, x, y
<1>14. QED  BY <1>10, <1>12, <1>13

LEMMA ChangeSpliced ==
  ASSUME NEW s \in Seq(AnyLine), NEW a \in 1..Len(s), NEW e \in AnyLine
  PROVE  LET z == ReplaceAt(s, a, e)
         IN Spliced(s, z, a, a + 1, 1) /\ a \in 1..Len(z) /\ z[a] = e
<1> DEFINE z == [s EXCEPT ![a] = e]
<1>1. Len(s) \in Nat /\ a \in Nat \ {0} /\ a + 1 \in Nat /\ a <= a + 1 /\ a + 1 <= Len(s) + 1
  OBVIOUS
<1>2. z \in Seq(AnyLine) /\ Len(z) = Len(s) /\ z[a] = e
  OBVIOUS
<1>3. \A i \in 1..Len(s) : i # a => z[i] = s[i]
  OBVIOUS
<1> HIDE DEF z
<1>4. ASSUME NEW i \in 1..Len(z)
      PROVE  /\ i < a => z[i] = s[i]
             /\ i >= a + 1 => z[i] = s[i - a - 1 + (a + 1)]
  <2>1. i - a - 1 + (a + 1) = i /\ i \in 1..Len(s)  BY <1>1, <1>2
  <2>2. QED  BY <1>1, <1>2, <1>3, <2>1
<1>5. Len(z) = Len(s) + a + 1 - (a + 1)  BY <1>1, <1>2
<1>6. Spliced(s, z, a, a + 1, 1)
  BY <1>1, <1>2, <1>4, <1>5 DEF Spliced
<1>7. ReplaceAt(s, a, e) = z  BY DEF ReplaceAt, z
<1>8. QED  BY <1>1, <1>2, <1>6, <1>7

LEMMA LastSpliced ==
  ASSUME NEW s \in Seq(AnyLine), NEW e \in AnyLine, NEW f \in AnyLine
  PROVE  LET z == s \o <<e, f>>
             a == Len(s) + 1
         IN /\ Spliced(s, z, a, a, 2) /\ a \in 1..Len(z) /\ a + 1 \in 1..Len(z)
            /\ z[a] = e /\ z[a + 1] = f
<1> DEFINE z == s \o <<e, f>>
           a == Len(s) + 1
<1>1. Len(s) \in Nat /\ a \in Nat \ {0}
  OBVIOUS
<1>2. z \in Seq(AnyLine) /\ Len(z) = Len(s) + 2
  OBVIOUS
<1>3. \A i \in 1..Len(s) : z[i] = s[i]
  OBVIOUS
<1>4. z[a] = e /\ z[a + 1] = f
  OBVIOUS
<1> HIDE DEF z
<1>5. ASSUME NEW i \in 1..Len(z)
      PROVE  /\ i < a => z[i] = s[i]
             /\ i >= a + 2 => z[i] = s[i - a - 2 + a]
  BY <1>1, <1>2, <1>3
<1>6. Len(z) = Len(s) + a + 2 - a  BY <1>1, <1>2
<1>7. Spliced(s, z, a, a, 2)
  BY <1>1, <1>2, <1>5, <1>6 DEF Spliced
<1>8. a \in 1..Len(z) /\ a + 1 \in 1..Len(z)  BY <1>1, <1>2
<1>9. QED  BY <1>4, <1>7, <1>8 DEF z

LEMMA RemoveKeyEdits ==
  ASSUME NEW s, LinesOK(s), NEW key \in BridgeKeys \cup {"model_catalog_json"}, NEW section
  PROVE  LET z == RemoveKey(s, key, section)
         IN /\ Edited(s, z)
            /\ key = "model_catalog_json" /\ section = "top" => CatalogLine \notin TopLines(z)
<1> DEFINE at == KeyAt(s, key, section)
           z == RemoveKey(s, key, section)
<1>1. s \in Seq(AnyLine) /\ Len(s) \in Nat  BY DEF LinesOK
<1>2. /\ at # 0 => /\ at \in 1..Len(s) /\ s[at].key = key /\ at \notin Headers(s)
                   /\ section = "top" => at \in Top(s)
                   /\ section = "top" => \A i \in Top(s) : s[i].key = key => at <= i
      /\ at = 0 /\ section = "top" => \A i \in Top(s) : s[i].key # key
  BY <1>1, KeyMeans
<1>3. CatalogLine.key = "model_catalog_json"  BY DEF CatalogLine, KeyLine
<1>4. CASE at = 0
  <2>1. z = s  BY <1>4 DEF RemoveKey
  <2>2. Edited(s, s)  BY DEF Edited
  <2>3. ASSUME key = "model_catalog_json", section = "top" PROVE CatalogLine \notin TopLines(s)
    BY <1>2, <1>3, <1>4, <2>3 DEF TopLines
  <2>4. QED  BY <2>1, <2>2, <2>3
<1>5. CASE at # 0
  <2>1. z = SubSeq(s, 1, at - 1) \o SubSeq(s, at + 1, Len(s))
    BY <1>5 DEF RemoveKey, RemoveAt
  <2> HIDE DEF at
  <2>2. at \in 1..Len(s) /\ s[at].key = key /\ at \notin Headers(s)  BY <1>2, <1>5
  <2>3. at \in 1..(Len(s) + 1) /\ at + 1 \in at..(Len(s) + 1)  BY <1>1, <2>2
  <2>4. Spliced(s, z, at, at + 1, 0)  BY <1>1, <2>1, <2>3, CutSpliced
  <2> HIDE DEF z
  <2>5. Clean(s, at, at + 1)
    <3>1. \A h \in Headers(s) : ~(at <= h /\ h < at + 1)
      <4>1. TAKE h \in Headers(s)
      <4>2. h \in 1..Len(s)  BY DEF Headers
      <4>3. QED  BY <2>2, <4>2
    <3>2. QED  BY <3>1 DEF Clean
  <2>6. \A i \in 1..Len(s) : at <= i /\ i < at + 1 => ~Own(s[i])
    <3>1. ~Own(s[at])
      <4>1. s[at].head = "none"  BY <2>2 DEF Headers, IsHeader
      <4>2. QED  BY <2>2, <4>1 DEF Own, OwnKeys, OwnHeads, BridgeKeys
    <3>2. \A i \in 1..Len(s) : at <= i /\ i < at + 1 => i = at  BY <2>2
    <3>3. QED  BY <3>1, <3>2
  <2>7. \A i \in 1..Len(z) : ~(at <= i /\ i < at + 0)
    <3>1. Len(z) \in Nat  BY <2>4 DEF Spliced
    <3>2. QED  BY <2>2, <3>1
  <2>8. Edited(s, z)  BY <2>4, <2>5, <2>6, <2>7, SplicedEdited
  <2>9. ASSUME key = "model_catalog_json", section = "top" PROVE CatalogLine \notin TopLines(z)
    <3>1. SUFFICES ASSUME NEW i \in Top(z), z[i] = CatalogLine PROVE FALSE
      BY DEF TopLines
    <3>2. i \in 1..Len(z)  BY DEF Top
    <3>3. i < at => i \in Top(s) /\ z[i] = s[i]  BY <2>4, <2>5, <3>2, SplicedTop, SplicedBack
    <3>4. i >= at + 0 => i - at - 0 + (at + 1) \in Top(s) /\ z[i] = s[i - at - 0 + (at + 1)]
      BY <2>4, <2>5, <3>2, SplicedTop, SplicedBack
    <3>5. at \in Top(s) /\ \A k \in Top(s) : s[k].key = key => at <= k
      BY <1>2, <1>5, <2>9
    <3>6. CatalogFirst(s)  BY DEF LinesOK
    <3>7. \A k \in Top(s) : s[k] = CatalogLine => k <= at
      BY <2>2, <2>9, <3>5, <3>6 DEF CatalogFirst
    <3>8. \A k \in Top(s) : s[k] = CatalogLine => at <= k
      BY <1>3, <2>9, <3>5
    <3>9. CASE i < at
      BY <2>2, <3>1, <3>2, <3>3, <3>8, <3>9
    <3>10. CASE i >= at
      <4>1. PICK k \in Nat : k = i + 1  BY <3>2
      <4>2. k = i - at - 0 + (at + 1) /\ i >= at + 0 /\ ~(k <= at)
        BY <2>2, <3>2, <3>10, <4>1
      <4>3. QED  BY <3>1, <3>4, <3>7, <4>2
    <3>11. QED  BY <2>2, <3>2, <3>9, <3>10
  <2>10. QED  BY <2>8, <2>9 DEF z
<1>6. QED  BY <1>4, <1>5

LEMMA LineMade ==
  ASSUME NEW key \in BridgeKeys \cup {"model_catalog_json"}, NEW value \in Values
  PROVE  LET line == KeyLine(key, value)
         IN /\ line \in AnyLine /\ Foreign(line) /\ line.key = key
            /\ key \in BridgeKeys => line.key # "model_catalog_json"
<1> DEFINE line == KeyLine(key, value)
<1>2. line = [head |-> "none", noted |-> FALSE, key |-> key, value |-> value]
  BY DEF KeyLine
<1>3. line \in AnyLine
  <2>1. line \in KeyLines  BY DEF KeyLines
  <2>2. QED  BY <2>1 DEF AnyLine
<1> HIDE DEF line
<1>4. line.head = "none" /\ line.noted = FALSE /\ line.key = key  BY <1>2
<1>5. Foreign(line)
  BY <1>4 DEF Foreign, Own, OwnKeys, OwnHeads, BridgeSections, BridgeKeys
<1>6. key \in BridgeKeys => key # "model_catalog_json"  BY DEF BridgeKeys
<1>7. QED  BY <1>3, <1>4, <1>5, <1>6 DEF line

(* A key is put where there is one already or where its section ends.        *)
LEMMA KeyPut ==
  ASSUME NEW s \in Seq(AnyLine), NEW key \in BridgeKeys \cup {"model_catalog_json"},
         NEW value \in Values, NEW section, SectionStart(s, section) # 0
  PROVE  LET z == SetKey(s, key, value, section)
             at == KeyAt(s, key, section)
         IN \E a \in 1..(Len(s) + 1), b \in 1..(Len(s) + 1) :
               /\ Spliced(s, z, a, b, 1) /\ Clean(s, a, b)
               /\ a \in 1..Len(z) /\ z[a] = KeyLine(key, value)
               /\ \A i \in 1..Len(s) : a <= i /\ i < b => ~Own(s[i])
               /\ at # 0 => a = at /\ b = at + 1
<1> DEFINE from == SectionStart(s, section)
           at == KeyAt(s, key, section)
           line == KeyLine(key, value)
           end == EndFrom(s, from)
           z == SetKey(s, key, value, section)
<1>1. Len(s) \in Nat /\ line \in AnyLine  BY LineMade
<1>2. from \in 1..(Len(s) + 1)  BY <1>1, StartMeans
<1>3. at # 0 => at \in 1..Len(s) /\ s[at].key = key /\ at \notin Headers(s)  BY KeyMeans
<1>4. CASE at # 0
  <2>1. z = ReplaceAt(s, at, line)  BY <1>2, <1>4 DEF SetKey
  <2>2. at \in 1..Len(s) /\ s[at].key = key /\ at \notin Headers(s)  BY <1>3, <1>4
  <2> HIDE DEF at, line
  <2>3. Spliced(s, z, at, at + 1, 1) /\ at \in 1..Len(z) /\ z[at] = line
    BY <1>1, <2>1, <2>2, ChangeSpliced
  <2> HIDE DEF z
  <2>4. Clean(s, at, at + 1)
    <3>1. \A h \in Headers(s) : ~(at <= h /\ h < at + 1)
      <4>1. TAKE h \in Headers(s)
      <4>2. h \in 1..Len(s)  BY DEF Headers
      <4>3. QED  BY <2>2, <4>2
    <3>2. QED  BY <3>1 DEF Clean
  <2>5. \A i \in 1..Len(s) : at <= i /\ i < at + 1 => ~Own(s[i])
    <3>1. ~Own(s[at])
      <4>1. s[at].head = "none"  BY <2>2 DEF Headers, IsHeader
      <4>2. QED  BY <2>2, <4>1 DEF Own, OwnKeys, OwnHeads, BridgeKeys
    <3>2. \A i \in 1..Len(s) : at <= i /\ i < at + 1 => i = at  BY <2>2
    <3>3. QED  BY <3>1, <3>2
  <2>6. at \in 1..(Len(s) + 1) /\ at + 1 \in 1..(Len(s) + 1)  BY <1>1, <2>2
  <2>7. QED  BY <2>3, <2>4, <2>5, <2>6 DEF z, at, line
<1>5. CASE at = 0
  <2>1. z = InsertAt(s, end, line)  BY <1>2, <1>5 DEF SetKey
  <2>2. end \in from..(Len(s) + 1)  BY <1>2, EndMeans
  <2>3. end \in 1..(Len(s) + 1)  BY <1>1, <1>2, <2>2
  <2> HIDE DEF end, line
  <2>4. Spliced(s, z, end, end, 1) /\ end \in 1..Len(z) /\ z[end] = line
    BY <1>1, <2>1, <2>3, PutSpliced
  <2> HIDE DEF z
  <2>5. \A i \in 1..Len(s) : ~(end <= i /\ i < end)  BY <1>1, <2>3
  <2>6. Clean(s, end, end)  BY <2>5 DEF Clean, Headers
  <2>7. QED  BY <1>5, <2>3, <2>4, <2>5, <2>6 DEF z, at, line
<1>6. QED  BY <1>4, <1>5

LEMMA SetKeyEdits ==
  ASSUME NEW s, LinesOK(s), NEW key \in BridgeKeys, NEW value \in Values,
         NEW section \in {"top", "features"}
  PROVE  Edited(s, SetKey(s, key, value, section))
<1> DEFINE z == SetKey(s, key, value, section)
           line == KeyLine(key, value)
<1>1. s \in Seq(AnyLine) /\ Len(s) \in Nat  BY DEF LinesOK
<1>2. Foreign(line) /\ line.key # "model_catalog_json" /\ line \in AnyLine  BY LineMade
<1>3. CASE SectionStart(s, section) # 0
  <2>1. PICK a \in 1..(Len(s) + 1), b \in 1..(Len(s) + 1) :
               /\ Spliced(s, z, a, b, 1) /\ Clean(s, a, b)
               /\ a \in 1..Len(z) /\ z[a] = line
               /\ \A i \in 1..Len(s) : a <= i /\ i < b => ~Own(s[i])
    BY <1>1, <1>3, KeyPut
  <2> HIDE DEF z, line
  <2>2. \A i \in 1..Len(z) : a <= i /\ i < a + 1 => i = a  BY <1>1
  <2>3. \A i \in 1..Len(z) : a <= i /\ i < a + 1 =>
            Foreign(z[i]) /\ z[i].key # "model_catalog_json"
    BY <1>2, <2>1, <2>2
  <2>4. Edited(s, z)  BY <2>1, <2>3, SplicedEdited
  <2>5. QED  BY <2>4 DEF z
<1>4. CASE SectionStart(s, section) = 0
  <2> DEFINE head == Header(section, FALSE)
             a == Len(s) + 1
  <2>1. section = "features"  BY <1>1, <1>4, StartMeans
  <2>2. head \in AnyLine
    <3>1. head \in HeaderLines  BY <2>1 DEF HeaderLines
    <3>2. QED  BY <3>1 DEF AnyLine
  <2>3. Foreign(head) /\ head.key # "model_catalog_json"
    <3>1. head.head = "features" /\ head.noted = FALSE /\ head.key = "none"
      BY <2>1 DEF Header
    <3> HIDE DEF head
    <3>2. QED  BY <3>1 DEF Foreign, Own, OwnKeys, OwnHeads, BridgeSections
  <2>4. z = s \o <<head, line>>  BY <1>4 DEF SetKey
  <2> HIDE DEF head, line
  <2>5. /\ Spliced(s, z, a, a, 2) /\ a \in 1..Len(z) /\ a + 1 \in 1..Len(z)
        /\ z[a] = head /\ z[a + 1] = line
    BY <1>1, <1>2, <2>2, <2>4, LastSpliced
  <2> HIDE DEF z
  <2>6. \A i \in 1..Len(s) : ~(a <= i /\ i < a)  BY <1>1
  <2>7. Clean(s, a, a)  BY <2>6 DEF Clean, Headers
  <2>8. \A i \in 1..Len(z) : a <= i /\ i < a + 2 => i = a \/ i = a + 1  BY <1>1
  <2>9. \A i \in 1..Len(z) : a <= i /\ i < a + 2 =>
            Foreign(z[i]) /\ z[i].key # "model_catalog_json"
    BY <1>2, <2>3, <2>5, <2>8
  <2> HIDE DEF a
  <2>10. Edited(s, z)  BY <2>5, <2>6, <2>7, <2>9, SplicedEdited
  <2>11. QED  BY <2>10 DEF z
<1>5. QED  BY <1>3, <1>4

LEMMA SetCatalogOK ==
  ASSUME NEW s, LinesOK(s)
  PROVE  LinesOK(SetTop(s, "model_catalog_json", "bridge"))
<1> DEFINE at == KeyAt(s, "model_catalog_json", "top")
           z == SetKey(s, "model_catalog_json", "bridge", "top")
           line == KeyLine("model_catalog_json", "bridge")
<1>1. s \in Seq(AnyLine) /\ Len(s) \in Nat  BY DEF LinesOK
<1>2. Foreign(line) /\ line \in AnyLine /\ line.key = "model_catalog_json"
  BY LineMade DEF Values
<1>3. SectionStart(s, "top") = 1  BY <1>1, StartMeans
<1>4. PICK a \in 1..(Len(s) + 1), b \in 1..(Len(s) + 1) :
             /\ Spliced(s, z, a, b, 1) /\ Clean(s, a, b)
             /\ a \in 1..Len(z) /\ z[a] = line
             /\ at # 0 => a = at /\ b = at + 1
  <2>1. "bridge" \in Values  BY DEF Values
  <2>2. "model_catalog_json" \in BridgeKeys \cup {"model_catalog_json"}  OBVIOUS
  <2>3. SectionStart(s, "top") # 0  BY <1>3
  <2>4. s \in Seq(AnyLine)  BY <1>1
  <2>5. QED  BY <2>1, <2>2, <2>3, <2>4, KeyPut, ZenonT(60)
<1>5. /\ at # 0 => /\ at \in Top(s) /\ s[at].key = "model_catalog_json"
                   /\ \A i \in Top(s) : s[i].key = "model_catalog_json" => at <= i
      /\ at = 0 => \A i \in Top(s) : s[i].key # "model_catalog_json"
  BY <1>1, KeyMeans
<1>6. /\ a \in Nat \ {0} /\ b \in Nat /\ a <= b /\ Len(z) \in Nat
  BY <1>4 DEF Spliced
<1>7. CatalogLine = line  BY DEF CatalogLine
<1> HIDE DEF z, line, at
<1>8. /\ \A i \in Top(z) : /\ i < a => i \in Top(s)
                           /\ i >= a + 1 => i - a - 1 + b \in Top(s)
      /\ \A i \in Top(z) : /\ i < a => z[i] = s[i]
                           /\ i >= a + 1 => z[i] = s[i - a - 1 + b]
  <2>1. \A i \in Top(z) : i \in 1..Len(z)  BY DEF Top
  <2>2. PICK m : m = 1  OBVIOUS
  <2>3. Spliced(s, z, a, b, m) /\ Clean(s, a, b)  BY <1>4, <2>2
  <2>4. \A i \in Top(z) : /\ i < a => i \in Top(s)
                          /\ i >= a + m => i - a - m + b \in Top(s)
    BY <2>3, SplicedTop
  <2>5. \A i \in 1..Len(z) : i < a => z[i] = s[i]
    BY <2>3, SplicedBack
  <2>6. \A i \in 1..Len(z) : i >= a + m => z[i] = s[i - a - m + b]
    BY <2>3, SplicedBack
  <2>7. QED  BY <2>1, <2>2, <2>4, <2>5, <2>6
<1>9. \A i \in Top(z) : i < a => z[i].key # "model_catalog_json"
  <2>1. TAKE i \in Top(z)
  <2>2. HAVE i < a
  <2>3. i \in Top(s) /\ z[i] = s[i]  BY <1>8, <2>2
  <2>4. i \in Nat  BY <2>3, <1>1 DEF Top
  <2>5. at # 0 => ~(at <= i)  BY <1>4, <1>6, <2>2, <2>4
  <2>6. QED  BY <1>5, <2>3, <2>5
<1>10. \A i \in Top(z) : i >= a + 1 => z[i] # line
  <2>1. SUFFICES ASSUME NEW i \in Top(z), i >= a + 1, z[i] = line PROVE FALSE
    OBVIOUS
  <2>2. PICK k \in Top(s) : k = i - a - 1 + b /\ z[i] = s[k]  BY <1>8, <2>1
  <2>3. s[k] = CatalogLine /\ s[k].key = "model_catalog_json"
    BY <1>2, <1>7, <2>1, <2>2
  <2>4. at # 0  BY <1>5, <2>3
  <2>5. k <= at  BY <1>5, <2>3, <2>4 DEF LinesOK, CatalogFirst
  <2>6. i \in Nat  BY <1>6 DEF Top
  <2>7. QED  BY <1>4, <1>6, <2>1, <2>2, <2>4, <2>5, <2>6
<1>11. CatalogFirst(z)
  <2>1. SUFFICES ASSUME NEW i \in Top(z), NEW j \in Top(z), z[i] = CatalogLine,
                        z[j].key = "model_catalog_json"
                 PROVE  i <= j
    BY DEF CatalogFirst
  <2>2. i \in Nat /\ j \in Nat  BY <1>6 DEF Top
  <2>3. ~(i >= a + 1) /\ ~(j < a)  BY <1>7, <1>9, <1>10, <2>1
  <2>4. QED  BY <1>6, <2>2, <2>3
<1>12. ~NotedHeaders => Plain(z) /\ Separate(z)
  <2>1. SUFFICES ASSUME ~NotedHeaders PROVE Plain(z) /\ Separate(z)
    OBVIOUS
  <2>2. Plain(s) /\ Separate(s)  BY <2>1 DEF LinesOK
  <2>3. \A i \in 1..Len(z) : a <= i /\ i < a + 1 => i = a  BY <1>6
  <2>4. \A i \in 1..Len(z) : a <= i /\ i < a + 1 => Foreign(z[i])
    BY <1>2, <1>4, <2>3
  <2>5. QED  BY <1>4, <2>2, <2>4, SplicedSeparate
<1>13. z \in Seq(AnyLine)  BY <1>4 DEF Spliced
<1>14. LinesOK(z)  BY <1>11, <1>12, <1>13 DEF LinesOK
<1>15. QED  BY <1>14 DEF SetTop, z

LEMMA RemoveSectionEdits ==
  ASSUME NEW s, LinesOK(s), NEW section \in BridgeSections
  PROVE  Edited(s, RemoveSection(s, section))
<1> DEFINE F == {i \in 1..Len(s) : s[i] = Header(section, FALSE)}
           at == Min(F)
           E == {i \in Headers(s) : i > at /\ PlainHeader(s[i])} \cup {Len(s) + 1}
           next == Min(E)
           z == RemoveSection(s, section)
<1>1. s \in Seq(AnyLine) /\ Len(s) \in Nat  BY DEF LinesOK
<1>2. Headers(s) \subseteq 1..Len(s)  BY DEF Headers
<1>3. CASE F = {}
  <2>1. z = s  BY <1>3 DEF RemoveSection
  <2>2. QED  BY <2>1 DEF Edited
<1>4. CASE F # {}
  <2>1. z = SubSeq(s, 1, at - 1) \o SubSeq(s, next, Len(s))  BY <1>4 DEF RemoveSection
  <2>2. F \in SUBSET Nat
    <3>1. F \subseteq 1..Len(s)  OBVIOUS
    <3> HIDE DEF F
    <3>2. QED  BY <3>1, <1>1
  <2> HIDE DEF F
  <2>3. at \in F  BY <1>4, <2>2, LeastMeans
  <2>4. at \in 1..Len(s) /\ s[at] = Header(section, FALSE)  BY <2>3 DEF F
  <2> HIDE DEF at
  <2>5. E \in SUBSET Nat /\ E # {}  BY <1>1, <1>2
  <2> HIDE DEF E
  <2>6. next \in E /\ \A n \in E : next <= n  BY <2>5, LeastMeans
  <2> HIDE DEF next
  <2>7. next \in Nat  BY <2>5, <2>6
  <2>8. next = Len(s) + 1 \/ next \in Headers(s)  BY <2>6 DEF E
  <2>9. next > at /\ next <= Len(s) + 1  BY <1>1, <1>2, <2>4, <2>6, <2>7 DEF E
  <2>10. at \in 1..(Len(s) + 1) /\ next \in at..(Len(s) + 1)  BY <1>1, <2>4, <2>7, <2>9
  <2>11. Spliced(s, z, at, next, 0)  BY <1>1, <2>1, <2>10, CutSpliced
  <2> HIDE DEF z
  <2>12. Clean(s, at, next)  BY <2>8 DEF Clean
  <2>13. ASSUME ~NotedHeaders, NEW i \in 1..Len(s), at <= i, i < next PROVE ~Own(s[i])
    <3>1. Plain(s) /\ Separate(s)  BY <2>13 DEF LinesOK
    <3>2. s[at].head = section /\ s[at].key = "none"  BY <2>4 DEF Header
    <3>3. CASE i = at
      BY <3>2, <3>3 DEF Own, OwnKeys, OwnHeads, BridgeSections
    <3>4. CASE i # at
      <4>1. \A g \in Headers(s) : at < g /\ g <= i => FALSE
        <5>1. SUFFICES ASSUME NEW g \in Headers(s), at < g, g <= i PROVE FALSE
          OBVIOUS
        <5>2. g \in 1..Len(s) /\ PlainHeader(s[g])
          BY <1>2, <3>1 DEF Plain, PlainHeader, Headers
        <5>3. g > at  BY <2>4, <5>1, <5>2
        <5>4. g \in E  BY <5>2, <5>3 DEF E
        <5>5. QED  BY <2>6, <2>7, <2>13, <5>1, <5>2, <5>4
      <4>2. at \in Headers(s)
        BY <2>4, <3>2 DEF Headers, IsHeader, BridgeSections
      <4>3. at < i  BY <2>4, <2>13, <3>4
      <4>4. s[i].key \notin OwnKeys  BY <3>1, <3>2, <4>1, <4>2, <4>3 DEF Separate
      <4>5. i \notin Headers(s)  BY <4>1, <4>3
      <4>6. s[i].head = "none"  BY <4>5 DEF Headers, IsHeader
      <4>7. QED  BY <4>4, <4>6 DEF Own, OwnHeads
    <3>5. QED  BY <3>3, <3>4
  <2>14. \A i \in 1..Len(s) : at <= i /\ i < next => NotedHeaders \/ ~Own(s[i])
    BY <2>13
  <2>15. \A i \in 1..Len(z) : ~(at <= i /\ i < at + 0)
    <3>1. Len(z) \in Nat  BY <2>11 DEF Spliced
    <3>2. QED  BY <2>4, <3>1
  <2>16. QED  BY <2>11, <2>12, <2>14, <2>15, SplicedEdited DEF z
<1>5. QED  BY <1>3, <1>4

-----------------------------------------------------------------------------
(* The two switches. *)

LEMMA EditedThrough ==
  ASSUME NEW s, NEW t, NEW u, Edited(s, t), Edited(t, u)
  PROVE  Edited(s, u)
BY DEF Edited

LEMMA RemoveTopEdits ==
  ASSUME NEW s, LinesOK(s), NEW key \in BridgeKeys \cup {"model_catalog_json"}
  PROVE  LinesOK(RemoveTop(s, key)) /\ Edited(s, RemoveTop(s, key))
BY RemoveKeyEdits DEF RemoveTop, Edited

LEMMA SetTopEdits ==
  ASSUME NEW s, LinesOK(s), NEW key \in BridgeKeys, NEW value \in Values
  PROVE  LinesOK(SetTop(s, key, value)) /\ Edited(s, SetTop(s, key, value))
<1>1. Edited(s, SetKey(s, key, value, "top"))  BY SetKeyEdits
<1>2. QED  BY <1>1 DEF SetTop, Edited

LEMMA ProvidersEdited ==
  ASSUME NEW s, LinesOK(s)
  PROVE  LinesOK(WithoutProviders(s)) /\ Edited(s, WithoutProviders(s))
<1> DEFINE t == RemoveSection(s, "cnbridge")
           u == RemoveSection(t, "custom")
<1>1. "cnbridge" \in BridgeSections /\ "custom" \in BridgeSections  BY DEF BridgeSections
<1>2. Edited(s, t)  BY <1>1, RemoveSectionEdits
<1>3. LinesOK(t)  BY <1>2 DEF Edited
<1> HIDE DEF t
<1>4. Edited(t, u)  BY <1>1, <1>3, RemoveSectionEdits
<1>5. Edited(s, u)  BY <1>2, <1>4, EditedThrough
<1>6. LinesOK(u)  BY <1>4 DEF Edited
<1>7. WithoutProviders(s) = u  BY DEF WithoutProviders, t
<1>8. QED  BY <1>5, <1>6, <1>7

(* Every key that is asked for is one of the bridge's.                       *)
LEMMA KeysNamed ==
  /\ "model_provider" \in BridgeKeys /\ "openai_base_url" \in BridgeKeys
  /\ "model_limits" \in BridgeKeys /\ "tool_output_token_limit" \in BridgeKeys
  /\ "model" \in BridgeKeys /\ "request_compression" \in BridgeKeys
  /\ "bridge" \in Values /\ "default" \in Values /\ "false" \in Values
  /\ "network_proxy" \in BridgeSections
BY DEF BridgeKeys, Values, BridgeSections

LEMMA CustomLinesOK ==
  ASSUME NEW s, LinesOK(s)
  PROVE  LinesOK(CustomLines(s))
<1> DEFINE s1 == RemoveTop(s, "model_provider")
           s2 == SetTop(s1, "openai_base_url", "bridge")
           s3 == EnsureModel(s2)
           s4 == RemoveTop(s3, "model_limits")
           s5 == SetTop(s4, "tool_output_token_limit", "bridge")
           s6 == SetTop(s5, "model_catalog_json", "bridge")
           s7 == WithoutProviders(s6)
           s8 == SetKey(s7, "request_compression", "false", "features")
           s9 == RemoveSection(s8, "network_proxy")
<1>1. CustomLines(s) = s9  BY DEF CustomLines
<1>2. LinesOK(s1)  BY KeysNamed, RemoveTopEdits
<1> HIDE DEF s1
<1>3. LinesOK(s2)  BY <1>2, KeysNamed, SetTopEdits
<1> HIDE DEF s2
<1>4. LinesOK(s3)  BY <1>3, KeysNamed, SetTopEdits DEF EnsureModel
<1> HIDE DEF s3
<1>5. LinesOK(s4)  BY <1>4, KeysNamed, RemoveTopEdits
<1> HIDE DEF s4
<1>6. LinesOK(s5)  BY <1>5, KeysNamed, SetTopEdits
<1> HIDE DEF s5
<1>7. LinesOK(s6)  BY <1>6, SetCatalogOK
<1> HIDE DEF s6
<1>8. LinesOK(s7)  BY <1>7, ProvidersEdited
<1> HIDE DEF s7
<1>9. LinesOK(s8)
  <2>1. Edited(s7, s8)  BY <1>8, KeysNamed, SetKeyEdits
  <2>2. QED  BY <2>1 DEF Edited
<1> HIDE DEF s8
<1>10. LinesOK(s9)
  <2>1. Edited(s8, s9)  BY <1>9, KeysNamed, RemoveSectionEdits
  <2>2. QED  BY <2>1 DEF Edited
<1>11. QED  BY <1>1, <1>10

LEMMA RoutingEdited ==
  ASSUME NEW s, LinesOK(s)
  PROVE  LET z == WithoutRouting(s)
         IN LinesOK(z) /\ Edited(s, z) /\ CatalogLine \notin TopLines(z)
<1> DEFINE s1 == RemoveTop(s, "model_provider")
           s2 == RemoveTop(s1, "openai_base_url")
           s3 == RemoveTop(s2, "model_catalog_json")
           s4 == RemoveTop(s3, "model_limits")
           s5 == RemoveTop(s4, "tool_output_token_limit")
<1>1. WithoutRouting(s) = s5  BY DEF WithoutRouting
<1>2. LinesOK(s1) /\ Edited(s, s1)  BY KeysNamed, RemoveTopEdits
<1> HIDE DEF s1
<1>3. LinesOK(s2) /\ Edited(s1, s2)  BY <1>2, KeysNamed, RemoveTopEdits
<1> HIDE DEF s2
<1>4. LinesOK(s3) /\ Edited(s2, s3)  BY <1>3, RemoveTopEdits
<1>5. CatalogLine \notin TopLines(s3)  BY <1>3, RemoveKeyEdits DEF RemoveTop
<1> HIDE DEF s3
<1>6. LinesOK(s4) /\ Edited(s3, s4)  BY <1>4, KeysNamed, RemoveTopEdits
<1> HIDE DEF s4
<1>7. LinesOK(s5) /\ Edited(s4, s5)  BY <1>6, KeysNamed, RemoveTopEdits
<1> HIDE DEF s5
<1>8. CatalogLine \notin TopLines(s5)  BY <1>5, <1>6, <1>7 DEF Edited
<1>9. Edited(s, s3)  BY <1>2, <1>3, <1>4, EditedThrough
<1>10. Edited(s, s5)  BY <1>9, <1>6, <1>7, EditedThrough
<1>11. QED  BY <1>1, <1>7, <1>8, <1>10

LEMMA OfficialLinesOK ==
  ASSUME NEW config, LinesOK(config.lines)
  PROVE  LET z == OfficialLines(config)
         IN /\ LinesOK(z) /\ CatalogLine \notin TopLines(z)
            /\ ~NotedHeaders /\ config.valid => OwnLines(z) = OwnLines(config.lines)
<1>1. CASE ~config.valid
  <2>1. OfficialLines(config) = <<>>  BY <1>1 DEF OfficialLines, MinimalConfig
  <2>2. <<>> \in Seq(AnyLine) /\ Len(<<>>) = 0  OBVIOUS
  <2>3. LinesOK(<<>>) /\ TopLines(<<>>) = {}
    BY <2>2 DEF LinesOK, CatalogFirst, Plain, Separate, TopLines, Top, Headers
  <2>4. QED  BY <1>1, <2>1, <2>3
<1>2. CASE config.valid
  <2> DEFINE s == config.lines
             s1 == WithoutRouting(s)
             s2 == SetTop(s1, "model", "default")
             s3 == WithoutProviders(s2)
             s4 == RemoveKey(s3, "request_compression", "features")
             s5 == RemoveSection(s4, "network_proxy")
  <2>1. OfficialLines(config) = s5  BY <1>2 DEF OfficialLines
  <2> HIDE DEF s
  <2>2. LinesOK(s)  BY DEF s
  <2>3. LinesOK(s1) /\ Edited(s, s1) /\ CatalogLine \notin TopLines(s1)  BY <2>2, RoutingEdited
  <2> HIDE DEF s1
  <2>4. LinesOK(s2) /\ Edited(s1, s2)  BY <2>3, KeysNamed, SetTopEdits
  <2> HIDE DEF s2
  <2>5. LinesOK(s3) /\ Edited(s2, s3)  BY <2>4, ProvidersEdited
  <2> HIDE DEF s3
  <2>6. LinesOK(s4) /\ Edited(s3, s4)
    <3>1. Edited(s3, s4)  BY <2>5, KeysNamed, RemoveKeyEdits
    <3>2. QED  BY <3>1 DEF Edited
  <2> HIDE DEF s4
  <2>7. LinesOK(s5) /\ Edited(s4, s5)
    <3>1. Edited(s4, s5)  BY <2>6, KeysNamed, RemoveSectionEdits
    <3>2. QED  BY <3>1 DEF Edited
  <2> HIDE DEF s5
  <2>8. CatalogLine \notin TopLines(s5)  BY <2>3, <2>4, <2>5, <2>6, <2>7 DEF Edited
  <2>9. Edited(s, s3)  BY <2>3, <2>4, <2>5, EditedThrough
  <2>10. Edited(s, s5)  BY <2>9, <2>6, <2>7, EditedThrough
  <2>11. ~NotedHeaders => OwnLines(s5) = OwnLines(s)  BY <2>10 DEF Edited
  <2>12. QED  BY <2>1, <2>7, <2>8, <2>11 DEF s
<1>3. QED  BY <1>1, <1>2

(* What the user adds at the end is a table of its own.                      *)
LEMMA UserEditOK ==
  ASSUME NEW s, LinesOK(s), NEW noted \in {FALSE, NotedHeaders}
  PROVE  LET z == s \o <<Header("project", noted), KeyLine("trust", "mine")>>
         IN /\ LinesOK(z)
            /\ CatalogLine \notin TopLines(s) => CatalogLine \notin TopLines(z)
<1> DEFINE head == Header("project", noted)
           line == KeyLine("trust", "mine")
           z == s \o <<head, line>>
           a == Len(s) + 1
<1>1. s \in Seq(AnyLine) /\ Len(s) \in Nat  BY DEF LinesOK
<1>2. head \in AnyLine
  <2>1. noted = TRUE \/ noted = FALSE  BY CodexAssumption
  <2>2. head \in HeaderLines  BY <2>1 DEF HeaderLines
  <2>3. QED  BY <2>2 DEF AnyLine
<1>3. line \in AnyLine
  <2>1. line \in KeyLines  BY DEF KeyLines, Values
  <2>2. QED  BY <2>1 DEF AnyLine
<1>4. head.head = "project" /\ head.key = "none" /\ line.key = "trust"
  BY DEF Header, KeyLine
<1>5. line.noted = FALSE /\ head.noted = noted /\ line.head = "none"
  BY DEF Header, KeyLine
<1> HIDE DEF head, line
<1>6. /\ Spliced(s, z, a, a, 2) /\ a \in 1..Len(z) /\ a + 1 \in 1..Len(z)
      /\ z[a] = head /\ z[a + 1] = line
  BY <1>1, <1>2, <1>3, LastSpliced
<1>7. z \in Seq(AnyLine) /\ Len(z) = Len(s) + 2 /\ \A i \in 1..Len(s) : z[i] = s[i]
  BY <1>1, <1>2, <1>3
<1> HIDE DEF z
<1>8. \A i \in 1..Len(z) : i \in 1..Len(s) \/ i = a \/ i = a + 1  BY <1>1, <1>7
<1>9. Clean(s, a, a)
  <2>1. \A h \in 1..Len(s) : ~(a <= h /\ h < a)  BY <1>1
  <2>2. QED  BY <2>1 DEF Clean, Headers
<1>10. \A i \in 1..Len(z) : a <= i /\ i < a + 2 => z[i].key # "model_catalog_json"
  <2>1. \A i \in 1..Len(z) : a <= i /\ i < a + 2 => i = a \/ i = a + 1  BY <1>1
  <2>2. QED  BY <1>4, <1>6, <2>1
<1> DEFINE b == a
<1>11. /\ CatalogFirst(s) => CatalogFirst(z)
       /\ CatalogLine \notin TopLines(s) => CatalogLine \notin TopLines(z)
  <2> HIDE DEF a
  <2>1. QED  BY <1>6, <1>9, <1>10, SplicedCatalog
<1>12. ASSUME ~NotedHeaders PROVE Plain(z) /\ Separate(z)
  <2>1. Plain(s) /\ Separate(s)  BY <1>12 DEF LinesOK
  <2>2. noted = FALSE  BY <1>12, CodexAssumption
  <2>3. Plain(z)
    <3>1. \A i \in 1..Len(s) : ~z[i].noted  BY <1>7, <2>1 DEF Plain
    <3>2. ~z[a].noted /\ ~z[a + 1].noted  BY <1>5, <1>6, <2>2
    <3>3. QED  BY <1>8, <3>1, <3>2 DEF Plain
  <2>4. ASSUME NEW h \in Headers(z), NEW i \in 1..Len(z), h < i,
               z[h].head \in BridgeSections, z[i].key \in OwnKeys
        PROVE  \E g \in Headers(z) : h < g /\ g <= i
    <3>1. h \in 1..Len(z) /\ IsHeader(z[h])  BY DEF Headers
    <3>2. h # a /\ h # a + 1
      BY <1>4, <1>5, <1>6, <2>4 DEF BridgeSections
    <3>3. h \in Headers(s) /\ z[h] = s[h]  BY <1>7, <1>8, <3>1, <3>2 DEF Headers
    <3>4. CASE i \in 1..Len(s)
      <4>1. z[i] = s[i]  BY <1>7, <3>4
      <4>2. PICK g \in Headers(s) : h < g /\ g <= i
        BY <2>1, <2>4, <3>3, <3>4, <4>1 DEF Separate
      <4>3. g \in Headers(z)  BY <1>1, <1>7 DEF Headers
      <4>4. QED  BY <4>2, <4>3
    <3>5. CASE i = a
      BY <1>4, <1>6, <2>4, <3>5 DEF OwnKeys
    <3>6. CASE i = a + 1
      <4>1. a \in Headers(z)  BY <1>4, <1>6 DEF Headers, IsHeader
      <4>2. h < a /\ a <= i
        <5>1. h \in 1..Len(s)  BY <1>8, <3>1, <3>2
        <5>2. QED  BY <1>1, <3>6, <5>1
      <4>3. QED  BY <4>1, <4>2
    <3>7. QED  BY <1>8, <3>4, <3>5, <3>6
  <2>5. QED  BY <2>3, <2>4 DEF Separate
<1>13. LinesOK(z)  BY <1>7, <1>11, <1>12 DEF LinesOK
<1>14. QED  BY <1>11, <1>13 DEF z, head, line

(* The lines a user may come with.                                           *)
LEMMA UserLinesOK ==
  ASSUME NEW s \in UserConfigs
  PROVE  LinesOK(s) /\ CatalogLine \notin TopLines(s)
<1>1. s \in Seq(TomlLine) /\ (NotedHeaders \/ (Plain(s) /\ Separate(s)))
      /\ CatalogLine \notin TopLines(s)
  BY CodexAssumption
<1>2. s \in Seq(AnyLine)
  <2>1. TomlLine \subseteq AnyLine  BY DEF AnyLine
  <2>2. QED  BY <1>1, <2>1
<1>3. CatalogFirst(s)  BY <1>1 DEF CatalogFirst, TopLines
<1>4. QED  BY <1>1, <1>2, <1>3 DEF LinesOK

-----------------------------------------------------------------------------
(* The invariant of the switches. *)

CodexFiles == [exists : BOOLEAN, valid : BOOLEAN, lines : Seq(AnyLine)]
CodexSwitches ==
    [to : {"none", "custom", "official"},
     step : {"idle", "catalog", "write", "replace", "unlink"},
     read : CodexFiles, lines : Seq(AnyLine)]

CodexTypes ==
    /\ toml \in CodexFiles /\ replaced \in CodexFiles /\ backups \in Seq(CodexFiles)
    /\ catalog \in BOOLEAN /\ switch \in CodexSwitches

(* What is about to be written: a configuration for the bridge has its       *)
(* catalog already, and one for the official service does not name it.       *)
WriteBacked ==
    switch.step \in {"write", "replace"} =>
        \/ switch.to = "custom" /\ catalog
        \/ switch.to = "official" /\ CatalogLine \notin TopLines(switch.lines)

(* The catalog goes only once nothing names it.                              *)
UnlinkBacked ==
    switch.step = "unlink" =>
        switch.to = "official" /\ CatalogLine \notin TopLines(toml.lines)

(* What is about to be replaced is the backup taken last.                    *)
BackupTaken ==
    switch.step = "replace" /\ toml.exists =>
        Len(backups) > 0 /\ backups[Len(backups)] = toml

CodexInv ==
    /\ CodexTypes
    /\ LinesOK(toml.lines) /\ LinesOK(switch.lines)
    /\ CatalogBacked
    /\ switch.step = "catalog" => switch.to = "custom"
    /\ WriteBacked /\ UnlinkBacked /\ BackupTaken
    /\ ReplacedKept
    /\ ~NotedHeaders => SectionsSurvive

LEMMA FileMade ==
  ASSUME NEW e \in BOOLEAN, NEW v \in BOOLEAN, NEW s \in Seq(AnyLine)
  PROVE  [exists |-> e, valid |-> v, lines |-> s] \in CodexFiles
BY DEF CodexFiles

LEMMA SwitchMade ==
  ASSUME NEW to \in {"none", "custom", "official"},
         NEW step \in {"idle", "catalog", "write", "replace", "unlink"},
         NEW read \in CodexFiles, NEW s \in Seq(AnyLine)
  PROVE  [to |-> to, step |-> step, read |-> read, lines |-> s] \in CodexSwitches
BY DEF CodexSwitches

LEMMA NothingOK == LinesOK(<<>>) /\ TopLines(<<>>) = {}
<1>1. <<>> \in Seq(AnyLine) /\ Len(<<>>) = 0  OBVIOUS
<1>2. QED
  BY <1>1 DEF LinesOK, CatalogFirst, Plain, Separate, TopLines, Top, Headers

LEMMA NoSwitchMeans ==
  /\ NoToml \in CodexFiles /\ NoSwitch \in CodexSwitches
  /\ NoToml.lines = <<>> /\ ~NoToml.exists /\ LinesOK(NoSwitch.lines)
  /\ NoSwitch.to = "none" /\ NoSwitch.step = "idle"
<1>1. NoToml = [exists |-> FALSE, valid |-> TRUE, lines |-> <<>>]  BY DEF NoToml
<1>2. <<>> \in Seq(AnyLine)  OBVIOUS
<1>3. FALSE \in BOOLEAN /\ TRUE \in BOOLEAN  OBVIOUS
<1>4. NoToml \in CodexFiles  BY <1>1, <1>2, <1>3 DEF CodexFiles
<1>5. NoToml.lines = <<>> /\ ~NoToml.exists  BY <1>1
<1>6. NoSwitch = [to |-> "none", step |-> "idle", read |-> NoToml, lines |-> <<>>]
  BY DEF NoSwitch
<1>7. NoSwitch \in CodexSwitches  BY <1>2, <1>4, <1>6 DEF CodexSwitches
<1>8. NoSwitch.lines = <<>> /\ NoSwitch.to = "none" /\ NoSwitch.step = "idle"
  BY <1>6
<1>9. QED  BY <1>4, <1>5, <1>7, <1>8, NothingOK

LEMMA CodexInitInv == CodexInit => CodexInv
<1> SUFFICES ASSUME CodexInit PROVE CodexInv
  OBVIOUS
<1> USE DEF CodexInit
<1>1. toml \in CodexFiles /\ LinesOK(toml.lines) /\ CatalogLine \notin TopLines(toml.lines)
  <2>1. CASE toml = NoToml
    BY <2>1, NoSwitchMeans, NothingOK
  <2>2. CASE toml \in [exists : {TRUE}, valid : BOOLEAN, lines : UserConfigs]
    <3>1. toml.lines \in UserConfigs  BY <2>2
    <3>2. LinesOK(toml.lines) /\ CatalogLine \notin TopLines(toml.lines)
      BY <3>1, UserLinesOK
    <3>3. toml.lines \in Seq(AnyLine)  BY <3>2 DEF LinesOK
    <3>4. toml = [exists |-> TRUE, valid |-> toml.valid, lines |-> toml.lines]
          /\ toml.valid \in BOOLEAN
      BY <2>2
    <3>5. TRUE \in BOOLEAN  OBVIOUS
    <3>6. [exists |-> TRUE, valid |-> toml.valid, lines |-> toml.lines] \in CodexFiles
      BY <3>3, <3>4, <3>5, FileMade
    <3>8. toml \in CodexFiles  BY <3>4, <3>6
    <3>7. QED  BY <3>2, <3>8
  <2>3. QED  BY <2>1, <2>2
<1>2. switch.step = "idle" /\ switch.to = "none" /\ LinesOK(switch.lines)
  BY NoSwitchMeans
<1>3. CodexTypes
  <2>1. backups \in Seq(CodexFiles)  OBVIOUS
  <2>2. QED  BY <1>1, <2>1, NoSwitchMeans DEF CodexTypes
<1>4. WriteBacked /\ UnlinkBacked /\ BackupTaken /\ SectionsSurvive
  BY <1>2 DEF WriteBacked, UnlinkBacked, BackupTaken, SectionsSurvive
<1>5. ReplacedKept  BY NoSwitchMeans DEF ReplacedKept
<1>6. CatalogBacked  BY <1>1 DEF CatalogBacked
<1>7. QED  BY <1>1, <1>2, <1>3, <1>4, <1>5, <1>6 DEF CodexInv

(* A handler that ends, or a process that dies, leaves nothing half done.    *)
LEMMA SwitchEnds ==
  ASSUME CodexInv, switch' = NoSwitch, UNCHANGED <<toml, backups, replaced>>,
         catalog' \in BOOLEAN, CatalogBacked'
  PROVE  CodexInv'
<1>1. /\ switch.step' = "idle" /\ switch.to' = "none" /\ LinesOK(switch.lines')
      /\ switch' \in CodexSwitches
  BY NoSwitchMeans
<1>2. CodexTypes'  BY <1>1 DEF CodexInv, CodexTypes
<1>3. WriteBacked' /\ UnlinkBacked' /\ BackupTaken' /\ SectionsSurvive'
  BY <1>1 DEF WriteBacked, UnlinkBacked, BackupTaken, SectionsSurvive
<1>4. ReplacedKept'  BY DEF CodexInv, ReplacedKept
<1>5. QED  BY <1>1, <1>2, <1>3, <1>4 DEF CodexInv

(* A step of the handler that writes no file.                                *)
LEMMA SwitchSteps ==
  ASSUME CodexInv, UNCHANGED <<toml, backups, replaced>>, catalog' \in BOOLEAN,
         CatalogBacked', switch' \in CodexSwitches, LinesOK(switch.lines'),
         switch.step' = "catalog" => switch.to' = "custom",
         WriteBacked', UnlinkBacked', BackupTaken', ~NotedHeaders => SectionsSurvive'
  PROVE  CodexInv'
<1>1. CodexTypes'  BY DEF CodexInv, CodexTypes
<1>2. ReplacedKept'  BY DEF CodexInv, ReplacedKept
<1>3. QED  BY <1>1, <1>2 DEF CodexInv

LEMMA CustomStarts ==
  ASSUME CodexInv, SwitchToCustom
  PROVE  CodexInv'
<1>1. /\ toml \in CodexFiles /\ LinesOK(toml.lines) /\ CatalogBacked /\ catalog \in BOOLEAN
      /\ toml.lines \in Seq(AnyLine)
  BY DEF CodexInv, CodexTypes, LinesOK
<1>2. /\ switch' = [to |-> "custom", step |-> "catalog", read |-> toml, lines |-> toml.lines]
      /\ UNCHANGED <<toml, backups, catalog, replaced>>
  BY DEF SwitchToCustom
<1>3. switch' \in CodexSwitches  BY <1>1, <1>2, SwitchMade
<1>4. switch.to' = "custom" /\ switch.step' = "catalog" /\ switch.lines' = toml.lines
  BY <1>2
<1>5. CatalogBacked'  BY <1>1, <1>2 DEF CatalogBacked
<1>6. WriteBacked' /\ UnlinkBacked' /\ BackupTaken' /\ SectionsSurvive'
  BY <1>4 DEF WriteBacked, UnlinkBacked, BackupTaken, SectionsSurvive
<1>7. QED  BY <1>1, <1>2, <1>3, <1>4, <1>5, <1>6, SwitchSteps

LEMMA CatalogComes ==
  ASSUME CodexInv, CatalogWritten
  PROVE  CodexInv'
<1>1. /\ switch \in CodexSwitches /\ LinesOK(switch.lines)
      /\ switch.step = "catalog" /\ switch.to = "custom"
  BY DEF CodexInv, CodexTypes, CatalogWritten
<1>2. /\ switch' = [switch EXCEPT !.step = "write", !.lines = CustomLines(@)]
      /\ UNCHANGED <<toml, backups, replaced>> /\ catalog' = TRUE
  BY DEF CatalogWritten
<1> DEFINE z == CustomLines(switch.lines)
<1>3. LinesOK(z) /\ z \in Seq(AnyLine)  BY <1>1, CustomLinesOK DEF LinesOK
<1>4. switch' = [to |-> "custom", step |-> "write", read |-> switch.read, lines |-> z]
  BY <1>1, <1>2 DEF CodexSwitches
<1> HIDE DEF z
<1>5. switch.read \in CodexFiles  BY <1>1 DEF CodexSwitches
<1>6. switch' \in CodexSwitches  BY <1>3, <1>4, <1>5, SwitchMade
<1>7. switch.to' = "custom" /\ switch.step' = "write" /\ switch.lines' = z
  BY <1>4
<1>8. CatalogBacked'  BY <1>2 DEF CatalogBacked
<1>9. WriteBacked' /\ UnlinkBacked' /\ BackupTaken' /\ SectionsSurvive'
  BY <1>2, <1>7 DEF WriteBacked, UnlinkBacked, BackupTaken, SectionsSurvive
<1>10. catalog' \in BOOLEAN /\ LinesOK(switch.lines')  BY <1>2, <1>3, <1>7
<1>11. QED  BY <1>2, <1>6, <1>7, <1>8, <1>9, <1>10, SwitchSteps

LEMMA OfficialStarts ==
  ASSUME CodexInv, SwitchToOfficial
  PROVE  CodexInv'
<1>1. toml \in CodexFiles /\ LinesOK(toml.lines) /\ CatalogBacked /\ catalog \in BOOLEAN
  BY DEF CodexInv, CodexTypes
<1> DEFINE z == OfficialLines(toml)
<1>2. /\ switch' = [to |-> "official", step |-> "write", read |-> toml, lines |-> z]
      /\ UNCHANGED <<toml, backups, catalog, replaced>>
  BY DEF SwitchToOfficial
<1>3. /\ LinesOK(z) /\ CatalogLine \notin TopLines(z)
      /\ ~NotedHeaders /\ toml.valid => OwnLines(z) = OwnLines(toml.lines)
  BY <1>1, OfficialLinesOK
<1>4. z \in Seq(AnyLine)  BY <1>3 DEF LinesOK
<1> HIDE DEF z
<1>5. switch' \in CodexSwitches  BY <1>1, <1>2, <1>4, SwitchMade
<1>6. /\ switch.to' = "official" /\ switch.step' = "write" /\ switch.lines' = z
      /\ switch.read' = toml
  BY <1>2
<1>7. CatalogBacked'  BY <1>1, <1>2 DEF CatalogBacked
<1>8. WriteBacked' /\ UnlinkBacked' /\ BackupTaken'
  BY <1>3, <1>6 DEF WriteBacked, UnlinkBacked, BackupTaken
<1>9. ~NotedHeaders => SectionsSurvive'
  BY <1>3, <1>6 DEF SectionsSurvive
<1>10. catalog' \in BOOLEAN /\ LinesOK(switch.lines')  BY <1>1, <1>2, <1>3, <1>6
<1>11. QED  BY <1>2, <1>5, <1>6, <1>7, <1>8, <1>9, <1>10, SwitchSteps

(* The handler is done with the file.                                        *)
LEMMA AfterWriteMeans ==
  ASSUME CodexInv, AfterWrite, switch.step \in {"write", "replace"}
  PROVE  \/ switch' = NoSwitch
         \/ /\ switch.to = "official" /\ CatalogLine \notin TopLines(switch.lines)
            /\ switch' \in CodexSwitches /\ switch.to' = "official" /\ switch.step' = "unlink"
            /\ switch.lines' = switch.lines /\ switch.read' = switch.read
<1>1. switch \in CodexSwitches /\ WriteBacked  BY DEF CodexInv, CodexTypes
<1>2. CASE switch.to # "official"
  BY <1>2 DEF AfterWrite
<1>3. CASE switch.to = "official"
  <2>1. switch' = [switch EXCEPT !.step = "unlink"]  BY <1>3 DEF AfterWrite
  <2>2. switch' = [to |-> "official", step |-> "unlink", read |-> switch.read,
                    lines |-> switch.lines]
    BY <1>1, <1>3, <2>1 DEF CodexSwitches
  <2>3. switch.read \in CodexFiles /\ switch.lines \in Seq(AnyLine)
    BY <1>1 DEF CodexSwitches
  <2>4. switch' \in CodexSwitches  BY <2>2, <2>3, SwitchMade
  <2>5. /\ switch.to' = "official" /\ switch.step' = "unlink"
        /\ switch.lines' = switch.lines /\ switch.read' = switch.read
    BY <2>2
  <2>6. CatalogLine \notin TopLines(switch.lines)
    BY <1>1, <1>3 DEF WriteBacked
  <2>7. QED  BY <1>3, <2>4, <2>5, <2>6
<1>4. QED  BY <1>2, <1>3

LEMMA NothingWritten ==
  ASSUME CodexInv, WriteUnchanged
  PROVE  CodexInv'
<1>1. /\ switch.step = "write" /\ toml.lines = switch.lines /\ AfterWrite
      /\ UNCHANGED <<toml, backups, catalog, replaced>>
  BY DEF WriteUnchanged
<1>2. /\ catalog' \in BOOLEAN /\ LinesOK(switch.lines)
      /\ CatalogBacked /\ (~NotedHeaders => SectionsSurvive)
  BY <1>1 DEF CodexInv, CodexTypes
<1>3. CatalogBacked'  BY <1>1, <1>2 DEF CatalogBacked
<1>4. CASE switch' = NoSwitch
  BY <1>1, <1>2, <1>3, <1>4, SwitchEnds
<1>5. CASE switch' # NoSwitch
  <2>1. /\ switch.to = "official" /\ CatalogLine \notin TopLines(switch.lines)
        /\ switch' \in CodexSwitches /\ switch.to' = "official" /\ switch.step' = "unlink"
        /\ switch.lines' = switch.lines /\ switch.read' = switch.read
    BY <1>1, <1>5, AfterWriteMeans
  <2>2. WriteBacked' /\ UnlinkBacked' /\ BackupTaken'
    BY <1>1, <2>1 DEF WriteBacked, UnlinkBacked, BackupTaken
  <2>3. ~NotedHeaders => SectionsSurvive'
    BY <1>2, <2>1 DEF SectionsSurvive
  <2>4. QED  BY <1>1, <1>2, <1>3, <2>1, <2>2, <2>3, SwitchSteps
<1>6. QED  BY <1>4, <1>5

LEMMA BackupTakes ==
  ASSUME CodexInv, KeepBackup
  PROVE  CodexInv'
<1>1. /\ switch.step = "write"
      /\ backups' = IF toml.exists THEN Append(backups, toml) ELSE backups
      /\ switch' = [switch EXCEPT !.step = "replace"]
      /\ UNCHANGED <<toml, catalog, replaced>>
  BY DEF KeepBackup
<1>2. /\ CodexTypes /\ LinesOK(toml.lines) /\ LinesOK(switch.lines) /\ CatalogBacked
      /\ WriteBacked /\ ReplacedKept /\ (~NotedHeaders => SectionsSurvive)
  BY DEF CodexInv
<1>3. toml \in CodexFiles /\ backups \in Seq(CodexFiles) /\ switch \in CodexSwitches
  BY <1>2 DEF CodexTypes
<1>4. switch' = [to |-> switch.to, step |-> "replace", read |-> switch.read,
                  lines |-> switch.lines]
  BY <1>1, <1>3 DEF CodexSwitches
<1>5. /\ switch.to \in {"none", "custom", "official"}
      /\ switch.read \in CodexFiles /\ switch.lines \in Seq(AnyLine)
  BY <1>3 DEF CodexSwitches
<1>6. switch' \in CodexSwitches  BY <1>4, <1>5, SwitchMade
<1>7. /\ switch.to' = switch.to /\ switch.step' = "replace"
      /\ switch.lines' = switch.lines /\ switch.read' = switch.read
  BY <1>4
<1>8. /\ backups' \in Seq(CodexFiles) /\ Len(backups') \in Nat
      /\ Len(backups) \in Nat /\ Len(backups) <= Len(backups')
      /\ \A i \in 1..Len(backups) : backups'[i] = backups[i]
      /\ toml.exists => Len(backups') > 0 /\ backups'[Len(backups')] = toml
  <2>1. CASE toml.exists
    <3>1. backups' = Append(backups, toml)  BY <1>1, <2>1
    <3>2. QED  BY <1>3, <3>1
  <2>2. CASE ~toml.exists
    BY <1>1, <1>3, <2>2
  <2>3. QED  BY <2>1, <2>2
<1>9. CodexTypes'  BY <1>1, <1>2, <1>6, <1>8 DEF CodexTypes
<1>10. BackupTaken'  BY <1>1, <1>8 DEF BackupTaken
<1>11. ReplacedKept'
  <2>1. SUFFICES ASSUME replaced.exists
                 PROVE  \E i \in 1..Len(backups') : backups'[i] = replaced
    BY <1>1 DEF ReplacedKept
  <2>2. PICK i \in 1..Len(backups) : backups[i] = replaced  BY <1>2, <2>1 DEF ReplacedKept
  <2>3. i \in 1..Len(backups') /\ backups'[i] = replaced  BY <1>8, <2>2
  <2>4. QED  BY <2>3
<1>12. WriteBacked' /\ UnlinkBacked'
  BY <1>1, <1>2, <1>7 DEF WriteBacked, UnlinkBacked
<1>13. (~NotedHeaders => SectionsSurvive') /\ CatalogBacked'
  BY <1>1, <1>2, <1>7 DEF SectionsSurvive, CatalogBacked
<1>14. LinesOK(toml.lines') /\ LinesOK(switch.lines')  BY <1>1, <1>2, <1>7
<1>15. QED  BY <1>7, <1>9, <1>10, <1>11, <1>12, <1>13, <1>14 DEF CodexInv

LEMMA TomlReplaced ==
  ASSUME CodexInv, ReplaceToml
  PROVE  CodexInv'
<1>1. /\ switch.step = "replace" /\ replaced' = toml /\ AfterWrite
      /\ toml' = [exists |-> TRUE, lines |-> switch.lines,
                  valid |-> toml.valid \/ switch.to = "official"]
      /\ backups' = IF Len(backups) <= BackupLimit THEN backups
                    ELSE SubSeq(backups, Len(backups) - BackupLimit + 1, Len(backups))
      /\ catalog' = catalog
  BY DEF ReplaceToml
<1>2. /\ CodexTypes /\ LinesOK(switch.lines) /\ WriteBacked /\ BackupTaken
      /\ (~NotedHeaders => SectionsSurvive)
  BY DEF CodexInv
<1>3. toml \in CodexFiles /\ backups \in Seq(CodexFiles) /\ switch \in CodexSwitches
  BY <1>2 DEF CodexTypes
<1>4. switch.lines \in Seq(AnyLine)  BY <1>2 DEF LinesOK
<1>5. BackupLimit \in Nat /\ BackupLimit > 0  BY CodexAssumption
<1> DEFINE v == toml.valid \/ switch.to = "official"
<1>6. toml' = [exists |-> TRUE, valid |-> v, lines |-> switch.lines]
  BY <1>1
<1>7. v \in BOOLEAN /\ TRUE \in BOOLEAN  OBVIOUS
<1> HIDE DEF v
<1>8. toml' \in CodexFiles  BY <1>4, <1>6, <1>7, FileMade
<1>9. toml.lines' = switch.lines  BY <1>6
<1>10. /\ backups' \in Seq(CodexFiles) /\ Len(backups') \in Nat
       /\ Len(backups) > 0 => Len(backups') > 0 /\ backups'[Len(backups')] = backups[Len(backups)]
  <2>1. CASE Len(backups) <= BackupLimit
    BY <1>1, <1>3, <2>1
  <2>2. CASE ~(Len(backups) <= BackupLimit)
    <3>1. backups' = SubSeq(backups, Len(backups) - BackupLimit + 1, Len(backups))
      BY <1>1, <2>2
    <3>2. PICK m \in Nat \ {0} : m = Len(backups) - BackupLimit + 1
      BY <1>3, <1>5, <2>2
    <3>3. m <= Len(backups) /\ Len(backups) - m + 1 = BackupLimit /\ Len(backups) \in Nat
      BY <1>3, <1>5, <2>2, <3>2
    <3>4. /\ backups' \in Seq(CodexFiles) /\ Len(backups') = Len(backups) - m + 1
          /\ \A i \in 1..(Len(backups) - m + 1) : backups'[i] = backups[m + i - 1]
      BY <1>3, <3>1, <3>2, <3>3, SMTT(60)
    <3>5. backups'[BackupLimit] = backups[m + BackupLimit - 1]  BY <1>5, <3>3, <3>4
    <3>6. m + BackupLimit - 1 = Len(backups)  BY <1>3, <1>5, <3>2
    <3>7. QED  BY <1>5, <3>3, <3>4, <3>5, <3>6
  <2>3. QED  BY <2>1, <2>2
<1>11. ReplacedKept'
  <2>1. SUFFICES ASSUME toml.exists
                 PROVE  \E i \in 1..Len(backups') : backups'[i] = toml
    BY <1>1 DEF ReplacedKept
  <2>2. Len(backups) > 0 /\ backups[Len(backups)] = toml
    BY <1>1, <1>2, <2>1 DEF BackupTaken
  <2>3. Len(backups') \in 1..Len(backups') /\ backups'[Len(backups')] = toml
    BY <1>10, <2>2
  <2>4. QED  BY <2>3
<1>12. CatalogBacked'
  <2>1. (switch.to = "custom" /\ catalog) \/ CatalogLine \notin TopLines(switch.lines)
    BY <1>1, <1>2 DEF WriteBacked
  <2>2. QED  BY <1>1, <1>9, <2>1 DEF CatalogBacked
<1>13. LinesOK(toml.lines') /\ catalog' \in BOOLEAN  BY <1>1, <1>2, <1>9 DEF CodexTypes
<1>14. CASE switch' = NoSwitch
  <2>1. /\ switch.step' = "idle" /\ switch.to' = "none" /\ LinesOK(switch.lines')
        /\ switch' \in CodexSwitches
    BY <1>14, NoSwitchMeans
  <2>2. CodexTypes'  BY <1>1, <1>3, <1>8, <1>10, <1>13, <2>1 DEF CodexTypes
  <2>3. WriteBacked' /\ UnlinkBacked' /\ BackupTaken' /\ SectionsSurvive'
    BY <2>1 DEF WriteBacked, UnlinkBacked, BackupTaken, SectionsSurvive
  <2>4. QED  BY <1>11, <1>12, <1>13, <2>1, <2>2, <2>3 DEF CodexInv
<1>15. CASE switch' # NoSwitch
  <2>1. /\ switch.to = "official" /\ CatalogLine \notin TopLines(switch.lines)
        /\ switch' \in CodexSwitches /\ switch.to' = "official" /\ switch.step' = "unlink"
        /\ switch.lines' = switch.lines /\ switch.read' = switch.read
    BY <1>1, <1>15, AfterWriteMeans
  <2>2. CodexTypes'  BY <1>1, <1>3, <1>8, <1>10, <1>13, <2>1 DEF CodexTypes
  <2>3. WriteBacked' /\ UnlinkBacked' /\ BackupTaken'
    BY <1>9, <2>1 DEF WriteBacked, UnlinkBacked, BackupTaken
  <2>4. ~NotedHeaders => SectionsSurvive'
    BY <1>2, <2>1 DEF SectionsSurvive
  <2>5. LinesOK(switch.lines')  BY <1>2, <2>1
  <2>6. QED  BY <1>11, <1>12, <1>13, <2>1, <2>2, <2>3, <2>4, <2>5 DEF CodexInv
<1>16. QED  BY <1>14, <1>15

LEMMA CatalogGoes ==
  ASSUME CodexInv, NEW ok \in BOOLEAN, UnlinkCatalog(ok)
  PROVE  CodexInv'
<1>1. /\ switch.step = "unlink" /\ catalog' = (catalog /\ ~ok) /\ switch' = NoSwitch
      /\ UNCHANGED <<toml, backups, replaced>>
  BY DEF UnlinkCatalog
<1>2. CatalogLine \notin TopLines(toml.lines)
  BY <1>1 DEF CodexInv, UnlinkBacked
<1>3. catalog' \in BOOLEAN  BY <1>1
<1>4. CatalogBacked'  BY <1>1, <1>2 DEF CatalogBacked
<1>5. QED  BY <1>1, <1>3, <1>4, SwitchEnds

LEMMA WatcherKeeps ==
  ASSUME CodexInv, UNCHANGED <<toml, backups, switch, replaced>>,
         catalog' \in BOOLEAN, catalog => catalog'
  PROVE  CodexInv'
<1>1. CodexTypes' /\ LinesOK(toml.lines') /\ LinesOK(switch.lines')
  BY DEF CodexInv, CodexTypes
<1>2. switch.step' = "catalog" => switch.to' = "custom"  BY DEF CodexInv
<1>3. CatalogBacked'  BY DEF CodexInv, CatalogBacked
<1>4. WriteBacked' /\ UnlinkBacked' /\ BackupTaken'
  BY DEF CodexInv, WriteBacked, UnlinkBacked, BackupTaken
<1>5. ReplacedKept' /\ (~NotedHeaders => SectionsSurvive')
  BY DEF CodexInv, ReplacedKept, SectionsSurvive
<1>6. QED  BY <1>1, <1>2, <1>3, <1>4, <1>5 DEF CodexInv

(* The user's hand on the file.                                              *)
LEMMA TomlEdited ==
  ASSUME CodexInv, UNCHANGED <<backups, catalog, switch, replaced>>, switch.step # "replace",
         toml' \in CodexFiles, LinesOK(toml.lines'),
         CatalogLine \notin TopLines(toml.lines) => CatalogLine \notin TopLines(toml.lines')
  PROVE  CodexInv'
<1>1. CodexTypes' /\ LinesOK(switch.lines')
  BY DEF CodexInv, CodexTypes
<1>2. switch.step' = "catalog" => switch.to' = "custom"  BY DEF CodexInv
<1>3. CatalogBacked'  BY DEF CodexInv, CatalogBacked
<1>4. WriteBacked' /\ UnlinkBacked' /\ BackupTaken'
  BY DEF CodexInv, WriteBacked, UnlinkBacked, BackupTaken
<1>5. ReplacedKept' /\ (~NotedHeaders => SectionsSurvive')
  BY DEF CodexInv, ReplacedKept, SectionsSurvive
<1>6. QED  BY <1>1, <1>2, <1>3, <1>4, <1>5 DEF CodexInv

LEMMA UserEdits ==
  ASSUME CodexInv, NEW noted \in {FALSE, NotedHeaders}, EditToml(noted)
  PROVE  CodexInv'
<1> DEFINE z == toml.lines \o <<Header("project", noted), KeyLine("trust", "mine")>>
<1>1. toml \in CodexFiles /\ LinesOK(toml.lines)  BY DEF CodexInv, CodexTypes
<1>2. /\ LinesOK(z)
      /\ CatalogLine \notin TopLines(toml.lines) => CatalogLine \notin TopLines(z)
  BY <1>1, UserEditOK
<1>3. /\ toml' = [exists |-> TRUE, valid |-> toml.valid, lines |-> z]
      /\ switch.step # "replace" /\ UNCHANGED <<backups, catalog, switch, replaced>>
  BY DEF EditToml
<1> HIDE DEF z
<1>4. z \in Seq(AnyLine)  BY <1>2 DEF LinesOK
<1>5. toml.valid \in BOOLEAN  BY <1>1 DEF CodexFiles
<1>6. TRUE \in BOOLEAN  OBVIOUS
<1>7. toml' \in CodexFiles  BY <1>3, <1>4, <1>5, <1>6, FileMade
<1>8. toml.lines' = z  BY <1>3
<1>9. QED  BY <1>2, <1>3, <1>7, <1>8, TomlEdited

LEMMA UserBreaks ==
  ASSUME CodexInv, BreakToml
  PROVE  CodexInv'
<1>1. toml \in CodexFiles /\ LinesOK(toml.lines)  BY DEF CodexInv, CodexTypes
<1>2. /\ toml' = [toml EXCEPT !.valid = FALSE]
      /\ switch.step # "replace" /\ UNCHANGED <<backups, catalog, switch, replaced>>
  BY DEF BreakToml
<1>3. toml.lines' = toml.lines  BY <1>1, <1>2 DEF CodexFiles
<1>4. toml' \in CodexFiles
  <2>1. FALSE \in BOOLEAN  OBVIOUS
  <2>2. QED  BY <1>1, <1>2, <2>1 DEF CodexFiles
<1>5. QED  BY <1>1, <1>2, <1>3, <1>4, TomlEdited

LEMMA CodexStepInv == CodexInv /\ [CodexNext]_codexVars => CodexInv'
<1> SUFFICES ASSUME CodexInv, [CodexNext]_codexVars PROVE CodexInv'
  OBVIOUS
<1>1. CatalogBacked /\ catalog \in BOOLEAN  BY DEF CodexInv, CodexTypes
<1>2. CASE SwitchToCustom  BY <1>2, CustomStarts
<1>3. CASE CatalogWritten  BY <1>3, CatalogComes
<1>4. CASE SwitchToOfficial  BY <1>4, OfficialStarts
<1>5. CASE CatalogFails \/ WriteFails \/ RestartBridge
  <2>1. switch' = NoSwitch /\ UNCHANGED <<toml, backups, catalog, replaced>>
    BY <1>5 DEF CatalogFails, WriteFails, RestartBridge
  <2>2. CatalogBacked' /\ catalog' \in BOOLEAN  BY <1>1, <2>1 DEF CatalogBacked
  <2>3. QED  BY <2>1, <2>2, SwitchEnds
<1>6. CASE WriteUnchanged  BY <1>6, NothingWritten
<1>7. CASE KeepBackup  BY <1>7, BackupTakes
<1>8. CASE ReplaceToml  BY <1>8, TomlReplaced
<1>9. ASSUME NEW ok \in BOOLEAN, UnlinkCatalog(ok) \/ WatcherWrites(ok) PROVE CodexInv'
  <2>1. CASE UnlinkCatalog(ok)  BY <2>1, CatalogGoes
  <2>2. CASE WatcherWrites(ok)
    <3>1. catalog' \in BOOLEAN /\ (catalog => catalog')  BY <2>2 DEF WatcherWrites
    <3>2. QED  BY <2>2, <3>1, WatcherKeeps DEF WatcherWrites
  <2>3. QED  BY <1>9, <2>1, <2>2
<1>10. CASE WatcherDecides
  BY <1>1, <1>10, WatcherKeeps DEF WatcherDecides
<1>11. ASSUME NEW noted \in {FALSE, NotedHeaders}, EditToml(noted) PROVE CodexInv'
  BY <1>11, UserEdits
<1>12. CASE BreakToml  BY <1>12, UserBreaks
<1>13. CASE UNCHANGED codexVars
  BY <1>1, <1>13, WatcherKeeps DEF codexVars
<1>14. QED
  BY <1>2, <1>3, <1>4, <1>5, <1>6, <1>7, <1>8, <1>9, <1>10, <1>11, <1>12, <1>13
  DEF CodexNext

(* Whatever the user wrote before, however the edits, the failures, the      *)
(* watcher and the restarts fall: config.toml never names a catalog that is  *)
(* not there, the configuration replaced last is among the backups, and with *)
(* plain headers every line of the user's survives the switch to the         *)
(* official service.                                                         *)
THEOREM SwitchTheorem == CodexSpec => []SwitchSound
<1>1. CodexInv => SwitchSound
  BY DEF CodexInv, SwitchSound
<1>2. QED  BY <1>1, CodexInitInv, CodexStepInv, PTL DEF CodexSpec
=============================================================================
