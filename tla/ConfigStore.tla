----------------------------- MODULE ConfigStore -----------------------------
(***************************************************************************)
(* The configuration: one file, one copy in memory behind a lock.  A       *)
(* watcher and a button reload the file in threads of their own, edits of  *)
(* the administration interface change a copy and save it, and other       *)
(* programs write and remove the file whenever they like.  The process may *)
(* crash between any two steps.                                            *)
(***************************************************************************)
EXTENDS Naturals

CONSTANTS
  Loader,      \* the threads that may load at a time
  Watcher,     \* the one of watch_config, the others serve the button
  Editor,      \* who holds the lock during an edit
  None,        \* nobody
  Faults,      \* the failures of the file system: "read", "save", "prune"
  MaxVersion   \* bound: contents written over the whole run

ASSUME ConfigAssumption ==
  /\ Watcher \in Loader
  /\ Editor \notin Loader /\ None \notin Loader /\ None # Editor
  /\ Faults \subseteq {"read", "save", "prune"}
  /\ MaxVersion \in Nat \ {0}

VARIABLES
  file,      \* what is in the file
  clock,     \* the contents that were made so far
  up,        \* the process runs
  lock,      \* the owner of _lock
  data,      \* _data
  before,    \* what the owner of the lock puts back on failure
  attempt,   \* _reload_attempt_signature
  pc,        \* where each loader stands
  seen,      \* the signature each loader holds
  got,       \* the parsed document each loader holds
  saving,    \* where the edit stands
  accepted,  \* history: edits that were reported as done
  rejected,  \* history: edits that were reported as failed
  missed,    \* history: the file was stamped as seen with something else loaded
  overtaken  \* history: a load put another document over an accepted edit

loadVars == <<pc, seen, got>>
historyVars == <<accepted, rejected, missed, overtaken>>
vars == <<file, clock, up, lock, data, before, attempt, loadVars, saving,
          historyVars>>

(* A content is a version and a kind.  "good" and "edited" documents, one  *)
(* of another program and one of an edit, and an "empty" one are valid;    *)
(* "broken" does not parse, "misshapen" does and fails to normalise, and   *)
(* so does what was "imported"; "torn" is half a document.                 *)
Kinds == {"good", "edited", "empty", "broken", "misshapen", "imported", "torn",
          "absent"}
Content == [ver : 0 .. MaxVersion, kind : Kinds]
Document == {c \in Content : c.kind # "absent"}
Valid == {"good", "edited", "empty"}
Misshapen == {"misshapen", "imported"}
Unparsable == {"broken", "torn"}

Fresh(k) == [ver |-> clock + 1, kind |-> k]
Absent == [ver |-> 0, kind |-> "absent"]
Defaults == [ver |-> 0, kind |-> "empty"]

(* _stat_signature: every write leaves another time stamp.                 *)
Signature == file.ver

(* load of an absent or empty file yields an empty document.               *)
Parsed == IF file = Absent THEN Defaults ELSE file

At(l, from) == up /\ pc[l] = from
Goto(l, to) == pc' = [pc EXCEPT ![l] = to]

(* The thread ends, and its variables with it.                             *)
Done(l) ==
  /\ pc' = [pc EXCEPT ![l] = "idle"]
  /\ seen' = [seen EXCEPT ![l] = 0]
  /\ got' = [got EXCEPT ![l] = Defaults]

(* Slip: only readers of the lock wait for it.                             *)
LockFree_Ignored == lock \notin Loader

LockFree == lock = None

(* Slip: an early return with the lock held.                               *)
Unlock_Forgotten == UNCHANGED lock /\ before' = Defaults

Unlock == lock' = None /\ before' = Defaults

-----------------------------------------------------------------------------
(* reload_if_changed: the signature that was tried last.                   *)
Peek(l) ==
  /\ l = Watcher /\ At(l, "idle") /\ LockFree
  /\ seen' = [seen EXCEPT ![l] = attempt]
  /\ Goto(l, "comparing")
  /\ UNCHANGED <<file, clock, up, lock, data, before, attempt, got, saving,
                 historyVars>>

(* The signature of the file, outside of the lock.                         *)
Compare(l) ==
  /\ At(l, "comparing")
  /\ IF Signature = seen[l] \/ file = Absent THEN Done(l)
     ELSE /\ Goto(l, "marking") /\ seen' = [seen EXCEPT ![l] = Signature]
          /\ UNCHANGED got
  /\ UNCHANGED <<file, clock, up, lock, data, before, attempt, saving,
                 historyVars>>

Mark(l) ==
  /\ At(l, "marking") /\ LockFree
  /\ attempt' = seen[l]
  /\ Goto(l, "reading")
  /\ UNCHANGED <<file, clock, up, lock, data, before, seen, got, saving,
                 historyVars>>

(* admin_reload, in a thread of its own.                                   *)
Button(l) ==
  /\ l # Watcher /\ At(l, "idle")
  /\ Goto(l, "reading")
  /\ UNCHANGED <<file, clock, up, lock, data, before, attempt, seen, got,
                 saving, historyVars>>

(* load reads and parses before it takes the lock.                         *)
Read(l) ==
  /\ At(l, "reading")
  /\ file.kind \notin Unparsable
  /\ got' = [got EXCEPT ![l] = Parsed]
  /\ Goto(l, "committing")
  /\ UNCHANGED <<file, clock, up, lock, data, before, attempt, seen, saving,
                 historyVars>>

(* The file cannot be parsed, or cannot be read for the moment.            *)
ReadFails(l) ==
  /\ At(l, "reading")
  /\ \/ file.kind \in Unparsable /\ UNCHANGED missed
     \/ "read" \in Faults /\ missed' = (missed \/ l = Watcher)
  /\ Done(l)
  /\ UNCHANGED <<file, clock, up, lock, data, before, attempt, saving, accepted,
                 rejected, overtaken>>

(* The document is in place and not yet normalised.                        *)
Commit(l) ==
  /\ At(l, "committing") /\ LockFree
  /\ lock' = l
  /\ before' = data
  /\ data' = got[l]
  /\ Goto(l, "normalising")
  /\ UNCHANGED <<file, clock, up, attempt, seen, got, saving, historyVars>>

(* The signature is taken now, whatever was read before: an edit that was  *)
(* saved since is in the file, counts as seen, and is not in memory.       *)
Normalised(l) ==
  /\ At(l, "normalising") /\ data.kind \in Valid
  /\ attempt' = Signature
  /\ missed' = (data # Parsed)
  /\ overtaken' = (file.ver \in accepted /\ data # file)
  /\ Unlock /\ Done(l)
  /\ UNCHANGED <<file, clock, up, data, saving, accepted, rejected>>

(* Slip: an invalid shape stays in place.                                  *)
PutBack_Not == UNCHANGED data

PutBack == data' = before

RollBack(l) ==
  /\ At(l, "normalising") /\ data.kind \notin Valid
  /\ PutBack
  /\ Unlock /\ Done(l)
  /\ UNCHANGED <<file, clock, up, attempt, saving, historyVars>>

-----------------------------------------------------------------------------
(* edit: a changed copy takes the place of the data and save begins.  The  *)
(* forms keep it valid, import_config merges whatever it is given.  A      *)
(* handler that raises before that leaves everything as it was.            *)
BeginEdit(k) ==
  /\ up /\ LockFree /\ clock < MaxVersion
  /\ lock' = Editor
  /\ before' = data
  /\ data' = Fresh(k)
  /\ clock' = clock + 1
  /\ saving' = "writing"
  /\ UNCHANGED <<file, up, attempt, loadVars, historyVars>>

(* Slip: the file itself is written.                                       *)
WriteTemporary_InPlace == file' = [ver |-> data.ver, kind |-> "torn"]

WriteTemporary == UNCHANGED file

(* The temporary file is complete and on the disk.                         *)
Write ==
  /\ saving = "writing"
  /\ WriteTemporary
  /\ saving' = "copying"
  /\ UNCHANGED <<clock, up, lock, data, before, attempt, loadVars, historyVars>>

(* The file is parsed for a backup copy, if there is one.                  *)
BackUp ==
  /\ saving = "copying"
  /\ file.kind \notin Unparsable
  /\ saving' = "replacing"
  /\ UNCHANGED <<file, clock, up, lock, data, before, attempt, loadVars,
                 historyVars>>

Replace ==
  /\ saving = "replacing"
  /\ file' = data
  /\ saving' = "stamping"
  /\ UNCHANGED <<clock, up, lock, data, before, attempt, loadVars, historyVars>>

(* Old backups are gone, the signature is taken.                           *)
Stamp ==
  /\ saving = "stamping"
  /\ attempt' = Signature
  /\ missed' = (data # Parsed)
  /\ accepted' = accepted \cup {data.ver}
  /\ overtaken' = FALSE
  /\ saving' = "idle" /\ Unlock
  /\ UNCHANGED <<file, clock, up, data, loadVars, rejected>>

AbortEdit == data' = before /\ UNCHANGED attempt

(* A step of save fails: before the replacement, where the old or the new  *)
(* document may have the wrong shape for the removal of keys, or in the    *)
(* cleanup of backups, when the file is there already.                     *)
EditFails ==
  /\ \/ saving \in {"writing", "copying", "replacing"} /\ "save" \in Faults
     \/ saving = "writing" /\ data.kind \in Misshapen
     \/ saving = "copying" /\ file.kind \in Unparsable \cup Misshapen
     \/ saving = "stamping" /\ "prune" \in Faults
  /\ AbortEdit
  /\ rejected' =
       IF saving = "stamping" THEN rejected ELSE rejected \cup {data.ver}
  /\ saving' = "idle" /\ Unlock
  /\ UNCHANGED <<file, clock, up, loadVars, accepted, missed, overtaken>>

-----------------------------------------------------------------------------
(* Another program writes the file, or truncates it before it does.        *)
OtherWrites(k) ==
  /\ clock < MaxVersion
  /\ file' = Fresh(k)
  /\ clock' = clock + 1
  /\ UNCHANGED <<up, lock, data, before, attempt, loadVars, saving,
                 historyVars>>

OtherRemoves ==
  /\ file # Absent
  /\ file' = Absent
  /\ UNCHANGED <<clock, up, lock, data, before, attempt, loadVars, saving,
                 historyVars>>

Crash ==
  /\ up
  /\ up' = FALSE
  /\ Unlock /\ saving' = "idle"
  /\ data' = Defaults /\ attempt' = 0 /\ missed' = FALSE /\ overtaken' = FALSE
  /\ pc' = [l \in Loader |-> "idle"]
  /\ seen' = [l \in Loader |-> 0]
  /\ got' = [l \in Loader |-> Defaults]
  /\ UNCHANGED <<file, clock, accepted, rejected>>

(* Config(): a start loads the file or fails.                              *)
Start ==
  /\ ~up /\ Parsed.kind \in Valid
  /\ up' = TRUE
  /\ data' = Parsed
  /\ attempt' = Signature
  /\ missed' = FALSE /\ overtaken' = FALSE
  /\ UNCHANGED <<file, clock, lock, before, loadVars, saving, accepted,
                 rejected>>

-----------------------------------------------------------------------------
Init ==
  /\ file \in {Absent, [ver |-> 1, kind |-> "good"]}
  /\ clock = 1
  /\ up = FALSE
  /\ lock = None /\ data = Defaults /\ before = Defaults
  /\ attempt = 0
  /\ pc = [l \in Loader |-> "idle"]
  /\ seen = [l \in Loader |-> 0]
  /\ got = [l \in Loader |-> Defaults]
  /\ saving = "idle"
  /\ accepted = {} /\ rejected = {} /\ missed = FALSE /\ overtaken = FALSE

LoadStep(l) ==
  \/ Peek(l) \/ Compare(l) \/ Mark(l) \/ Button(l)
  \/ Read(l) \/ ReadFails(l) \/ Commit(l) \/ Normalised(l) \/ RollBack(l)

SaveStep == Write \/ BackUp \/ Replace \/ Stamp \/ EditFails

OtherStep ==
  \/ \E k \in {"good", "empty", "broken", "misshapen"} : OtherWrites(k)
  \/ OtherRemoves

Next ==
  \/ \E l \in Loader : LoadStep(l)
  \/ \E k \in {"edited", "imported"} : BeginEdit(k)
  \/ SaveStep
  \/ OtherStep
  \/ Crash \/ Start

Spec == Init /\ [][Next]_vars

(* The watcher polls for ever, threads run and get the lock in the end.    *)
(* Nobody needs to edit, press the button, write or start the process.     *)
Fairness ==
  /\ SF_vars(Peek(Watcher)) /\ SF_vars(Mark(Watcher))
  /\ WF_vars(Compare(Watcher))
  /\ \A l \in Loader :
       /\ WF_vars(Read(l) \/ ReadFails(l))
       /\ SF_vars(Commit(l))
       /\ WF_vars(Normalised(l) \/ RollBack(l))
  /\ WF_vars(SaveStep)

FairSpec == Spec /\ Fairness

-----------------------------------------------------------------------------
TypeOK ==
  /\ file \in Document \cup {Absent} /\ data \in Document /\ before \in Document
  /\ clock \in 0 .. MaxVersion
  /\ up \in BOOLEAN /\ missed \in BOOLEAN /\ overtaken \in BOOLEAN
  /\ lock \in Loader \cup {Editor, None}
  /\ attempt \in 0 .. MaxVersion
  /\ pc \in [Loader -> {"idle", "comparing", "marking", "reading", "committing",
                        "normalising"}]
  /\ seen \in [Loader -> 0 .. MaxVersion]
  /\ got \in [Loader -> Document]
  /\ saving \in {"idle", "writing", "copying", "replacing", "stamping"}
  /\ accepted \subseteq 0 .. MaxVersion /\ rejected \subseteq 0 .. MaxVersion

(* "Keep the last valid configuration" (CHANGELOG.md:63): whoever honours  *)
(* the lock finds a valid configuration, or the last import, whatever      *)
(* other programs leave in the file.                                       *)
LastValid == up /\ lock \notin Loader => data.kind \in Valid \cup {"imported"}

(* The same of edits: "Normalization must succeed before the new state is  *)
(* committed" (config.py:150). The code does not keep this one: an import  *)
(* is committed as it came (admin_api.py:1362).                            *)
CommittedIsValid == up /\ lock = None => data.kind \in Valid

(* An edit that was reported as failed before the file was replaced is     *)
(* nowhere: not in memory, not in the file, not on its way from there.     *)
RejectedIsGone ==
  \A v \in rejected :
    data.ver # v /\ file.ver # v /\ \A l \in Loader : got[l].ver # v

(* A file that counts as seen is served: the watcher skips nothing but     *)
(* what went wrong at the moment of the stamp itself.                      *)
SeenIsServed ==
  up /\ lock = None /\ pc[Watcher] \notin {"reading", "committing"}
    /\ attempt = Signature /\ file.kind \in {"good", "edited"}
  => data = file \/ missed

(* The same without exception: reload_if_changed loads a file that another *)
(* program changed (config.py:161). The code does not keep this one.       *)
ChangeIsServed ==
  up /\ lock = None /\ pc[Watcher] \notin {"reading", "committing"}
    /\ attempt = Signature /\ file.kind \in {"good", "edited"}
  => data = file

(* An edit overtakes an accepted one: another takes its place in the file. *)
ReplacesAccepted ==
  saving = "replacing" /\ saving' = "stamping" /\ file.ver \in accepted

(* A later edit loses an accepted one in one way alone: a load that had    *)
(* read another document put it in memory over the accepted edit.  Without *)
(* that, what takes its place in the file was made from it, whatever       *)
(* edits, loads and writes failed or crashed before, and whatever          *)
(* signature was wrong.                                                    *)
LostToLoadsOnly == [][ReplacesAccepted => before = file \/ overtaken]_vars

(* The same without exception: the handlers edit in "Config's atomic       *)
(* transaction" (admin_api.py:51), and after a save the file counts as     *)
(* seen and what was saved is in memory (test_stability_upgrades.py:110).  *)
(* The code does not keep this one: load reads before it takes the lock.   *)
EditsKept == [][ReplacesAccepted => before = file]_vars

(* A crash at any moment of a save leaves a whole file to start with.      *)
CrashLeavesWhole == ~up => file.kind # "torn"

(* A valid file that stays is served in the end, although the watcher met  *)
(* broken ones before, the lock is shared with edits and the button, and   *)
(* an edit may have failed after it replaced the file.                     *)
ChangesArrive ==
  \A v \in 1 .. MaxVersion :
    (up /\ file.ver = v /\ file.kind \in {"good", "edited"})
      ~> (data.ver = v \/ file.ver # v \/ missed \/ ~up)

(* What readers find in memory is valid and is what the watcher believes.    *)
MemoryServes == TypeOK /\ LastValid /\ SeenIsServed

(* An edit that failed, or a process that died, leaves nothing half done.    *)
NoHalfEdit == RejectedIsGone /\ CrashLeavesWhole

=============================================================================
