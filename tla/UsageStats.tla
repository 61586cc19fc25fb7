------------------------------ MODULE UsageStats ------------------------------
(* Statistics and audit log of finished requests (stats.py, UsageStore and   *)
(* StatsCollector): counters in memory, and in the usage directory, for each *)
(* day, an access log with its rotated backups and a usage file, and one     *)
(* usage file for all days.  A record is written step by step, each step may *)
(* fail, and the process may die between any two.                            *)
(*                                                                           *)
(* A line of an access log is its number among the lines ever appended for   *)
(* its day, a log the set of its lines; a usage file is its number of        *)
(* requests for each client.                                                 *)
EXTENDS Integers, FiniteSets, Functions

CONSTANTS Ips,         \* clients
          LastDay,     \* days 1..LastDay
          Retention,   \* _USAGE_RETENTION_DAYS
          Backups,     \* _ACCESS_LOG_BACKUP_COUNT
          LogLines,    \* lines that fit _ACCESS_LOG_MAX_BYTES
          RecentLines, \* max_logs of the collector
          MaxRecords   \* bound on the requests of the run

ASSUME UsageAssumption ==
    /\ IsFiniteSet(Ips) /\ Ips # {}
    /\ LastDay \in Nat \ {0} /\ Retention \in Nat \ {0} /\ Backups \in Nat \ {0}
    /\ LogLines \in Nat \ {0} /\ RecentLines \in Nat \ {0} /\ MaxRecords \in Nat

Days == 1..LastDay

VARIABLES today,      \* the clock
          accessLogs, \* accessLogs[d][0] is the log of day d, [i] its backup .i
          dayUsage,   \* usage-<day>.json
          totalUsage, \* usage-total.json
          recorder,   \* the record in the making
          counted,    \* StatsCollector: [requests, recent] since start or clear
          cleanedDay, \* _last_cleanup_day
          appended,   \* history: lines ever appended, by day
          recorded    \* requests so far

usageFiles == <<accessLogs, dayUsage, totalUsage>>
usageVars == <<today, usageFiles, recorder, counted, cleanedDay, appended, recorded>>

Unused == [i \in Ips |-> 0]
NoFile == {}
IdleRecorder == [step |-> "idle", at |-> 0, day |-> 1, ip |-> CHOOSE i \in Ips : TRUE]
NothingCounted == [requests |-> 0, recent |-> 0]

UsageInit ==
    /\ today = 1
    /\ accessLogs = [d \in Days |-> [i \in 0..Backups |-> NoFile]]
    /\ dayUsage = [d \in Days |-> Unused] /\ totalUsage = Unused
    /\ recorder = IdleRecorder /\ counted = NothingCounted /\ cleanedDay = 0
    /\ appended = [d \in Days |-> 0] /\ recorded = 0

-----------------------------------------------------------------------------
(* StatsCollector.record and UsageStore.record, under one lock. *)

(* A request is filed under the day it began. *)
RecordRequest(d, ip) ==
    /\ recorder.step = "idle" /\ recorded < MaxRecords
    /\ d \in {today, today - 1} \cap Days
    /\ recorded' = recorded + 1
    /\ counted' = [requests |-> counted.requests + 1,
                   recent |-> IF counted.recent < RecentLines THEN counted.recent + 1
                              ELSE counted.recent]
    /\ recorder' = [step |-> IF Cardinality(accessLogs[d][0]) < LogLines THEN "append"
                             ELSE "unlink",
                    at |-> 0, day |-> d, ip |-> ip]
    /\ UNCHANGED <<today, usageFiles, cleanedDay, appended>>

Proceed(step) == recorder' = [recorder EXCEPT !.step = step]

(* _rotate_access_log: the oldest backup goes, the others move up by one. *)
UnlinkOldest ==
    /\ recorder.step = "unlink"
    /\ accessLogs' = [accessLogs EXCEPT ![recorder.day][Backups] = NoFile]
    /\ recorder' = [recorder EXCEPT !.step = "rotate", !.at = Backups - 1]
    /\ UNCHANGED <<today, dayUsage, totalUsage, counted, cleanedDay, appended, recorded>>

Moved(log, i) == [log EXCEPT ![i + 1] = log[i], ![i] = NoFile]

(* A backup that does not exist is passed over. *)
MoveUp(i) ==
    /\ recorder.step = "rotate" /\ recorder.at = i
    /\ accessLogs' = [accessLogs EXCEPT ![recorder.day] = IF @[i] = NoFile THEN @ ELSE Moved(@, i)]
    /\ recorder' = [recorder EXCEPT !.step = IF i = 0 THEN "append" ELSE @,
                                    !.at = IF i = 0 THEN 0 ELSE i - 1]
    /\ UNCHANGED <<today, dayUsage, totalUsage, counted, cleanedDay, appended, recorded>>

(* A line is written whole or, when the step fails, not at all. *)
AppendLine ==
    /\ recorder.step = "append"
    /\ appended' = [appended EXCEPT ![recorder.day] = @ + 1]
    /\ accessLogs' = [accessLogs EXCEPT ![recorder.day][0] = @ \cup {appended'[recorder.day]}]
    /\ Proceed("day")
    /\ UNCHANGED <<today, dayUsage, totalUsage, counted, cleanedDay, recorded>>

(* _increment_usage_file: what cannot be read counts from nothing; the file  *)
(* is replaced as a whole.                                                   *)
Incremented(usage, readable) ==
    [IF readable THEN usage ELSE Unused EXCEPT ![recorder.ip] = @ + 1]

CountDay(readable) ==
    /\ recorder.step = "day"
    /\ dayUsage' = [dayUsage EXCEPT ![recorder.day] = Incremented(@, readable)]
    /\ Proceed("total")
    /\ UNCHANGED <<today, accessLogs, totalUsage, counted, cleanedDay, appended, recorded>>

CountTotal(readable) ==
    /\ recorder.step = "total"
    /\ totalUsage' = Incremented(totalUsage, readable)
    /\ IF cleanedDay = recorder.day THEN recorder' = IdleRecorder ELSE Proceed("cleanup")
    /\ UNCHANGED <<today, accessLogs, dayUsage, counted, cleanedDay, appended, recorded>>

(* _cleanup_old_files, seen from the day of the record; a file that cannot   *)
(* be removed is passed over.                                                *)
Outdated(d) == d < recorder.day - (Retention - 1)

CleanUp(kept) ==
    /\ recorder.step = "cleanup"
    /\ kept \subseteq {d \in Days : Outdated(d)}
    /\ accessLogs' = [d \in Days |-> IF Outdated(d) /\ d \notin kept
                                     THEN [i \in 0..Backups |-> NoFile] ELSE accessLogs[d]]
    /\ dayUsage' = [d \in Days |-> IF Outdated(d) /\ d \notin kept THEN Unused ELSE dayUsage[d]]
    /\ cleanedDay' = recorder.day
    /\ recorder' = IdleRecorder
    /\ UNCHANGED <<today, totalUsage, counted, appended, recorded>>

(* Slip: a failure of the log does not keep the request from being counted. *)
RecordFails_StillCounts ==
    /\ recorder.step # "idle"
    /\ recorder' = IF recorder.step \in {"unlink", "rotate", "append"}
                   THEN [recorder EXCEPT !.step = "day"] ELSE IdleRecorder
    /\ UNCHANGED <<today, usageFiles, counted, cleanedDay, appended, recorded>>

(* An exception ends the record where it is, and is only logged. *)
RecordFails ==
    /\ recorder.step # "idle"
    /\ recorder' = IdleRecorder
    /\ UNCHANGED <<today, usageFiles, counted, cleanedDay, appended, recorded>>

-----------------------------------------------------------------------------
ClearLogs ==
    /\ recorder.step = "idle"
    /\ counted' = NothingCounted
    /\ UNCHANGED <<today, usageFiles, recorder, cleanedDay, appended, recorded>>

NextDay ==
    /\ today < LastDay
    /\ today' = today + 1
    /\ UNCHANGED <<usageFiles, recorder, counted, cleanedDay, appended, recorded>>

(* The process dies, in the middle of a record or not, and starts again. *)
RestartStats ==
    /\ recorder' = IdleRecorder /\ counted' = NothingCounted /\ cleanedDay' = 0
    /\ UNCHANGED <<today, usageFiles, appended, recorded>>

UsageNext ==
    \/ \E d \in Days, ip \in Ips : RecordRequest(d, ip)
    \/ UnlinkOldest
    \/ \E i \in 0..(Backups - 1) : MoveUp(i)
    \/ AppendLine
    \/ \E readable \in BOOLEAN : CountDay(readable) \/ CountTotal(readable)
    \/ \E kept \in SUBSET Days : CleanUp(kept)
    \/ RecordFails \/ ClearLogs \/ NextDay \/ RestartStats

UsageSpec == UsageInit /\ [][UsageNext]_usageVars

-----------------------------------------------------------------------------
(* Properties. *)

UsageTypeOK ==
    /\ today \in Days /\ recorded \in 0..MaxRecords
    /\ accessLogs \in [Days -> [0..Backups -> SUBSET (1..MaxRecords)]]
    /\ dayUsage \in [Days -> [Ips -> 0..MaxRecords]] /\ totalUsage \in [Ips -> 0..MaxRecords]
    /\ recorder \in [step : {"idle", "unlink", "rotate", "append", "day", "total", "cleanup"},
                     at : 0..Backups, day : Days, ip : Ips]
    /\ counted \in [requests : 0..MaxRecords, recent : 0..RecentLines]
    /\ cleanedDay \in 0..LastDay
    /\ appended \in [Days -> 0..MaxRecords]

Lines(d) == UNION {accessLogs[d][i] : i \in 0..Backups}

(* Within the retention window nothing but the oldest lines of a day is ever *)
(* lost, and the files stay in order: the log and its backups hold an        *)
(* unbroken run of lines up to the last one appended, older files older      *)
(* lines, wherever a rotation failed or the process died.                    *)
LogUnbroken ==
    \A d \in Days : d > today - Retention =>
        /\ \E n \in 1..(appended[d] + 1) : Lines(d) = n..appended[d]
        /\ appended[d] > 0 => appended[d] \in Lines(d)
        /\ \A i, j \in 0..Backups : i < j =>
              \A x \in accessLogs[d][i], y \in accessLogs[d][j] : y < x

(* No count without its line: a usage file never counts a request of which   *)
(* the audit log was not written, whatever could not be read or written and  *)
(* wherever the process died.                                                *)
CountsBacked ==
    /\ \A d \in Days : FoldFunction(+, 0, dayUsage[d]) <= appended[d]
    /\ FoldFunction(+, 0, totalUsage) <= FoldFunction(+, 0, appended)

(* What the usage directory says, it can stand for.                          *)
UsageHonest == UsageTypeOK /\ LogUnbroken /\ CountsBacked

=============================================================================
