------------------------------ MODULE CodexSwitch ------------------------------
(* Switching Codex between the bridge and the official service               *)
(* (admin_api.py): config.toml, edited line by line, its backups, and the    *)
(* generated model catalog it names.  The handlers run one at a time; the    *)
(* configuration watcher writes the catalog from a thread of its own, the    *)
(* user and Codex edit config.toml whenever they like, and the process may   *)
(* die between any two steps.                                                *)
(*                                                                           *)
(* A line is a table header, with or without a comment after it, a key with  *)
(* its value, or a line of an array.  Blank lines and comments are left out. *)
EXTENDS Integers, SequencesExt

CONSTANTS NotedHeaders, \* whether user headers may carry a comment
          BackupLimit,  \* _CODEX_CONFIG_BACKUP_LIMIT
          UserConfigs,  \* lines a user may come with
          MaxEdits, MaxSwitches, MaxCodexStarts \* bounds of the run

TomlLine == [head : STRING, noted : BOOLEAN, key : STRING, value : STRING]

Header(s, noted) == [head |-> s, noted |-> noted, key |-> "none", value |-> "none"]
KeyLine(k, v) == [head |-> "none", noted |-> FALSE, key |-> k, value |-> v]

IsHeader(line) == line.head # "none"
Headers(lines) == {i \in 1..Len(lines) : IsHeader(lines[i])}

(* The lines before any header. *)
Top(lines) == {i \in 1..Len(lines) : \A h \in Headers(lines) : i < h}
TopLines(lines) == {lines[i] : i \in Top(lines)}

(* The line by which Codex is told of the generated catalog. *)
CatalogLine == KeyLine("model_catalog_json", "bridge")

BridgeSections == {"cnbridge", "custom", "network_proxy"}

(* What the user wrote: keys and tables that are no business of the bridge.  *)
OwnKeys == {"command", "trust", "approval"}
OwnHeads == {"mcp", "project"}
Own(line) == line.key \in OwnKeys \/ line.head \in OwnHeads

(* No table of the bridge holds a key of the user. *)
Separate(lines) ==
    \A h \in Headers(lines), i \in 1..Len(lines) :
        h < i /\ lines[h].head \in BridgeSections /\ lines[i].key \in OwnKeys =>
            \E g \in Headers(lines) : h < g /\ g <= i

(* Only a user's header may carry a comment, and then only if they may.      *)
Plain(lines) == \A i \in 1..Len(lines) : ~lines[i].noted

ASSUME CodexAssumption ==
    /\ NotedHeaders \in BOOLEAN
    /\ BackupLimit \in Nat \ {0}
    /\ MaxEdits \in Nat /\ MaxSwitches \in Nat /\ MaxCodexStarts \in Nat
    /\ \A lines \in UserConfigs :
          /\ lines \in Seq(TomlLine)
          /\ NotedHeaders \/ (Plain(lines) /\ Separate(lines))
          /\ CatalogLine \notin TopLines(lines)

-----------------------------------------------------------------------------
(* The small TOML writer. *)

EndFrom(lines, from) ==
    Min({i \in Headers(lines) : i >= from} \cup {Len(lines) + 1})

(* _section_range: first line and end; a comment on the header does not hide *)
(* the section.                                                              *)
SectionStart(lines, section) ==
    LET found == {i \in Headers(lines) : lines[i].head = section}
    IN IF section = "top" THEN 1 ELSE IF found = {} THEN 0 ELSE Min(found) + 1

KeyAt(lines, key, section) ==
    LET from == SectionStart(lines, section)
        found == {i \in from..(EndFrom(lines, from) - 1) : lines[i].key = key}
    IN IF from = 0 \/ found = {} THEN 0 ELSE Min(found)

SetKey(lines, key, value, section) ==
    LET from == SectionStart(lines, section)
        at == KeyAt(lines, key, section)
    IN IF from = 0 THEN lines \o <<Header(section, FALSE), KeyLine(key, value)>>
       ELSE IF at # 0 THEN ReplaceAt(lines, at, KeyLine(key, value))
       ELSE InsertAt(lines, EndFrom(lines, from), KeyLine(key, value))

RemoveKey(lines, key, section) ==
    LET at == KeyAt(lines, key, section)
    IN IF at = 0 THEN lines ELSE RemoveAt(lines, at)

(* _remove_toml_section: the header is a line that is the header and nothing *)
(* else, and the section ends at a line that begins with "[" and ends with   *)
(* "]": a header with a comment is neither.                                  *)
PlainHeader(line) == IsHeader(line) /\ ~line.noted

RemoveSection(lines, section) ==
    LET found == {i \in 1..Len(lines) : lines[i] = Header(section, FALSE)}
        at == Min(found)
        next == Min({i \in Headers(lines) : i > at /\ PlainHeader(lines[i])}
                       \cup {Len(lines) + 1})
    IN IF found = {} THEN lines
       ELSE SubSeq(lines, 1, at - 1) \o SubSeq(lines, next, Len(lines))

RemoveTop(lines, key) == RemoveKey(lines, key, "top")
SetTop(lines, key, value) == SetKey(lines, key, value, "top")

WithoutRouting(lines) ==
    LET direct   == RemoveTop(RemoveTop(lines, "model_provider"), "openai_base_url")
        unlisted == RemoveTop(direct, "model_catalog_json")
    IN RemoveTop(RemoveTop(unlisted, "model_limits"), "tool_output_token_limit")

WithoutProviders(lines) == RemoveSection(RemoveSection(lines, "cnbridge"), "custom")

EnsureModel(lines) ==
    IF KeyAt(lines, "model", "top") = 0 THEN SetTop(lines, "model", "default") ELSE lines

CustomLines(lines) ==
    LET routed  == SetTop(RemoveTop(lines, "model_provider"), "openai_base_url", "bridge")
        limited == SetTop(RemoveTop(EnsureModel(routed), "model_limits"),
                          "tool_output_token_limit", "bridge")
        named   == WithoutProviders(SetTop(limited, "model_catalog_json", "bridge"))
    IN RemoveSection(SetKey(named, "request_compression", "false", "features"),
                     "network_proxy")

MinimalConfig == <<>>

OfficialLines(config) ==
    LET direct == WithoutProviders(SetTop(WithoutRouting(config.lines), "model", "default"))
    IN IF ~config.valid THEN MinimalConfig
       ELSE RemoveSection(RemoveKey(direct, "request_compression", "features"),
                          "network_proxy")

-----------------------------------------------------------------------------
VARIABLES toml,       \* config.toml: [exists, valid, lines]
          backups,    \* copies of it, oldest first
          catalog,    \* whether the generated catalog exists
          switch,     \* the handler at work
          watcher,    \* the watcher's thread
          replaced,   \* history: the configuration replaced last
          edits, switches, codexStarts

codexBounds == <<edits, switches, codexStarts>>
codexVars == <<toml, backups, catalog, switch, watcher, replaced, codexBounds>>

NoToml == [exists |-> FALSE, valid |-> TRUE, lines |-> <<>>]
NoSwitch == [to |-> "none", step |-> "idle", read |-> NoToml, lines |-> <<>>]

CodexInit ==
    /\ toml \in {NoToml} \cup [exists : {TRUE}, valid : BOOLEAN, lines : UserConfigs]
    /\ backups = <<>> /\ catalog = FALSE
    /\ switch = NoSwitch /\ watcher = "idle"
    /\ replaced = NoToml
    /\ edits = 0 /\ switches = 0 /\ codexStarts = 0

-----------------------------------------------------------------------------
(* The handlers. *)

(* codex_switch_to_custom reads the lines first and may then spend a while   *)
(* with the Codex command line on the catalog.                               *)
SwitchToCustom ==
    /\ switch.step = "idle" /\ switches < MaxSwitches
    /\ switches' = switches + 1
    /\ switch' = [to |-> "custom", step |-> "catalog", read |-> toml, lines |-> toml.lines]
    /\ UNCHANGED <<toml, backups, catalog, watcher, replaced, edits, codexStarts>>

CatalogWritten ==
    /\ switch.step = "catalog"
    /\ catalog' = TRUE
    /\ switch' = [switch EXCEPT !.step = "write", !.lines = CustomLines(@)]
    /\ UNCHANGED <<toml, backups, watcher, replaced, codexBounds>>

CatalogFails ==
    /\ switch.step = "catalog"
    /\ switch' = NoSwitch
    /\ UNCHANGED <<toml, backups, catalog, watcher, replaced, codexBounds>>

SwitchToOfficial ==
    /\ switch.step = "idle" /\ switches < MaxSwitches
    /\ switches' = switches + 1
    /\ switch' = [to |-> "official", step |-> "write", read |-> toml,
                   lines |-> OfficialLines(toml)]
    /\ UNCHANGED <<toml, backups, catalog, watcher, replaced, edits, codexStarts>>

(* _write_toml_lines: nothing to do, or a copy of what is there now, then    *)
(* the replacement, then the oldest copies go.  Nobody else writes between   *)
(* the copy and the replacement.                                             *)
AfterWrite ==
    switch' = IF switch.to = "official" THEN [switch EXCEPT !.step = "unlink"] ELSE NoSwitch

WriteUnchanged ==
    /\ switch.step = "write" /\ toml.exists /\ toml.lines = switch.lines
    /\ AfterWrite
    /\ UNCHANGED <<toml, backups, catalog, watcher, replaced, codexBounds>>

KeepBackup ==
    /\ switch.step = "write" /\ toml.lines # switch.lines
    /\ backups' = IF toml.exists THEN Append(backups, toml) ELSE backups
    /\ switch' = [switch EXCEPT !.step = "replace"]
    /\ UNCHANGED <<toml, catalog, watcher, replaced, codexBounds>>

(* Slip: the copies are taken in the order of their age. *)
ReplaceToml_KeepsOldest ==
    /\ switch.step = "replace"
    /\ replaced' = toml
    /\ toml' = [exists |-> TRUE, lines |-> switch.lines,
                valid |-> toml.valid \/ switch.to = "official"]
    /\ backups' = IF Len(backups) <= BackupLimit THEN backups
                  ELSE SubSeq(backups, 1, BackupLimit)
    /\ AfterWrite
    /\ UNCHANGED <<catalog, watcher, codexBounds>>

ReplaceToml ==
    /\ switch.step = "replace"
    /\ replaced' = toml
    /\ toml' = [exists |-> TRUE, lines |-> switch.lines,
                valid |-> toml.valid \/ switch.to = "official"]
    /\ backups' = IF Len(backups) <= BackupLimit THEN backups
                  ELSE SubSeq(backups, Len(backups) - BackupLimit + 1, Len(backups))
    /\ AfterWrite
    /\ UNCHANGED <<catalog, watcher, codexBounds>>

(* The disk refuses the copy or the file: the handler ends with the error.   *)
WriteFails ==
    /\ switch.step \in {"write", "replace"}
    /\ switch' = NoSwitch
    /\ UNCHANGED <<toml, backups, catalog, watcher, replaced, codexBounds>>

(* The catalog goes after the configuration that named it; a failure is only *)
(* logged.                                                                   *)
UnlinkCatalog(ok) ==
    /\ switch.step = "unlink"
    /\ catalog' = (catalog /\ ~ok)
    /\ switch' = NoSwitch
    /\ UNCHANGED <<toml, backups, watcher, replaced, codexBounds>>

-----------------------------------------------------------------------------
(* The watcher's thread and the world. *)

NamesCatalog == KeyAt(toml.lines, "model_catalog_json", "top") # 0

(* _refresh_codex_model_catalog_if_active: whether it is active is asked     *)
(* before the catalog is computed.                                           *)
WatcherDecides ==
    /\ watcher = "idle" /\ (NamesCatalog \/ catalog)
    /\ watcher' = "writing"
    /\ UNCHANGED <<toml, backups, catalog, switch, replaced, codexBounds>>

WatcherWrites(ok) ==
    /\ watcher = "writing"
    /\ catalog' = (catalog \/ ok)
    /\ watcher' = "idle"
    /\ UNCHANGED <<toml, backups, switch, replaced, codexBounds>>

(* The user, or Codex, adds a table; or leaves the file broken. *)
EditToml(noted) ==
    /\ edits < MaxEdits /\ switch.step # "replace"
    /\ edits' = edits + 1
    /\ toml' = [exists |-> TRUE, valid |-> toml.valid,
                lines |-> toml.lines \o <<Header("project", noted), KeyLine("trust", "mine")>>]
    /\ UNCHANGED <<backups, catalog, switch, watcher, replaced, switches, codexStarts>>

BreakToml ==
    /\ edits < MaxEdits /\ switch.step # "replace" /\ toml.exists /\ toml.valid
    /\ edits' = edits + 1
    /\ toml' = [toml EXCEPT !.valid = FALSE]
    /\ UNCHANGED <<backups, catalog, switch, watcher, replaced, switches, codexStarts>>

RestartBridge ==
    /\ codexStarts < MaxCodexStarts
    /\ codexStarts' = codexStarts + 1
    /\ switch' = NoSwitch /\ watcher' = "idle"
    /\ UNCHANGED <<toml, backups, catalog, replaced, edits, switches>>

CodexNext ==
    \/ SwitchToCustom \/ CatalogWritten \/ CatalogFails \/ SwitchToOfficial
    \/ WriteUnchanged \/ KeepBackup \/ ReplaceToml \/ WriteFails
    \/ \E ok \in BOOLEAN : UnlinkCatalog(ok) \/ WatcherWrites(ok)
    \/ WatcherDecides
    \/ \E noted \in {FALSE, NotedHeaders} : EditToml(noted)
    \/ BreakToml \/ RestartBridge

CodexSpec == CodexInit /\ [][CodexNext]_codexVars

-----------------------------------------------------------------------------
(* Properties. *)

(* Codex is never told of a catalog that is not there: wherever the process  *)
(* died, whatever failed and whatever the watcher did meanwhile, if          *)
(* config.toml names the generated catalog, the catalog exists.              *)
CatalogBacked == CatalogLine \in TopLines(toml.lines) => catalog

(* "the writer keeps a complete backup before either replacement"            *)
(* (codex_switch_to_official): the configuration replaced last is among the  *)
(* backups, with what the user or Codex wrote while the handler was busy,    *)
(* and however many backups were taken.                                      *)
ReplacedKept == replaced.exists => \E i \in 1..Len(backups) : backups[i] = replaced

OwnLines(lines) ==
    LET own[n \in 0..Len(lines)] ==
            IF n = 0 THEN <<>>
            ELSE IF Own(lines[n]) THEN Append(own[n - 1], lines[n]) ELSE own[n - 1]
    IN own[Len(lines)]

(* "A valid config is edited surgically so MCP servers, projects, plugins    *)
(* and other user-owned sections survive the switch." (admin_api.py,         *)
(* codex_switch_to_official): what the user wrote in the configuration that  *)
(* the handler read is in the one it writes, in its order.                   *)
SectionsSurvive ==
    switch.to = "official" /\ switch.read.valid =>
        OwnLines(switch.lines) = OwnLines(switch.read.lines)

(* The parts of a switch that hold as long as headers are plain.             *)
SwitchSound == CatalogBacked /\ ReplacedKept /\ (~NotedHeaders => SectionsSurvive)

=============================================================================
