------------------------------- MODULE MCParts -------------------------------
(* Small instances of the components that stand alone.  They share nothing,  *)
(* so one run checks them side by side: `moves`, chosen at the start, is the *)
(* component that takes steps, and the others stay where they began.         *)
EXTENDS StreamTranslator, UpstreamClients, ContextCache, CatalogSnapshot,
        UsageStats, MCCodexSwitch, ToolHistory, MCSseFraming,
        BridgeSupervisor

VARIABLE moves

partsVars == <<moves, translatorVars, clientsVars, cacheVars, catalogVars, usageVars,
               codexVars, contextVars, framingVars, vars>>

SmallPieces ==
    {<<"<">>, <<"<", "o">>, <<"o", ">">>, <<">", "x">>, <<"<", "o", ">">>,
     <<"<", "c">>, <<"x", "<", "c", ">", "x">>}

(* Two calls and what may become of them.                                    *)
Item(type, call, id, image) ==
    [type |-> type, call |-> call, id |-> id, image |-> image, n |-> 0]

SmallItems ==
    {Item("call", call, 0, FALSE) : call \in 1 .. 2}
      \cup {Item("output", call, 0, FALSE) : call \in 0 .. 2}
      \cup {Item("output", 1, 0, TRUE), Item("output", 2, 1, FALSE)}
      \cup {Item(type, 0, 0, FALSE) : type \in {"reasoning", "image_call", "user", "assistant"}}

(* Up to a renaming of requests and keys: all objects alike, or one apart.   *)
FirstKey == CHOOSE k \in Key : TRUE
Apart == CHOOSE o \in Object : TRUE
SmallKeys == {[o \in Object |-> IF o = Apart THEN k ELSE FirstKey] : k \in Key}

(* The processes of the supervisor are alike.                                *)
Symmetry == Permutations(Child)

PartsInit ==
    /\ moves \in {"translator", "clients", "cache", "catalog", "usage", "codex",
                 "history", "framing", "supervisor"}
    /\ FramingInit
    /\ moves # "framing" => stream = <<>>
    /\ TranslatorInit /\ ClientsInit /\ CacheInit /\ CatalogInit /\ UsageInit /\ CodexInit
    /\ HistoryInit /\ Init
    /\ moves # "supervisor" => ~wanted /\ other = "absent"
    /\ keyOf \in SmallKeys
    /\ moves # "clients" => keyOf[Apart] = FirstKey
    /\ moves # "codex" => toml = NoToml

TranslatorPart ==
    /\ moves = "translator" /\ TranslatorNext
    /\ UNCHANGED <<moves, clientsVars, cacheVars, catalogVars, usageVars, codexVars,
                  contextVars, framingVars, vars>>

ClientsPart ==
    /\ moves = "clients" /\ ClientsNext
    /\ UNCHANGED <<moves, translatorVars, cacheVars, catalogVars, usageVars, codexVars,
                  contextVars, framingVars, vars>>

CachePart ==
    /\ moves = "cache" /\ CacheNext
    /\ UNCHANGED <<moves, translatorVars, clientsVars, catalogVars, usageVars, codexVars,
                  contextVars, framingVars, vars>>

CatalogPart ==
    /\ moves = "catalog" /\ CatalogNext
    /\ UNCHANGED <<moves, translatorVars, clientsVars, cacheVars, usageVars, codexVars,
                  contextVars, framingVars, vars>>

UsagePart ==
    /\ moves = "usage" /\ UsageNext
    /\ UNCHANGED <<moves, translatorVars, clientsVars, cacheVars, catalogVars, codexVars,
                  contextVars, framingVars, vars>>

CodexPart ==
    /\ moves = "codex" /\ CodexNext
    /\ UNCHANGED <<moves, translatorVars, clientsVars, cacheVars, catalogVars, usageVars,
                  contextVars, framingVars, vars>>

HistoryPart ==
    /\ moves = "history" /\ HistoryNext
    /\ UNCHANGED <<moves, translatorVars, clientsVars, cacheVars, catalogVars, usageVars,
                  codexVars, framingVars, vars>>

FramingPart ==
    /\ moves = "framing" /\ FramingNext
    /\ UNCHANGED <<moves, translatorVars, clientsVars, cacheVars, catalogVars, usageVars,
                  codexVars, contextVars, vars>>

SupervisorPart ==
    /\ moves = "supervisor" /\ Next
    /\ UNCHANGED <<moves, translatorVars, clientsVars, cacheVars, catalogVars, usageVars,
                  codexVars, contextVars, framingVars>>

PartsNext ==
    \/ TranslatorPart \/ ClientsPart \/ CachePart \/ CatalogPart \/ UsagePart
    \/ CodexPart \/ HistoryPart \/ FramingPart \/ SupervisorPart

PartsSpec == PartsInit /\ [][PartsNext]_partsVars
=============================================================================
