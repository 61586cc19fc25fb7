---------------------------- MODULE MCCodexSwitch ----------------------------
(* Small instances of CodexSwitch: configurations with a table of the user,  *)
(* a provider table before or after it, and keys before any header.          *)
EXTENDS CodexSwitch

UserTable(noted) == <<Header("mcp", noted), KeyLine("command", "mine")>>
ProviderTable == <<Header("custom", FALSE), KeyLine("base_url", "old")>>

StartLines ==
    LET tables == {UserTable(noted) : noted \in {FALSE, NotedHeaders}}
    IN tables
       \cup {<<KeyLine("approval", "mine"), KeyLine("model_provider", "custom"),
               KeyLine("model_catalog_json", "mine")>>
             \o ProviderTable \o table : table \in tables}
       \cup {table \o ProviderTable \o <<Header("features", FALSE)>> : table \in tables}
=============================================================================
