----------------------------- MODULE MCIdentity -----------------------------
(* Two keys: one with its text and two spellings of its hexadecimal form,   *)
(* one whose only row may stop every apply.                                 *)
EXTENDS Identity

MCKeys == {"k", "l"}
MCIds == {"plain", "HEX", "hex", "lplain", "lhex"}
MCKeyOf == [id \in MCIds |-> IF id \in {"lplain", "lhex"} THEN "l" ELSE "k"]
MCRank == [id \in MCIds |-> CASE id = "plain" -> 1 [] id = "HEX" -> 2 [] id = "hex" -> 3
                              [] id = "lplain" -> 4 [] id = "lhex" -> 5]
MCHex == [k \in MCKeys |-> IF k = "k" THEN "hex" ELSE "lhex"]
MCPast ==
    [id \in MCIds |->
        CASE id = "plain" -> {"none", "draft", "reserved", "stranger", "legacy", "foreign",
                              "claim", "misnamed", "tracker", "other"}
          [] id = "HEX" -> {"none", "legacy"}
          [] id = "hex" -> {"none", "legacy", "claim", "indexed", "orphaned"}
          [] id = "lplain" -> {"stranger"}
          [] id = "lhex" -> {"none"}]
=============================================================================
