----------------------------- MODULE MCHarvest -----------------------------
(* Small instances of Harvest for TLC. *)
EXTENDS Harvest

\* Two connectors of one agent, both of which may tell of "k1".
MCConnectors == {"notes", "chats"}
MCAgentOf == [notes |-> "agent", chats |-> "agent"]
MCCharged == [agent |-> "notes"]
MCKind == [notes |-> "follow", chats |-> "session"]
MCHarvesters == {"timer", "hand"}
MCTexts == {"k1", "k2"}
\* The notes hold a gold pack, and one fact more than a scan may have.
MCEntries ==
  [notes |-> {<<"link", "open", "echo", "close", "link", "k2">>}, chats |-> {<<"k1">>}]
MCSiblings == {"k1", "pack", "missing"}
=============================================================================
