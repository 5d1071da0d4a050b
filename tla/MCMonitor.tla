----------------------------- MODULE MCMonitor -----------------------------
(* Small instances of Monitor: one market, the ways a subscription is owned. *)
EXTENDS Monitor

CONSTANTS k, c, x, m   \* a key's subscription, a chat's, the MCP tool's, the market

OneKey == {k}
OneChat == {c}
ChatAndTool == {c, x}
OneMarket == {m}

MCMarketOf == [s \in Subs |-> m]
MCOwner == [s \in Subs |-> CASE s = k -> "key" [] s = c -> "chat" [] s = x -> "mcp"]
=============================================================================
