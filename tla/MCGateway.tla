----------------------------- MODULE MCGateway -----------------------------
(* Instances of Gateway for TLC.  The lamp starts dark and what a message  *)
(* renders to is nothing: both are Announcer's business, every message     *)
(* here is only prepared, and no step of the servers looks at them.        *)
EXTENDS Gateway

CONSTANTS post, tool, ntfy, sound, home

MCNothing == {}
MCNumber == [r \in {} |-> -1]
MCIps == {home}

\* A message posted over HTTP, a random sound asked for over MCP, both from
\* one address, and a message from ntfy.
MCSources == {post, sound, ntfy}
MCCalls == {post, sound}

\* For the reasons of drops: the same with a text sent by an MCP tool.
MCTexts == {post, tool, ntfy}
MCPublishing == {post, tool}

MCIpOf == [c \in Calls |-> home]
MCVia == [c \in Calls |-> IF c = post THEN "http" ELSE "mcp"]
MCKind == [c \in Calls |-> IF c = sound THEN "sound" ELSE "publish"]

MCMayFail ==
    [c \in Calls |->
        CASE c = post -> {{}, {"tooLarge"}, {"stalls"}}
          [] c = tool -> {{}}
          [] c = sound -> {{}, {"nothing"}, {"unauthorized"}}]

Dark == GInit /\ lamp = "off"

MCSpec == Dark /\ [][GNext /\ left' = 0]_gvars
MCFairSpec == MCSpec /\ GFairness
=============================================================================
