------------------------- MODULE MCSessionRunManager -------------------------
(***************************************************************************)
(* Instances of the session run manager for TLC.  Sessions and groups are  *)
(* model values; each run of the model checker takes the requests of one   *)
(* kind of traffic.                                                        *)
(***************************************************************************)
EXTENDS SessionRunProperties, TLC

CONSTANTS a, b, g

Request(x, k, src, m, d) == [session |-> x, lane |-> k, source |-> src, mode |-> m, dedupe |-> d]

\* One session's own lane: user messages, steering, heartbeats.
ChatAndHeartbeat == {Request(a, a, "chat", "followup", FALSE), Request(a, a, "heartbeat", "collect", TRUE)}
ChatAndSteer == ChatAndHeartbeat \cup {Request(a, a, "chat", "steer", FALSE)}

\* The same with internal work, which may coalesce.
ChatTraffic == ChatAndSteer \cup {Request(a, a, "mission", "collect", FALSE)}

\* A swarm bucket: subagents of two child sessions share a lane.
SwarmTraffic == {Request(x, g, "subagent", "followup", FALSE) : x \in {a, b}}
=============================================================================
