--------------------------- MODULE MCServerPower ---------------------------
(* Small instances of ServerPower for TLC. *)
EXTENDS ServerPower, TLC

CONSTANTS r1, r2, h1, s1

TwoReqs == {r1, r2}
OneHandler == {h1}
NoHandlers == {}
OneReader == {s1}
NoContainer == {"absent"}
AnyContainer == Containers
AllStopTypes == {"signal", "command", "stop"}
CommandStop == {"command"}
\* A restart runs all of a stop.
RestartAndBackground == {"start", "restart", "kill", "background"}
\* A background stop is a stop without the lock: power_safety has it.
AllButBackground == AllActions \ {"background"}

\* Requests, handlers and readers are interchangeable.
Symmetric == Permutations(Reqs) \cup Permutations(Handlers) \cup Permutations(Readers)
=============================================================================
