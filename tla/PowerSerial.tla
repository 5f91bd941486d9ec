---------------------------- MODULE PowerSerial ----------------------------
(***************************************************************************)
(* What the power lock promises the rest of the daemon, without its         *)
(* implementation: power actions of a server are processed one at a time,   *)
(* and a server is only ever booted by the action being processed.  Actions *)
(* that do not take the lock (a kill that found it taken) do not appear.    *)
(***************************************************************************)
CONSTANT Threads

VARIABLES owner,     \* the thread processing a power action, if any
          booting    \* the thread in the boot path, if any

guard == <<owner, booting>>

GuardInit == owner = {} /\ booting = {}

\* A thread starts to process a power action.
Enter(t) == owner = {} /\ owner' = {t} /\ UNCHANGED booting

\* The action being processed boots the server.
BeginBoot(t) == owner = {t} /\ booting' = {t} /\ UNCHANGED owner

\* The action is over.
Leave(t) == owner = {t} /\ owner' = {} /\ booting' = {}

GuardNext == \E t \in Threads : Enter(t) \/ BeginBoot(t) \/ Leave(t)

GuardSpec == GuardInit /\ [][GuardNext]_guard
=============================================================================
