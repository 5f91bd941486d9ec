---------------------------- MODULE Connections ----------------------------
(* The websockets and SFTP sessions of one user to one server, and what     *)
(* ends them: the user is deauthorised, the server suspended or deleted.     *)
(* Every message of a websocket is handled in a goroutine of its own, and    *)
(* checks and acts in separate steps.  Times are half seconds: tokens carry  *)
(* the second they were issued in, denials the exact time.  A behaviour has  *)
(* one denial (a bound).                                                     *)
EXTENDS Integers, FiniteSets, FiniteSetsExt

CONSTANTS
    Conns,          \* websocket connections (a bound)
    Inbound,        \* messages of one connection handled at once (a bound)
    Sessions,       \* SFTP sessions (a bound)
    MaxSockets,     \* the limit on the websockets of a server
    MaxTime         \* half seconds (a bound)

ASSUME ConnectionsAssumption == MaxSockets \in Nat \ {0} /\ MaxTime \in Nat

None == -1
Times == 0..MaxTime

VARIABLES
    may,        \* what the Panel asks for in this behaviour (a bound)
    now,
    denied,     \* userDenylist: when the user was last denied
    deauth,     \* where postDeauthorizeUser is
    suspended,  \* the server's suspended flag
    sync,       \* where Server.Sync is
    deleted,    \* the server's context is cancelled
    conn,       \* where getServerWebsocket of each connection is
    done,       \* connections whose context is cancelled
    cut,        \* connections that are closed
    bag,        \* the WebsocketBag
    jwt,        \* the token of each connection: when it was issued
    msg,        \* the messages that are handled
    listens,    \* calls of listenForServerEvents that run for each connection
    session,    \* where each SFTP session is
    held,       \* the context each SFTP session holds
    current,    \* the context of the user in the server's ContextBag
    cancelled,  \* contexts of the ContextBag that are cancelled
    \* history
    called,     \* when the denial that is being handled was requested
    answered,   \* the last denial whose request has been answered
    misused,    \* a message that came after an answer has acted on an older token
    caught      \* SFTP sessions that were served when their user was cancelled

revokers == <<may, now, denied, deauth, suspended, sync, deleted, called, answered>>
sockets == <<conn, done, cut, bag, jwt, msg, listens, misused>>
sftp == <<session, held, current, cancelled, caught>>
connVars == <<revokers, sockets, sftp>>

Idle == [pc |-> "idle", tok |-> None, first |-> FALSE, after |-> None]

ConnTypeOK ==
    /\ may \subseteq {"deny", "sync", "delete"} /\ now \in Times
    /\ denied \in Times \cup {None} /\ called \in Times \cup {None} /\ answered \in Times \cup {None}
    /\ deauth \in {"idle", "sockets", "sftp"} /\ sync \in {"idle", "sockets"}
    /\ suspended \in BOOLEAN /\ deleted \in BOOLEAN /\ misused \in BOOLEAN
    /\ conn \in [Conns -> {"idle", "push", "check", "read", "return", "gone"}]
    /\ done \subseteq Conns /\ cut \subseteq Conns /\ bag \subseteq Conns
    /\ jwt \in [Conns -> Times \cup {None}]
    /\ msg \in [Conns -> [Inbound ->
         [pc : {"idle", "valid", "act", "auth", "set"},
          tok : Times \cup {None}, first : BOOLEAN, after : Times \cup {None}]]]
    /\ listens \in [Conns -> 0..Cardinality(Inbound)]
    /\ session \in [Sessions -> {"idle", "handle", "serve", "closed"}]
    /\ held \in [Sessions -> Nat] /\ current \in Nat /\ cancelled \subseteq Nat
    /\ caught \subseteq Sessions

ConnInit(cs, ss, asked) ==
    /\ may = asked /\ now = 0 /\ denied = None /\ deauth = "idle" /\ suspended = FALSE /\ sync = "idle"
    /\ deleted = FALSE /\ called = None /\ answered = None
    /\ conn = [c \in Conns |-> IF c \in cs THEN "idle" ELSE "gone"]
    /\ done = {} /\ cut = {} /\ bag = {} /\ misused = FALSE
    /\ jwt = [c \in Conns |-> None] /\ listens = [c \in Conns |-> 0]
    /\ msg = [c \in Conns |-> [i \in Inbound |-> Idle]]
    /\ session = [s \in Sessions |-> IF s \in ss THEN "idle" ELSE "closed"]
    /\ held = [s \in Sessions |-> 0] /\ current = 0 /\ cancelled = {} /\ caught = {}

\* WebsocketPayload.Denylisted of a token issued at t.
Denylisted(t) == t - (t % 2) < denied

-----------------------------------------------------------------------------
(* What ends connections.                                                   *)

\* Time matters only between a token and a denial.
Tick ==
    /\ "deny" \in may /\ now < MaxTime /\ now' = now + 1
    /\ UNCHANGED <<may, denied, deauth, suspended, sync, deleted, called, answered, sockets, sftp>>

\* Faulty variant of Deny.
DenyWholeSeconds ==
    /\ "deny" \in may /\ deauth = "idle" /\ denied = None
    /\ denied' = now - (now % 2) /\ called' = now /\ deauth' = "sockets"
    /\ UNCHANGED <<may, now, suspended, sync, deleted, answered, sockets, sftp>>

\* postDeauthorizeUser: the denylist, then the websockets, then the SFTP sessions.
Deny ==
    /\ "deny" \in may /\ deauth = "idle" /\ denied = None
    /\ denied' = now /\ called' = now /\ deauth' = "sockets"
    /\ UNCHANGED <<may, now, suspended, sync, deleted, answered, sockets, sftp>>

\* postServerDenyWSTokens denies the tokens of the user by their common id, and no more.
DenyJTI ==
    /\ "deny" \in may /\ deauth = "idle" /\ denied = None
    /\ denied' = now /\ answered' = now
    /\ UNCHANGED <<may, now, deauth, suspended, sync, deleted, called, sockets, sftp>>

\* WebsocketBag.CancelAll.
CancelAll ==
    /\ done' = done \cup bag /\ bag' = {}
    /\ UNCHANGED <<conn, cut, jwt, msg, listens, misused>>

DenySockets ==
    /\ deauth = "sockets" /\ deauth' = "sftp"
    /\ CancelAll
    /\ UNCHANGED <<may, now, denied, suspended, sync, deleted, called, answered, sftp>>

\* ContextBag.Cancel of the user, which also forgets the context.
CancelUser ==
    /\ cancelled' = IF current = 0 THEN cancelled ELSE cancelled \cup {current}
    /\ current' = 0
    /\ caught' = caught \cup {s \in Sessions : session[s] = "serve"}
    /\ UNCHANGED <<session, held>>

\* The request is answered.
DenySessions ==
    /\ deauth = "sftp" /\ deauth' = "idle"
    /\ answered' = called /\ called' = None
    /\ CancelUser
    /\ UNCHANGED <<may, now, denied, suspended, sync, deleted, sockets>>

\* Server.Sync takes the flag over from the Panel and then disconnects everyone.
Sync ==
    /\ "sync" \in may /\ ~deleted /\ sync = "idle"
    /\ suspended' = ~suspended
    /\ sync' = IF suspended' THEN "sockets" ELSE "idle"
    /\ UNCHANGED <<may, now, denied, deauth, deleted, called, answered, sockets, sftp>>

SyncSuspended ==
    /\ sync = "sockets" /\ sync' = "idle"
    /\ CancelAll /\ CancelUser
    /\ UNCHANGED <<may, now, denied, deauth, suspended, deleted, called, answered>>

\* CleanupForDestroy: the server's context, and the websockets it finds.
CleanupForDestroy ==
    /\ "delete" \in may /\ ~deleted /\ deleted' = TRUE
    /\ CancelAll
    /\ UNCHANGED <<may, now, denied, deauth, suspended, sync, called, answered, sftp>>

-----------------------------------------------------------------------------
(* getServerWebsocket.                                                      *)

GoTo(c, pc) == conn' = [conn EXCEPT ![c] = pc]

\* The limit, and the upgrade, which may fail.
Open(c) ==
    /\ ~deleted /\ conn[c] = "idle"
    /\ \/ Cardinality(bag) < MaxSockets /\ GoTo(c, "push")
       \/ GoTo(c, "gone")
    /\ UNCHANGED <<done, cut, bag, jwt, msg, listens, misused>>

\* Faulty variant of PushConn.
PushUnchecked(c) ==
    /\ conn[c] = "push"
    /\ bag' = bag \cup {c} /\ GoTo(c, "read")
    /\ UNCHANGED <<done, cut, jwt, msg, listens, misused>>

\* The connection enters the bag, and two goroutines watch its context and the server's.
PushConn(c) ==
    /\ conn[c] = "push"
    /\ bag' = bag \cup {c} /\ GoTo(c, "check")
    /\ UNCHANGED <<done, cut, jwt, msg, listens, misused>>

CheckSuspended(c) ==
    /\ conn[c] = "check"
    /\ GoTo(c, IF suspended THEN "return" ELSE "read")
    /\ UNCHANGED <<done, cut, bag, jwt, msg, listens, misused>>

\* A message starts a goroutine: a token that was issued at t, or a command.
ReadMessage(c) ==
    /\ conn[c] = "read" /\ c \notin cut
    /\ \E i \in Inbound :
         /\ msg[c][i].pc = "idle"
         /\ \/ \E t \in 0..now : msg' = [msg EXCEPT ![c][i] =
                   [Idle EXCEPT !.pc = "auth", !.tok = t]]
            \/ msg' = [msg EXCEPT ![c][i] = [Idle EXCEPT !.pc = "valid", !.after = answered]]
    /\ UNCHANGED <<conn, done, cut, bag, jwt, listens, misused>>

ClientCloses(c) ==
    /\ conn[c] \in {"check", "read"} /\ c \notin cut
    /\ cut' = cut \cup {c}
    /\ UNCHANGED <<conn, done, bag, jwt, msg, listens, misused>>

\* The read of a closed connection fails.
ReadFails(c) ==
    /\ conn[c] = "read" /\ c \in cut
    /\ GoTo(c, "return")
    /\ UNCHANGED <<done, cut, bag, jwt, msg, listens, misused>>

\* The deferred Remove and cancel.
Return(c) ==
    /\ conn[c] = "return"
    /\ bag' = bag \ {c} /\ done' = done \cup {c}
    /\ GoTo(c, "gone")
    /\ UNCHANGED <<cut, jwt, msg, listens, misused>>

\* The goroutine that closes the connection of a cancelled context.
CloseConnection(c) ==
    /\ c \in done \ cut
    /\ cut' = cut \cup {c}
    /\ UNCHANGED <<conn, done, bag, jwt, msg, listens, misused>>

\* The goroutine that waits for the context of the server.
WatchServer(c) ==
    /\ deleted /\ conn[c] \in {"check", "read"} /\ c \notin done
    /\ done' = done \cup {c}
    /\ UNCHANGED <<conn, cut, bag, jwt, msg, listens, misused>>

-----------------------------------------------------------------------------
(* HandleInbound of the message i of a connection.                           *)

At(c, i, pc) == msg[c][i].pc = pc
Finish(c, i) == msg' = [msg EXCEPT ![c][i] = Idle]

\* A command: the token of the connection is valid.
TokenValid(c, i) ==
    /\ At(c, i, "valid")
    /\ IF jwt[c] = None \/ Denylisted(jwt[c])
       THEN Finish(c, i)
       ELSE msg' = [msg EXCEPT ![c][i].pc = "act"]
    /\ UNCHANGED <<conn, done, cut, bag, jwt, listens, misused>>

\* The connection of a suspended server is cancelled.  Otherwise HasPermission asks the
\* denylist again, of the token the connection has by now, and the power action or the
\* command is carried out.
Act(c, i) ==
    /\ At(c, i, "act")
    /\ done' = IF suspended THEN done \cup {c} ELSE done
    /\ misused' = (misused \/ (~suspended /\ ~Denylisted(jwt[c]) /\ jwt[c] < msg[c][i].after))
    /\ Finish(c, i)
    /\ UNCHANGED <<conn, cut, bag, jwt, listens>>

\* An authentication: NewTokenPayload refuses a denied token; newConnection is read
\* under one lock and the token set under the next.
Authenticate(c, i) ==
    /\ At(c, i, "auth")
    /\ \/ ~suspended /\ ~Denylisted(msg[c][i].tok) /\ UNCHANGED done
          /\ msg' = [msg EXCEPT ![c][i] = [@ EXCEPT !.pc = "set", !.first = (jwt[c] = None)]]
       \/ ~suspended /\ Denylisted(msg[c][i].tok) /\ UNCHANGED done /\ Finish(c, i)
       \/ suspended /\ done' = done \cup {c} /\ Finish(c, i)
    /\ UNCHANGED <<conn, cut, bag, jwt, listens, misused>>

\* setJwt and, for a connection that had no token, registerListenerEvents.
SetJwt(c, i) ==
    /\ At(c, i, "set")
    /\ jwt' = [jwt EXCEPT ![c] = msg[c][i].tok]
    /\ listens' = IF msg[c][i].first THEN [listens EXCEPT ![c] = @ + 1] ELSE listens
    /\ Finish(c, i)
    /\ UNCHANGED <<conn, done, cut, bag, misused>>

\* listenForServerEvents ends with the context, or with an error when it writes to a
\* connection that is closed.
ListenerEnds(c) ==
    /\ listens[c] > 0 /\ c \in done \cup cut
    /\ listens' = [listens EXCEPT ![c] = @ - 1]
    /\ UNCHANGED <<conn, done, cut, bag, jwt, msg, misused>>

-----------------------------------------------------------------------------
(* SFTP sessions.                                                           *)

\* The Panel accepts the credentials and the channel is opened.
AcceptInbound(s) ==
    /\ ~deleted /\ session[s] = "idle"
    /\ session' = [session EXCEPT ![s] = "handle"]
    /\ UNCHANGED <<held, current, cancelled, caught>>

\* Handle takes the context of the user, which all sessions share until it is cancelled.
Handle(s) ==
    /\ session[s] = "handle"
    /\ current' = IF current # 0 THEN current ELSE Max(cancelled \cup {held[r] : r \in Sessions}) + 1
    /\ held' = [held EXCEPT ![s] = current']
    /\ session' = [session EXCEPT ![s] = "serve"]
    /\ UNCHANGED <<cancelled, caught>>

\* The goroutine that closes the session of a cancelled context.
Terminate(s) ==
    /\ session[s] = "serve" /\ held[s] \in cancelled
    /\ session' = [session EXCEPT ![s] = "closed"]
    /\ UNCHANGED <<held, current, cancelled, caught>>

\* The client ends the session.
Eof(s) ==
    /\ session[s] = "serve"
    /\ session' = [session EXCEPT ![s] = "closed"]
    /\ UNCHANGED <<held, current, cancelled, caught>>

-----------------------------------------------------------------------------
Serve(c) ==
    PushConn(c) \/ CheckSuspended(c) \/ ReadFails(c) \/ Return(c)

HandleInbound(c, i) ==
    TokenValid(c, i) \/ Act(c, i) \/ Authenticate(c, i) \/ SetJwt(c, i)

SocketStep(c) ==
    \/ Open(c) \/ ReadMessage(c) \/ ClientCloses(c)
    \/ Serve(c) \/ CloseConnection(c) \/ WatchServer(c) \/ ListenerEnds(c)
    \/ \E i \in Inbound : HandleInbound(c, i)

ConnNext ==
    \/ Tick \/ Deny \/ DenyJTI \/ DenySockets \/ DenySessions \/ Sync \/ SyncSuspended \/ CleanupForDestroy
    \/ \E c \in Conns : SocketStep(c) /\ UNCHANGED <<revokers, sftp>>
    \/ \E s \in Sessions :
         (AcceptInbound(s) \/ Handle(s) \/ Terminate(s) \/ Eof(s)) /\ UNCHANGED <<revokers, sockets>>

\* Goroutines that are not blocked run; clients may be silent for good.
ConnFairness ==
    /\ WF_connVars(DenySockets \/ DenySessions) /\ WF_connVars(SyncSuspended)
    /\ \A c \in Conns :
         /\ WF_connVars(Serve(c) /\ UNCHANGED <<revokers, sftp>>)
         /\ WF_connVars(CloseConnection(c) /\ UNCHANGED <<revokers, sftp>>)
         /\ WF_connVars(WatchServer(c) /\ UNCHANGED <<revokers, sftp>>)
         /\ WF_connVars(ListenerEnds(c) /\ UNCHANGED <<revokers, sftp>>)
         /\ \A i \in Inbound : WF_connVars(HandleInbound(c, i) /\ UNCHANGED <<revokers, sftp>>)
    /\ \A s \in Sessions : WF_connVars(Terminate(s) /\ UNCHANGED <<revokers, sockets>>)

-----------------------------------------------------------------------------
(* Properties.                                                              *)

\* Once the Panel's request to deauthorise a user has been answered, no message that
\* arrives acts on a token issued before that request, on whatever connection, though
\* tokens carry whole seconds and a connection may change its token meanwhile.
RevokedNeverActs == ~misused

\* Every connection that must end does, and leaves nothing behind: a websocket whose
\* server stays suspended, also one that was being opened and was not in the bag yet when
\* Sync emptied it; a websocket that is cancelled, closed, or whose server is deleted,
\* with its entry in the bag and its listeners; and every SFTP session that was served
\* when its user was deauthorised or the server suspended, whichever session made the
\* context they share.
ConnectionsEnd ==
    /\ \A c \in Conns :
         /\ suspended /\ conn[c] \notin {"idle", "gone"} ~> ~suspended \/ conn[c] = "gone"
         /\ c \in done \cup cut \/ (deleted /\ conn[c] \in {"push", "check", "read"})
              ~> conn[c] = "gone" /\ c \notin bag /\ listens[c] = 0
    /\ \A s \in Sessions : s \in caught ~> session[s] = "closed"
=============================================================================
