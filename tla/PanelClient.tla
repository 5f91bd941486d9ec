---------------------------- MODULE PanelClient ----------------------------
(***************************************************************************)
(* One request of the daemon to the Panel (remote/http.go): an attempt may *)
(* be carried out by the Panel and still look like a failure here, and is  *)
(* then repeated, so a request is executed at least once when it succeeds  *)
(* and any number of times, up to the number of attempts, when it fails.   *)
(***************************************************************************)
EXTENDS Naturals

CONSTANT
  MaxAttempts     \* attempts that fit into the 30 seconds of the backoff

ASSUME AttemptsAssumption == MaxAttempts \in Nat \ {0}

-----------------------------------------------------------------------------
\* What one attempt does: whether the Panel acted on it, and what the client
\* sees. A 4xx comes from a Panel that did not act; a 5xx, a network error
\* and a timeout may come before or after it did.
Attempts ==
  {a \in [acted : BOOLEAN,
          answer : {"ok", "client_error", "server_error", "network", "timeout"}] :
     /\ a.answer = "ok" => a.acted
     /\ a.answer = "client_error" => ~a.acted}

\* The error of an attempt is permanent if it is a 4xx or a context that was
\* cancelled or timed out (the 15 second timeout of the client included).
Permanent(answer) == answer \in {"client_error", "timeout"}

\* The body is copied before each attempt, so that each one sends all of it.
Body(data, tried) == data

\* How attempt number tried + 1 ends the request, or that it is repeated.
Outcome(answer, tried) ==
  CASE answer = "ok" -> "success"
    [] answer # "ok" /\ (Permanent(answer) \/ tried + 1 >= MaxAttempts) -> "failure"
    [] OTHER -> "retry"
=============================================================================
