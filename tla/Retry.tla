-------------------------------- MODULE Retry --------------------------------
(***************************************************************************)
(* retry.Do (internal/common/retry): one call that is tried again while    *)
(* its error is retryable.  The state of a call is the number of the       *)
(* attempt and where it is: in "fn", waiting ("wait"), or over ("ok",      *)
(* "err").  The length of the wait is abstracted.                          *)
(***************************************************************************)
EXTENDS Integers

CONSTANT MaxRetries   \* Options.MaxRetries

ASSUME RetryAssumption == MaxRetries \in Nat

Call == [attempt : 0 .. MaxRetries, at : {"fn", "wait", "ok", "err"}]

Started == [attempt |-> 0, at |-> "fn"]

\* Slip: the bounds of the server-error range are exchanged.
IsRetryableNoServer(e) ==
  \/ e.kind \in {"marked", "net"}
  \/ e.kind = "rpc" /\ e.code = -32603
  \/ e.kind = "http" /\ e.code \in {429, 500, 502, 503, 504}

\* An error is the end of the context ("ctx"), an error marked as retryable
\* ("marked"), an answer of the RPC server or of HTTP with its code, a timeout or
\* a lost connection ("net"), or something else.
IsRetryable(e) ==
  \/ e.kind \in {"marked", "net"}
  \/ /\ e.kind = "rpc"
     /\ \/ e.code = -32603
        \/ e.code \notin {-32001, -32003} /\ -32099 <= e.code /\ e.code <= -32000
  \/ e.kind = "http" /\ e.code \in {429, 500, 502, 503, 504}

Succeeded(c) == [c EXCEPT !.at = "ok"]

\* fn returns the error e.
Failed(c, e) ==
  [c EXCEPT !.at = IF IsRetryable(e) /\ c.attempt < MaxRetries THEN "wait" ELSE "err"]

\* The wait is over.
Resumed(c) == [attempt |-> c.attempt + 1, at |-> "fn"]

\* The context ended during the wait, or made fn fail.
GivenUp(c) == [c EXCEPT !.at = "err"]
=============================================================================
