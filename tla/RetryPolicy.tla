----------------------------- MODULE RetryPolicy -----------------------------
(***************************************************************************)
(* The decisions of RetryService.execute: which errors are tried again and *)
(* how long to wait first.                                                 *)
(***************************************************************************)
EXTENDS Integers

CONSTANTS
  MaxAttempts,    \* config.maxAttempts
  Backoff,        \* config.backoff
  InitialDelay,   \* config.initialDelay, in ticks
  MaxDelay        \* config.maxDelay, in ticks

ASSUME RetryAssumption ==
  /\ MaxAttempts \in Nat \ {0}
  /\ Backoff \in {"fixed", "linear", "exponential"}
  /\ InitialDelay \in Nat
  /\ MaxDelay \in Nat

(***************************************************************************)
(* How an attempt fails, as McpExecutorService.callTool reports it.        *)
(* Whatever the handler throws ("thrown"), and a tool that is gone from    *)
(* the registry ("notFound"), comes out as a ToolExecutionError, a         *)
(* ValidationError or an McpError built from a filter's message, and none  *)
(* of these is retriable.  Only what is thrown outside that try, by the    *)
(* parameter schema or by an exception filter itself, "escapes" as a plain *)
(* error, which the retry loop does try again.                             *)
(***************************************************************************)
Failures == {"thrown", "notFound", "escaped"}

IsRetriable(failure) == failure = "escaped"

AtMost(n, limit) == IF n < limit THEN n ELSE limit

\* calculateDelay: exponential backoff is drawn at random up to its cap.
Delays(attempt) ==
  CASE Backoff = "fixed"       -> {AtMost(InitialDelay, MaxDelay)}
    [] Backoff = "linear"      -> {AtMost(InitialDelay * attempt, MaxDelay)}
    [] Backoff = "exponential" -> 0..AtMost(InitialDelay * 2^(attempt - 1), MaxDelay)
=============================================================================
