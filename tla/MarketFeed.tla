----------------------------- MODULE MarketFeed -----------------------------
(***************************************************************************)
(* The market data service (internal/saas/marketdata/service.go): Start    *)
(* fetches once before the server serves anything; then a loop fetches the *)
(* latest bars, upserts them row by row and only then publishes the last   *)
(* close, while another loop refreshes the exchange rate.  When the first  *)
(* fetch fails neither loop is ever started.                               *)
(*                                                                         *)
(* A bar is its number.  The exchange reports the bar that is still open   *)
(* as the last one, and its close moves until the next bar begins: closes  *)
(* are not remembered, each reading of one is free.                        *)
(***************************************************************************)
EXTENDS Integers, FiniteSetsExt

CONSTANTS
  MaxBar,        \* last bar of the exchange (bound)
  Close, Rate,   \* closes and exchange rates to choose from
  FallbackRate,  \* the rate before one has been fetched
  FetchLimit,    \* bars per fetch
  MaxFault,      \* failing database statements (bound)
  MaxRestart     \* restarts of the server (bound)

ASSUME FeedAssumption ==
  /\ MaxBar \in Nat \ {0} /\ FetchLimit \in Nat \ {0}
  /\ Close \subseteq Nat \ {0} /\ Rate \subseteq Nat \ {0} /\ FallbackRate \in Nat \ {0}
  /\ MaxFault \in Nat /\ MaxRestart \in Nat

VARIABLES
  exchange,   \* the newest bar of the exchange
  klines,     \* the bars in k_lines
  lastC,      \* the price in memory, 0 before one has been published
  usdCny,
  feed,       \* what the service is doing, and the fetched bars yet to be stored
  serving,    \* main has come past Start
  faults,
  restarts

feedVars == <<exchange, klines, lastC, usdCny, feed, serving>>

Down == [pc |-> "down", left |-> {}]

FeedInit ==
  /\ exchange = 1
  /\ klines = {}
  /\ lastC = 0
  /\ usdCny = FallbackRate
  /\ feed = [Down EXCEPT !.pc = "start"]
  /\ serving = FALSE
  /\ faults = 0
  /\ restarts = 0

-----------------------------------------------------------------------------
(* The exchange                                                             *)

OpenBar ==
  /\ exchange < MaxBar
  /\ exchange' = exchange + 1
  /\ UNCHANGED <<klines, lastC, usdCny, feed, serving, faults, restarts>>

\* The response to a request: the latest bars, oldest first.
Response == {b \in 1 .. exchange : b > exchange - FetchLimit}

-----------------------------------------------------------------------------
(* fetchAndStore                                                            *)

Fetch ==
  /\ feed.pc \in {"start", "waiting"}
  /\ feed' = [pc |-> "storing", left |-> Response]
  /\ UNCHANGED <<exchange, klines, lastC, usdCny, serving, faults, restarts>>

\* A failed fetch changes nothing and is repeated at the next refresh, but the first one
\* makes Start return: the server goes on without the service.
StartFails ==
  /\ feed.pc = "start"
  /\ feed' = [feed EXCEPT !.pc = "off"]
  /\ serving' = TRUE
  /\ UNCHANGED <<exchange, klines, lastC, usdCny, faults, restarts>>

\* One upsert after the other; an error is not looked at.
StoreRow ==
  LET b == Min(feed.left) IN
  /\ feed.pc = "storing"
  /\ feed.left # {}
  /\ feed' = [feed EXCEPT !.left = @ \ {b}]
  /\ \/ klines' = klines \cup {b} /\ UNCHANGED faults
     \/ faults < MaxFault /\ faults' = faults + 1 /\ UNCHANGED klines
  /\ UNCHANGED <<exchange, lastC, usdCny, serving, restarts>>

\* The price follows when all rows are stored: the close of the last one, whatever it is.
Publish(close) ==
  /\ feed.pc = "storing"
  /\ feed.left = {}
  /\ lastC' = close
  /\ feed' = [Down EXCEPT !.pc = "waiting"]
  /\ serving' = TRUE
  /\ UNCHANGED <<exchange, klines, usdCny, faults, restarts>>

\* fetchForexRate, at the start and then by its own loop; a rate that is missing or not
\* positive leaves the old one.
RefreshRate(r) ==
  /\ feed.pc \in {"storing", "waiting"}
  /\ serving
  /\ usdCny' = r
  /\ UNCHANGED <<exchange, klines, lastC, feed, serving, faults, restarts>>

\* The loops end with the process, be it through Stop or in a crash; the rows stay.
StopFeed ==
  /\ feed' = Down
  /\ lastC' = 0
  /\ usdCny' = FallbackRate
  /\ serving' = FALSE
  /\ UNCHANGED <<exchange, klines>>

StartFeed ==
  /\ feed' = [Down EXCEPT !.pc = "start"]
  /\ UNCHANGED <<exchange, klines, lastC, usdCny, serving>>

FeedLoop == Fetch \/ StoreRow \/ \E close \in Close : Publish(close)
=============================================================================
