---------------------------- MODULE EntryLedger ----------------------------
(***************************************************************************)
(* What a one-shot trading engine promises about each market: it buys at   *)
(* most once, and never more contracts than the risk envelope allows.  The *)
(* promise is kept by memory, so it lapses for the markets a restarted     *)
(* engine could not learn about: those, and only those, are "exposed".     *)
(***************************************************************************)
EXTENDS Integers

CONSTANTS Tickers,       \* the markets
          MaxContracts   \* RiskEnvelope.max_contracts_per_trade

VARIABLES bought,   \* contracts the exchange filled so far, by market
          exposed   \* markets an earlier purchase of which may be unknown

ledgerVars == <<bought, exposed>>

Init == /\ bought = [t \in Tickers |-> 0]
        /\ exposed = {}

\* An order is filled for n contracts.
Buy(t, n) ==
    /\ bought[t] = 0 \/ t \in exposed
    /\ bought' = [bought EXCEPT ![t] = @ + n]
    /\ UNCHANGED exposed

\* The engine restarts and forgets; F is what it can no longer vouch for.
Restart(F) ==
    /\ exposed' = F
    /\ UNCHANGED bought

Next == \/ \E t \in Tickers, n \in 1..MaxContracts : Buy(t, n)
        \/ \E F \in SUBSET Tickers : Restart(F)

Spec == Init /\ [][Next]_ledgerVars
=============================================================================
