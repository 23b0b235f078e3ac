------------------------------- MODULE MCJobs -------------------------------
(***************************************************************************)
(* Stock, FiscalChain and WebhookOutbox, which share no state and promise  *)
(* that something ends, checked in one run: part says which of them the    *)
(* behaviour is about, the others stay as they begin.                      *)
(*                                                                         *)
(* Stock as in MCStock; FiscalChain: a sale in each of two branches and    *)
(* the refund of the first one.                                            *)
(***************************************************************************)
EXTENDS MCStock, FiscalChain, WebhookOutbox

CONSTANTS s1, s2, r1

VARIABLE part

TwoBranches == [d \in Documents |-> IF d = s2 THEN "B" ELSE "A"]
ThreeSeries == [d \in Documents |-> CASE d = s1 -> <<"A", "F2">>
                                      [] d = s2 -> <<"B", "F2">>
                                      [] OTHER -> <<"A", "R5">>]
OneRefund   == [d \in Documents |-> IF d = r1 THEN s1 ELSE NoDocument]

JobsInit ==
    /\ part \in {"stock", "fiscal", "hooks"}
    /\ StockInit /\ FiscalInit /\ HookInit

JobsNext ==
    \/ part = "stock"  /\ StockNext  /\ UNCHANGED <<part, fiscalVars, hookVars>>
    \/ part = "fiscal" /\ FiscalNext /\ UNCHANGED <<part, stockVars, hookVars>>
    \/ part = "hooks"  /\ HookNext   /\ UNCHANGED <<part, stockVars, fiscalVars>>

\* A part that does not run has none of its fair actions enabled.
JobsSpec ==
    /\ JobsInit /\ [][JobsNext]_<<stockVars, fiscalVars, hookVars, part>>
    /\ StockFair /\ FiscalFair /\ HookFair
=============================================================================
