---------------------------- MODULE QuotaLedger ----------------------------
(***************************************************************************)
(* What the rate gate promises, with no deques, samples or sleeping tasks: *)
(* admissions are charged to ledgers at the instant they happen, and the   *)
(* Limit[d]-th admission before a new one on ledger d is at least          *)
(* Window[d] - Slack old.  With Slack = 0 this is the exact rolling window *)
(* the documentation describes.                                            *)
(***************************************************************************)
EXTENDS Integers, Sequences

CONSTANTS Ledgers,   \* the independent quotas
          Limit,     \* how many admissions a window of a ledger may hold
          Window,    \* the length of a ledger's window
          Charges,   \* the sets of ledgers one admission can be charged to
          Slack      \* how much a window may be cut short

VARIABLES clock, admissions

ledgerVars == <<clock, admissions>>

LedgerInit ==
    /\ clock = 0
    /\ admissions = [d \in Ledgers |-> <<>>]

LedgerTick ==
    /\ clock' = clock + 1
    /\ UNCHANGED admissions

HasRoom(d) ==
    \/ Len(admissions[d]) < Limit[d]
    \/ admissions[d][Len(admissions[d]) + 1 - Limit[d]] + Window[d] <= clock + Slack

Admit(charge) ==
    /\ \A d \in charge : HasRoom(d)
    /\ admissions' = [d \in Ledgers |-> IF d \in charge THEN Append(admissions[d], clock)
                                                        ELSE admissions[d]]
    /\ UNCHANGED clock

LedgerNext ==
    \/ LedgerTick
    \/ \E charge \in Charges : Admit(charge)

LedgerSpec == LedgerInit /\ [][LedgerNext]_ledgerVars
============================================================================
