------------------------------- MODULE Ledger -------------------------------
(***************************************************************************)
(* What taking money promises, whatever the order in which the shop hears  *)
(* of it: Elite days are granted only for a payment the provider has       *)
(* charged, and a payment is written off as refunded only after its money  *)
(* went back.                                                              *)
(***************************************************************************)
CONSTANT Payments

VARIABLES
    charged,   \* the provider has taken the money
    returned,  \* the provider has given money back
    granted,   \* the payment has started or extended an Elite Pass
    reversed   \* the payment has been written REFUNDED

books == <<charged, returned, granted, reversed>>

LedgerInit ==
    /\ charged = {}
    /\ returned = {}
    /\ granted = {}
    /\ reversed = {}

Charge(p) ==
    /\ charged' = charged \cup {p}
    /\ UNCHANGED <<returned, granted, reversed>>

GiveBack(p) ==
    /\ p \in charged
    /\ returned' = returned \cup {p}
    /\ UNCHANGED <<charged, granted, reversed>>

Grant(p) ==
    /\ p \in charged
    /\ granted' = granted \cup {p}
    /\ UNCHANGED <<charged, returned, reversed>>

Reverse(p) ==
    /\ p \in granted
    /\ p \in returned
    /\ reversed' = reversed \cup {p}
    /\ UNCHANGED <<charged, returned, granted>>

LedgerNext == \E p \in Payments : Charge(p) \/ GiveBack(p) \/ Grant(p) \/ Reverse(p)

LedgerSpec == LedgerInit /\ [][LedgerNext]_books
=============================================================================
