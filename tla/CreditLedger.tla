---------------------------- MODULE CreditLedger ----------------------------
(***************************************************************************)
(* What a reset-credit operation promises its caller, whatever crashes,    *)
(* cancellations, lost answers and repeated calls lie between: an          *)
(* operation is opened once, the provider charges at most one credit for   *)
(* it, it completes only if that credit was charged, and what it ended     *)
(* with is never revised.  ResetCredit is shown to implement this.         *)
(***************************************************************************)
CONSTANT Operations

VARIABLES
    status,             \* operation -> "none" or its ResetCreditOperationStatus
    spent               \* the operations the provider has charged a credit for

Init ==
    /\ status \in [Operations -> {"none", "pending"}]
    /\ spent = {}

Open(o) ==
    /\ status[o] = "none"
    /\ status' = [status EXCEPT ![o] = "pending"]
    /\ UNCHANGED spent

(* The provider may still charge for a request it received long ago. *)
Charge(o) ==
    /\ status[o] # "none" /\ o \notin spent
    /\ spent' = spent \union {o}
    /\ UNCHANGED status

Complete(o) ==
    /\ status[o] = "pending" /\ o \in spent
    /\ status' = [status EXCEPT ![o] = "completed"]
    /\ UNCHANGED spent

Fail(o) ==
    /\ status[o] = "pending"
    /\ status' = [status EXCEPT ![o] = "failed"]
    /\ UNCHANGED spent

Next == \E o \in Operations : Open(o) \/ Charge(o) \/ Complete(o) \/ Fail(o)

Spec == Init /\ [][Next]_<<status, spent>>
=============================================================================
