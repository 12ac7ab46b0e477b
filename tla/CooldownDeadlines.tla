-------------------------- MODULE CooldownDeadlines --------------------------
(***************************************************************************)
(* What the cooldown table promises, without maps to clean, ladders and    *)
(* reasons.  An account that failed is cooling at once, and stays so until *)
(* its deadline.  A further failure may move the deadline, never to an     *)
(* earlier time.  Only three things end a cooldown: a success of that      *)
(* account, a reset of the runtime, and the clock reaching the deadline.   *)
(*                                                                         *)
(* `until` is 0 for an account that is not cooling.  `failed` holds the    *)
(* accounts that failed at this very instant and were not excused since:   *)
(* with it a failure is a visible step, so that one that cools nothing is  *)
(* not taken for a step that does nothing.                                 *)
(***************************************************************************)
EXTENDS Naturals

CONSTANT Accounts

VARIABLES now, until, failed

Init ==
    /\ now \in Nat
    /\ until = [a \in Accounts |-> 0]
    /\ failed = {}

Fail(a) ==
    /\ until'[a] > now
    /\ until'[a] >= until[a]
    /\ until' = [until EXCEPT ![a] = until'[a]]
    /\ failed' = failed \union {a}
    /\ UNCHANGED now

Succeed(a) ==
    /\ until' = [until EXCEPT ![a] = 0]
    /\ failed' = failed \ {a}
    /\ UNCHANGED now

Reset ==
    /\ until' = [a \in Accounts |-> 0]
    /\ failed' = {}
    /\ UNCHANGED now

(* Exactly the accounts whose deadline is reached are released. *)
Tick ==
    /\ now' > now
    /\ until' = [a \in Accounts |-> IF until[a] > now' THEN until[a] ELSE 0]
    /\ failed' = {}

Next ==
    \/ \E a \in Accounts : Fail(a) \/ Succeed(a)
    \/ Reset
    \/ Tick

Spec == Init /\ [][Next]_<<now, until, failed>>
=============================================================================
