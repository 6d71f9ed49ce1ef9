------------------------------ MODULE RpcCalls ------------------------------
(***************************************************************************)
(* What the remote RPC promises the program that calls it: one call at a   *)
(* time, the handler of the service runs at most once for it, and a call   *)
(* that returns an answer returns after its handler ran.  A call may fail  *)
(* at any time, and its handler may still run afterwards.                  *)
(***************************************************************************)
CONSTANT Calls

VARIABLES
    caller,   \* what the calling program sees of each call
    ran       \* calls whose handler has been started

vars == <<caller, ran>>

TypeOK ==
    /\ caller \in [Calls -> {"new", "waiting", "answered", "failed"}]
    /\ ran \subseteq Calls

Init ==
    /\ caller = [c \in Calls |-> "new"]
    /\ ran = {}

Sees(c, from, to) ==
    /\ caller[c] = from
    /\ caller' = [caller EXCEPT ![c] = to]

Call(c) ==
    /\ Sees(c, "new", "waiting")
    /\ \A d \in Calls : caller[d] # "waiting"
    /\ UNCHANGED ran

Refuse(c) == Sees(c, "new", "failed") /\ UNCHANGED ran

Run(c) ==
    /\ caller[c] # "new"
    /\ c \notin ran
    /\ ran' = ran \cup {c}
    /\ UNCHANGED caller

Return(c) ==
    /\ Sees(c, "waiting", "answered")
    /\ c \in ran
    /\ UNCHANGED ran

Fail(c) == Sees(c, "waiting", "failed") /\ UNCHANGED ran

Next == \E c \in Calls : Call(c) \/ Refuse(c) \/ Run(c) \/ Return(c) \/ Fail(c)

Spec == Init /\ [][Next]_vars
=============================================================================
