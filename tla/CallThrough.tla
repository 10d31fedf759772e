----------------------------- MODULE CallThrough ------------------------------
(* What hooking promises the client: whatever is hooked or unhooked around it,  *)
(* a call of a function runs that function's own code exactly once before it    *)
(* returns, unless the hook is one that takes the function's place. A call may  *)
(* also never return, because the client died.                                  *)
CONSTANTS Thread, Function, Replaced, NoFunction

VARIABLES
    status,         \* "idle", "pending" (called), "ran" (its code has started)
    called,         \* the function that was called
    body            \* the function whose code was run for it

atVars == <<status, called, body>>

Init ==
    /\ status = [t \in Thread |-> "idle"]
    /\ called \in [Thread -> Function]
    /\ body = [t \in Thread |-> NoFunction]

Call(t, f) ==
    /\ status[t] = "idle"
    /\ status' = [status EXCEPT ![t] = "pending"]
    /\ called' = [called EXCEPT ![t] = f]
    /\ body' = [body EXCEPT ![t] = NoFunction]

Run(t) ==
    /\ status[t] = "pending"
    /\ status' = [status EXCEPT ![t] = "ran"]
    /\ body' = [body EXCEPT ![t] = called[t]]
    /\ UNCHANGED called

Return(t) ==
    /\ \/ status[t] = "ran"
       \/ status[t] = "pending" /\ called[t] \in Replaced
    /\ status' = [status EXCEPT ![t] = "idle"]
    /\ UNCHANGED <<called, body>>

Next == \E t \in Thread : Run(t) \/ Return(t) \/ \E f \in Function : Call(t, f)

Spec == Init /\ [][Next]_atVars
===============================================================================
