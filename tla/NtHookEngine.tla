----------------------------- MODULE NtHookEngine -----------------------------
(* The patching library NtHookEngine.dll that every tool loads. It ships as a   *)
(* binary, so this module is external: what it keeps and what its three exports *)
(* do is taken from how HookEngine.c calls them and relies on them.             *)
(*                                                                              *)
(* The library keeps one entry per patched function. The function's first bytes *)
(* are moved to a bridge, which still runs the function's own code, and are     *)
(* overwritten with a jump. Entries are never removed, and no tool unloads the  *)
(* library, so its table outlives the tool's DLL.                               *)
EXTENDS Naturals, Sequences

CONSTANTS
    Function,       \* the client functions that may be hooked
    HookAddr,       \* the addresses of hook functions in a tool's DLL
    NoFunction,     \* the NULL a failed lookup returns
    Original,       \* an unpatched function: it runs its own code
    Bridge,         \* a function whose jump leads to its own bridge
    MaxHooks        \* the capacity of the table (9999 in the binary)

ASSUME CodeAssumption ==
    /\ NoFunction \notin Function
    /\ Original \notin HookAddr
    /\ Bridge \notin HookAddr
    /\ Original # Bridge
    /\ MaxHooks \in Nat

VARIABLES
    table,          \* the entries, oldest first
    code            \* what the first instruction of a function leads to

ntVars == <<table, code>>

Entry == [function : Function, hook : HookAddr]
CodeState == HookAddr \cup {Original, Bridge}

NtTypeOK ==
    /\ table \in Seq(Entry)
    /\ code \in [Function -> CodeState]

NtInit ==
    /\ table = <<>>
    /\ code = [f \in Function |-> Original]

Registered(f) == \E i \in DOMAIN table : table[i].function = f

-------------------------------------------------------------------------------
\* HookFunction(f, h), first half: find or append the entry of f. A function that
\* is already in the table keeps its old entry, with the hook it was first given.
Register(f, h) ==
    /\ ~ Registered(f)
    /\ Len(table) < MaxHooks
    /\ table' = Append(table, [function |-> f, hook |-> h])

\* HookFunction(f, h), second half, and the whole of UnhookFunction(f): the jump.
WriteJump(f, target) == code' = [code EXCEPT ![f] = target]

\* UnhookFunction(f): a function the library knows is sent to its bridge.
UnhookFunction(f) ==
    IF Registered(f) THEN WriteJump(f, Bridge) ELSE UNCHANGED code

\* GetOriginalFunction(h): the bridge of the first entry given the hook h. A
\* bridge is named here by the function whose code it runs.
IsFirstEntryOf(i, h) ==
    /\ table[i].hook = h
    /\ \A j \in DOMAIN table : table[j].hook = h => i <= j

GetOriginalFunction(h) ==
    IF \E i \in DOMAIN table : IsFirstEntryOf(i, h)
    THEN table[CHOOSE i \in DOMAIN table : IsFirstEntryOf(i, h)].function
    ELSE NoFunction
===============================================================================
