------------------------------ MODULE MCLuaSavior -----------------------------
(* Two Lua states, two client threads, one patch.                             *)
EXTENDS LuaSavior, TLC

CONSTANTS t1, t2, p1, main, coroutine

MCFunction == {lua_gettop}
MCHookAddr == {lua_gettop_hook}
MCPatch == {p1}
MCThread == {t1, t2}
MCLuaState == {main, coroutine}
===============================================================================
