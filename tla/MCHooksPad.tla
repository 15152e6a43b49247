----------------------------- MODULE MCHooksPad -----------------------------
(* A function that starts with a landing pad. *)
EXTENDS MCHooks

HooksPadPrograms == Jobs({Function(I("bti", 0), I("plain", 2))}, {FALSE})
=============================================================================
