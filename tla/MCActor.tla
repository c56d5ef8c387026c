------------------------------- MODULE MCActor -------------------------------
EXTENDS GoActorProps

CONSTANTS g1, g2, t1, m1, m2, m3

AllHooks == HookNames
=============================================================================
