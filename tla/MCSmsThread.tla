----------------------------- MODULE MCSmsThread -----------------------------
EXTENDS SmsThread, TLC

CONSTANTS s1, s2, stop, start, text, r1, r2

TwoSessions == Permutations({s1, s2})
=============================================================================
