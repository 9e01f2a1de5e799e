--------------------------- MODULE MCBotLifecycle ---------------------------
(* Values of the constants for TLC.                                        *)
EXTENDS BotLifecycle, TLC

CONSTANTS s1, s2
=============================================================================
