---------------------------- MODULE MCLifecycle -----------------------------
EXTENDS Lifecycle
CONSTANTS a, b, claude, codex, disp, boot, picker

MCConf == [vendor : Vendor, token : Token]
=============================================================================
