---------------------------- MODULE MCLintFixes ----------------------------
(* Two variable names, one call argument, two statements before the        *)
(* formatting line, and the name clippy was told to rename.                *)
EXTENDS LintFixes

MCVars    == {"x", "y"}
MCCalls   == {"g(x)"}
MCCallVar(a) == "x"
MCUnused  == {"x"}

=============================================================================
