----------------------------- MODULE LintFixes -----------------------------
(***************************************************************************)
(* The repository's clippy-fixing scripts, run over one Rust function      *)
(* body (src/fix_format_strings.py, src/fix_clippy.py,                     *)
(* src/fix_unused_vars.py, src/fix_genuine_unused.py).  Every script      *)
(* rewrites the file with regular expressions and claims only to inline    *)
(* format arguments or to prefix unused variables with '_', i.e. to leave *)
(* the program's meaning alone.                                            *)
(*                                                                         *)
(* A file is a sequence of lines, each a statement written in the          *)
(* canonical rustfmt form the regexes expect:                              *)
(*   [kind |-> "let",  name |-> v, rhs |-> ""]   let v = 0;                *)
(*   [kind |-> "let",  name |-> v, rhs |-> w]    let v = w + 1;            *)
(*   [kind |-> "use",  name |-> v]               use(v);                   *)
(*   [kind |-> "format" or "println", tmpl, args]  format!("..", a, b)     *)
(*   [kind |-> "broken"]                          a line that no longer    *)
(*                                                parses                   *)
(* A placeholder of tmpl is [name, spec], written "{" name spec "}": name  *)
(* "" is positional ({} or {:?}), otherwise an inlined variable.  An       *)
(* argument is a variable or a call from Calls (g(x)).                     *)
(*                                                                         *)
(* The meaning of a file is what rustc makes of it: whether it compiles,  *)
(* and for every mention of a variable the declaration it resolves to     *)
(* and the formatting trait it is printed with.                           *)
(***************************************************************************)
EXTENDS Integers, Sequences, SequencesExt, FiniteSets

CONSTANTS
    Vars,            \* variable names (identifiers)
    Calls,           \* call arguments, e.g. "g(x)"
    CallVar(_),      \* the variable a call argument mentions
    UnusedVarList,   \* fix_clippy.fix_unused_variables' hard-coded names
    MaxDecls,        \* statements before the formatting line
    Scripts          \* the scripts that are run, a subset of ScriptNames

Line(k, n, r, t, a) == [kind |-> k, name |-> n, rhs |-> r, tmpl |-> t, args |-> a]
Let(v, r)     == Line("let", v, r, <<>>, <<>>)
Use(v)        == Line("use", v, "", <<>>, <<>>)
Fmt(k, t, a)  == Line(k, "", "", t, a)
Broken        == Line("broken", "", "", <<>>, <<>>)

Brace(n, s)   == [name |-> n, spec |-> s]
IsEmptyBrace(p) == p.name = "" /\ p.spec = ""
IsPositional(p) == p.name = ""
\* The text between the braces, as a regex group ([^}]*) captures it.
Inner(p)      == p.name \o p.spec

IsIdent(a)    == a \in Vars
ArgVar(a)     == IF a \in Calls THEN CallVar(a) ELSE a
IsPrint(l)    == l.kind \in {"format", "println"}

-----------------------------------------------------------------------------
(* rustc: name resolution and formatting *)

\* The latest earlier line that declares v, or 0 (v is not in scope).
Binder(f, i, v) ==
    LET k == SelectLastInSeq(SubSeq(f, 1, i - 1),
                             LAMBDA l : l.kind = "let" /\ l.name = v)
    IN k

Trait(spec) ==
    CASE spec \in {"", ":"} -> "Display"
      [] spec = ":?"        -> "Debug"
      [] OTHER              -> "invalid"

\* The argument a positional placeholder at index k takes.
PosArg(l, k) == l.args[Len(SelectSeq(SubSeq(l.tmpl, 1, k), IsPositional))]

Source(l, k) == IF IsPositional(l.tmpl[k]) THEN ArgVar(PosArg(l, k))
                ELSE l.tmpl[k].name

\* Every variable mention of line i, with the trait it is used through.
Mentions(f, i) ==
    LET l == f[i] IN
    CASE l.kind = "let"  -> IF l.rhs = "" THEN <<>> ELSE <<<<l.rhs, "value">>>>
      [] l.kind = "use"  -> <<<<l.name, "value">>>>
      [] IsPrint(l)      -> [k \in DOMAIN l.tmpl |-> <<Source(l, k), Trait(l.tmpl[k].spec)>>]
      [] OTHER           -> <<>>

LineCompiles(f, i) ==
    LET l == f[i] IN
    /\ l.kind # "broken"
    /\ IsPrint(l) => Len(SelectSeq(l.tmpl, IsPositional)) = Len(l.args)
    /\ \A k \in DOMAIN Mentions(f, i) :
          LET m == Mentions(f, i)[k] IN
          /\ m[2] # "invalid"
          /\ Binder(f, i, m[1]) # 0

Compiles(f) == \A i \in DOMAIN f : LineCompiles(f, i)

Meaning(f) ==
    [ok    |-> Compiles(f),
     lines |-> IF Compiles(f)
               THEN [i \in DOMAIN f |->
                       [k \in DOMAIN Mentions(f, i) |->
                          <<Binder(f, i, Mentions(f, i)[k][1]), Mentions(f, i)[k][2]>>]]
               ELSE <<>>]

\* The declarations nothing resolves to: what clippy reports as
\* "unused variable" (names starting with '_' are exempt).
UsedBinders(f) == UNION {{Binder(f, i, Mentions(f, i)[k][1]) : k \in DOMAIN Mentions(f, i)} :
                           i \in DOMAIN f}
UnusedLets(f) == {i \in DOMAIN f : f[i].kind = "let" /\ f[i].name \in Vars
                                   /\ i \notin UsedBinders(f)}

-----------------------------------------------------------------------------
(* fix_format_strings.fix_format_args: five re.sub passes, in order.       *)

\* The placeholder at index k replaced by an inlined one.
Inline(l, k, p) == [l EXCEPT !.tmpl[k] = p, !.args = <<>>]
LastEmpty(l)    == SelectLastInSeq(l.tmpl, IsEmptyBrace)
OneIdentArg(l)  == Len(l.args) = 1 /\ IsIdent(l.args[1])

\* Pattern 1: "([^"]*)\{\}([^"]*)" with one \w+ argument; the greedy group
\* leaves the last {} to the match.
FS_P1(l) ==
    IF l.kind = "format" /\ OneIdentArg(l) /\ LastEmpty(l) # 0
    THEN Inline(l, LastEmpty(l), Brace(l.args[1], ""))
    ELSE l

\* Pattern 2: any template followed by ",\s*([^)]+)\s*\)".  The argument
\* text is split at commas and each piece replaces the next {} (count 1);
\* pieces beyond the {}s are dropped.  [^)]+ stops at the first ')', which
\* inside a call argument leaves "g(x" as a name and the call's ')' behind.
FillBraces(t, a) ==
    LET step(acc, v) == LET k == SelectInSeq(acc, IsEmptyBrace)
                        IN  IF k = 0 THEN acc ELSE [acc EXCEPT ![k] = Brace(v, "")]
    IN  FoldLeft(step, t, a)

FS_P2(l) ==
    IF l.kind = "format" /\ Len(l.args) >= 1
    THEN IF \E k \in DOMAIN l.args : l.args[k] \in Calls
         THEN Broken
         ELSE [l EXCEPT !.tmpl = FillBraces(l.tmpl, l.args), !.args = <<>>]
    ELSE l

\* Patterns 3 and 5: "\{([^}]*)\}" with one argument; the last brace pair
\* becomes {arg:<captured>}, so {:?} turns into {arg::?}.
LastSpec(l, kind) ==
    IF l.kind = kind /\ OneIdentArg(l) /\ Len(l.tmpl) >= 1
    THEN Inline(l, Len(l.tmpl), Brace(l.args[1], ":" \o Inner(l.tmpl[Len(l.tmpl)])))
    ELSE l

\* Pattern 4: pattern 1 for println!.
FS_P4(l) ==
    IF l.kind = "println" /\ OneIdentArg(l) /\ LastEmpty(l) # 0
    THEN Inline(l, LastEmpty(l), Brace(l.args[1], ""))
    ELSE l

fix_format_args(l) == LastSpec(FS_P4(LastSpec(FS_P2(FS_P1(l)), "format")), "println")

-----------------------------------------------------------------------------
(* fix_clippy.fix_format_strings: the same rewrites with lazy groups, so   *)
(* the first matching brace pair is taken, and without the multi-argument  *)
(* pass.  The \s* variants of lines 28-42 find nothing the single-space    *)
(* passes left; the assert! pass has no counterpart among the lines.       *)

FirstEmpty(l) == SelectInSeq(l.tmpl, IsEmptyBrace)
FirstSpecd(l) == SelectInSeq(l.tmpl, LAMBDA p : Inner(p) # "")

ClippyEmpty(l, kind) ==
    IF l.kind = kind /\ OneIdentArg(l) /\ FirstEmpty(l) # 0
    THEN Inline(l, FirstEmpty(l), Brace(l.args[1], ""))
    ELSE l

ClippySpec(l, kind) ==
    IF l.kind = kind /\ OneIdentArg(l) /\ FirstSpecd(l) # 0
    THEN Inline(l, FirstSpecd(l),
                Brace(l.args[1], ":" \o Inner(l.tmpl[FirstSpecd(l)])))
    ELSE l

clippy_fix_format_strings(l) ==
    ClippySpec(ClippyEmpty(ClippySpec(ClippyEmpty(l, "format"), "format"),
                           "println"), "println")

\* 'let var =' becomes 'let _var =' for every listed name, on every line
\* (the '    var:' field rewrite has no counterpart among the lines).
RenameLet(l, names) ==
    IF l.kind = "let" /\ l.name \in names THEN [l EXCEPT !.name = "_" \o @] ELSE l

\* fix_file: format strings, then unused variables; fix_single_match and
\* fix_collapsible_patterns rewrite match and if-let forms, which none of
\* the lines has.
clippy_fix_file(f) ==
    [i \in DOMAIN f |-> RenameLet(clippy_fix_format_strings(f[i]), UnusedVarList)]

-----------------------------------------------------------------------------
(* fix_unused_vars.py: one (file, name) per clippy warning, then            *)
(* (let\s+)name(\s*=) renamed throughout the file; its field and         *)
(* parameter patterns need 'name:' after a blank, '(' or ',', which none   *)
(* of the lines has.                                                       *)

get_unused_variables(f) == {f[i].name : i \in UnusedLets(f)}

fix_unused_variable(f) == [i \in DOMAIN f |-> RenameLet(f[i], get_unused_variables(f))]

-----------------------------------------------------------------------------
(* fix_genuine_unused.py: the (name, line) pairs of clippy's warnings,     *)
(* line being clippy's 1-based number, used as the 0-based index           *)
(* lines[line_number], i.e. the line after.                                *)

\* is_variable_used(content, var, n): a later line (0-based index above n)
\* mentions \bvar\b and does not start with 'let var ='.
Words(l) == {l.name, l.rhs} \cup {ArgVar(l.args[k]) : k \in DOMAIN l.args}
                            \cup {l.tmpl[k].name : k \in DOMAIN l.tmpl}
is_variable_used(f, v, n) ==
    \E j \in (n + 2)..Len(f) : v \in Words(f[j]) /\ ~(f[j].kind = "let" /\ f[j].name = v)

fix_unused_variable_in_file(f, v, n) ==
    IF n >= Len(f) \/ is_variable_used(f, v, n) THEN f
    ELSE [f EXCEPT ![n + 1] = RenameLet(@, {v})]

\* main: the pairs in line order, each applied to the file as the previous
\* one left it.
genuine_unused_main(f) ==
    LET pairs == SetToSortSeq(UnusedLets(f), <)
        step(acc, n) == fix_unused_variable_in_file(acc, f[n].name, n)
    IN  FoldLeft(step, f, pairs)

-----------------------------------------------------------------------------
(* The scripts as steps over one file.  The input files are the programs  *)
(* that compile: up to MaxDecls declarations and uses, then at most one     *)
(* format!/println! line with positional placeholders.                     *)

VARIABLES
    file,   \* the file as the scripts have left it
    orig    \* the file before any script ran

vars == <<file, orig>>

ScriptNames == {"format", "clippy", "unused", "genuine"}

DeclLines == {Let(v, "") : v \in Vars} \cup {Let(v, v) : v \in Vars} \cup {Use(v) : v \in Vars}
OutLines  == {Fmt(k, t, a) : k \in {"format", "println"},
                             t \in BoundedSeq({Brace("", ""), Brace("", ":?")}, 2) \ {<<>>},
                             a \in BoundedSeq(Vars \cup Calls, 2)}
Programs  == {f \in {d \o o : d \in BoundedSeq(DeclLines, MaxDecls),
                              o \in BoundedSeq(OutLines, 1)} : Compiles(f)}

Init ==
    /\ orig \in Programs
    /\ file = orig

\* python3 fix_format_strings.py <file>: fix_file applies fix_format_args.
FixFormatStrings ==
    /\ "format" \in Scripts
    /\ file' = [i \in DOMAIN file |-> fix_format_args(file[i])]
    /\ UNCHANGED orig

\* python3 fix_clippy.py: fix_file on every tests/ and benches/ file.
FixClippy ==
    /\ "clippy" \in Scripts
    /\ file' = clippy_fix_file(file)
    /\ UNCHANGED orig

\* python3 fix_unused_vars.py: clippy's warnings, each name renamed.
FixUnusedVars ==
    /\ "unused" \in Scripts
    /\ file' = fix_unused_variable(file)
    /\ UNCHANGED orig

\* python3 fix_genuine_unused.py: the listed (name, line) pairs.
FixGenuineUnused ==
    /\ "genuine" \in Scripts
    /\ file' = genuine_unused_main(file)
    /\ UNCHANGED orig

Next == FixFormatStrings \/ FixClippy \/ FixUnusedVars \/ FixGenuineUnused

Spec == Init /\ [][Next]_vars

-----------------------------------------------------------------------------
(* Properties *)

\* Each script says it only inlines format arguments or marks unused
\* variables with '_': whatever scripts have run, in whatever order, the
\* file still compiles, every mention resolves to the same declaration,
\* and every value is printed with the same trait as before.
LintKeepsMeaning == Meaning(file) = Meaning(orig)

=============================================================================
