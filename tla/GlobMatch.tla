------------------------------ MODULE GlobMatch ------------------------------
(***************************************************************************)
(* glob_match (issuerd-cluster/src/cache.rs), the matcher behind           *)
(* scan_keys on the in-process backend, run as the loop it is over every   *)
(* pattern and key up to a length, and compared with the meaning its       *)
(* comment gives a pattern.  escape_scan_pattern (issuerd-core) is what    *)
(* the admin API wraps around user names before it scans.                  *)
(***************************************************************************)
EXTENDS Naturals, Sequences

CONSTANTS
    Letters,    \* ordinary bytes
    MaxPattern, \* bound on the length of a pattern
    MaxKey      \* bound on the length of a key

Star  == "*"
Slash == "\\"
Bytes == Letters \cup {Star, Slash}

ASSUME GlobAssumption == MaxPattern \in Nat /\ MaxKey \in Nat

UpTo(n) == UNION {[1 .. m -> Bytes] : m \in 0 .. n}

VARIABLES
    p,      \* the pattern
    k,      \* the key
    pi,     \* the code's pi + 1: the next pattern byte
    ki,     \* the code's ki + 1: the next key byte
    star,   \* the last star and where its expansion is retried, <<0, 0>> = None
    result  \* "running", "yes" or "no"

vars == <<p, k, pi, ki, star, result>>

Init ==
    /\ p \in UpTo(MaxPattern) /\ k \in UpTo(MaxKey)
    /\ pi = 1 /\ ki = 1
    /\ star = <<0, 0>>
    /\ result = "running"

-----------------------------------------------------------------------------
(* The loop *)

Scanning == result = "running" /\ ki <= Len(k)
AtStar   == pi <= Len(p) /\ p[pi] = Star

\* An escape takes as much room as the byte it stands for.
BugWidth ==
    IF pi > Len(p) \/ AtStar THEN 0
    ELSE IF p[pi] = Slash /\ pi < Len(p) THEN (IF p[pi + 1] = k[ki] THEN 1 ELSE 0)
    ELSE IF p[pi] = k[ki] THEN 1 ELSE 0

\* literal_width: how much of the pattern the literal at pi takes when it
\* matches k[ki], 0 when it does not.
Width ==
    IF pi > Len(p) \/ AtStar THEN 0
    ELSE IF p[pi] = Slash /\ pi < Len(p) THEN (IF p[pi + 1] = k[ki] THEN 2 ELSE 0)
    ELSE IF p[pi] = k[ki] THEN 1 ELSE 0

TakeStar ==
    /\ Scanning /\ AtStar
    /\ star' = <<pi, ki>>
    /\ pi' = pi + 1
    /\ UNCHANGED <<p, k, ki, result>>

TakeLiteral ==
    /\ Scanning /\ ~AtStar /\ Width > 0
    /\ pi' = pi + Width
    /\ ki' = ki + 1
    /\ UNCHANGED <<p, k, star, result>>

\* On a mismatch the last star absorbs one more byte.
Retry == <<star[1], star[2] + 1>>

Backtrack ==
    /\ Scanning /\ ~AtStar /\ Width = 0 /\ star[1] > 0
    /\ star' = Retry
    /\ pi' = star[1] + 1
    /\ ki' = Retry[2]
    /\ UNCHANGED <<p, k, result>>

Mismatch ==
    /\ Scanning /\ ~AtStar /\ Width = 0 /\ star[1] = 0
    /\ result' = "no"
    /\ UNCHANGED <<p, k, pi, ki, star>>

SkipStar ==
    /\ result = "running" /\ ki > Len(k) /\ AtStar
    /\ pi' = pi + 1
    /\ UNCHANGED <<p, k, ki, star, result>>

Finish ==
    /\ result = "running" /\ ki > Len(k) /\ ~AtStar
    /\ result' = IF pi > Len(p) THEN "yes" ELSE "no"
    /\ UNCHANGED <<p, k, pi, ki, star>>

Next == TakeStar \/ TakeLiteral \/ Backtrack \/ Mismatch \/ SkipStar \/ Finish

Spec == Init /\ [][Next]_vars

-----------------------------------------------------------------------------
(* What a pattern means *)

\* Some expansion of the stars makes the pattern spell the key: from[i] are the
\* bytes of the key from which on the pattern from byte i on spells the rest.
Matches(q, s) ==
    LET from[i \in 1 .. Len(q) + 1] ==
            IF i > Len(q) THEN {Len(s) + 1}
            ELSE IF q[i] = Star THEN {j \in 1 .. Len(s) + 1 : \E m \in from[i + 1] : j <= m}
            ELSE IF q[i] = Slash /\ i < Len(q)
                 THEN {j \in 1 .. Len(s) : s[j] = q[i + 1] /\ j + 1 \in from[i + 2]}
            ELSE {j \in 1 .. Len(s) : s[j] = q[i] /\ j + 1 \in from[i + 1]}
    IN  1 \in from[1]

\* The bytes escape_scan_pattern puts a backslash before ('?', '[' and ']'
\* are ordinary bytes to glob_match and are not told apart here).
Metacharacters == {Star, Slash}

\* escape_scan_pattern, a byte at a time.
Escape(s) ==
    LET upTo[n \in 0 .. Len(s)] ==
            IF n = 0 THEN <<>>
            ELSE upTo[n - 1] \o IF s[n] \in Metacharacters THEN <<Slash, s[n]>> ELSE <<s[n]>>
    IN  upTo[Len(s)]

\* Every name with its escaped spelling.
Escaped == {<<Escape(n), n>> : n \in UpTo(MaxKey)}

-----------------------------------------------------------------------------
(* Properties *)

\* Backtracking to the last star only is enough: the loop says yes exactly
\* when some expansion of the stars makes the pattern spell the key.
MatchesMeaning == result # "running" => (result = "yes" <=> Matches(p, k))

\* The escaped spelling of a name matches that name and no other key, so the
\* scan behind an admin's unlock finds exactly the user it was asked for.
EscapeIsLiteral ==
    result # "running" => \A e \in Escaped : e[1] = p => (result = "yes" <=> k = e[2])

=============================================================================
