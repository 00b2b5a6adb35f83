------------------------------ MODULE JsonDepth ------------------------------
(***************************************************************************)
(* The bound on JSON nesting in santa_request_limits.py.  _check_depth     *)
(* scans the text with a counter and two flags and knows nothing of JSON;  *)
(* json.loads parses the same text afterwards and recurses once per open   *)
(* array or object.  Both read the text here character by character: the   *)
(* scan first decides about the whole text, so a text is parsed only while *)
(* the scan has not refused any of its prefixes.                           *)
(***************************************************************************)
EXTENDS Integers, Sequences

CONSTANTS Maximum,     \* limits.depth
          MaxLength    \* bound on the text

ASSUME DepthAssumption == Maximum \in Nat /\ MaxLength \in Nat

Opening == {"[", "{"}
Closing == {"]", "}"}
Char == Opening \cup Closing \cup {"quote", "backslash", "other"}

VARIABLES read,                       \* characters read so far
          depth, quoted, escaped,     \* the scan's variables
          refused,                    \* the scan raised RequestRejected
          stack,                      \* the arrays and objects the parser is in
          string, skip,               \* the parser is in a string, after a backslash
          failed                      \* the parser has found an error and stopped

scan == <<depth, quoted, escaped, refused>>
parser == <<stack, string, skip, failed>>
depthVars == <<read, scan, parser>>

DepthInit ==
    /\ read = 0
    /\ depth = 0 /\ quoted = FALSE /\ escaped = FALSE /\ refused = FALSE
    /\ stack = <<>> /\ string = FALSE /\ skip = FALSE /\ failed = FALSE

\* Mutant of Scan: the limit is tested before the bracket is counted.
ScanLate(c) ==
    IF quoted
    THEN /\ escaped' = (~escaped /\ c = "backslash")
         /\ quoted' = (escaped \/ c # "quote")
         /\ UNCHANGED <<depth, refused>>
    ELSE /\ quoted' = (c = "quote")
         /\ depth' = IF c \in Opening THEN depth + 1 ELSE IF c \in Closing THEN depth - 1 ELSE depth
         /\ refused' = (c \in Opening /\ depth > Maximum)
         /\ UNCHANGED escaped

\* One character of _check_depth.  A closing bracket is counted whether or not
\* anything is open: the depth may become negative.
Scan(c) ==
    IF quoted
    THEN /\ escaped' = (~escaped /\ c = "backslash")
         /\ quoted' = (escaped \/ c # "quote")
         /\ UNCHANGED <<depth, refused>>
    ELSE /\ quoted' = (c = "quote")
         /\ depth' = IF c \in Opening THEN depth + 1 ELSE IF c \in Closing THEN depth - 1 ELSE depth
         /\ refused' = (c \in Opening /\ depth + 1 > Maximum)
         /\ UNCHANGED escaped

Opener(c) == IF c = "]" THEN "[" ELSE "{"

\* json.loads: it fails at a bracket that closes nothing and at a backslash
\* outside a string, and may fail anywhere for the rest of the grammar.
Parse(c) ==
    \/ failed' = TRUE /\ UNCHANGED <<stack, string, skip>>
    \/ /\ string
       /\ skip' = (~skip /\ c = "backslash")
       /\ string' = (skip \/ c # "quote")
       /\ UNCHANGED <<stack, failed>>
    \/ /\ ~string
       /\ \/ c \in Opening /\ stack' = Append(stack, c)
          \/ /\ c \in Closing /\ stack # <<>> /\ stack[Len(stack)] = Opener(c)
             /\ stack' = SubSeq(stack, 1, Len(stack) - 1)
          \/ c \in {"quote", "other"} /\ UNCHANGED stack
       /\ string' = (c = "quote")
       /\ UNCHANGED <<skip, failed>>

DepthNext ==
    /\ ~refused /\ ~failed /\ read < MaxLength
    /\ read' = read + 1
    /\ \E c \in Char : Scan(c) /\ Parse(c)

DepthSpec == DepthInit /\ [][DepthNext]_depthVars

-----------------------------------------------------------------------------
DepthTypeOK ==
    /\ read \in 0 .. MaxLength
    /\ depth \in Int /\ quoted \in BOOLEAN /\ escaped \in BOOLEAN /\ refused \in BOOLEAN
    /\ stack \in Seq(Opening) /\ string \in BOOLEAN /\ skip \in BOOLEAN /\ failed \in BOOLEAN

\* The parser is never deeper than the limit in a text the scan accepts, even one
\* it fails on: brackets in strings, escaped quotes and unmatched closing brackets
\* give the text no way around the counter.
RecursionBounded == ~refused => Len(stack) <= Maximum

\* The scan refuses no text for its nesting that the parser would have read
\* within the limit: a refusal means the parser is really that deep.
RefusalJustified == refused /\ ~failed => Len(stack) > Maximum

\* The inductive invariant: while the parser has not failed, the scan's counter
\* and flags are the parser's stack height and string state.
InStep ==
    /\ DepthTypeOK
    /\ ~failed => depth = Len(stack) /\ quoted = string /\ escaped = skip
    /\ escaped => quoted
    /\ ~failed => (refused <=> depth > Maximum)
    /\ ~refused => Len(stack) <= Maximum
=============================================================================
