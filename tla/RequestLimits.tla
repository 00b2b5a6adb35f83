--------------------------- MODULE RequestLimits ---------------------------
(***************************************************************************)
(* The input boundary of a Santa request (santa_request_limits.py):        *)
(* decode_request and decode_bytes as the sequence of their checks, over   *)
(* bodies described by what the checks tell apart.  Sizes are counted in   *)
(* bytes, scaled down.  The nesting scan is JsonDepth.                     *)
(***************************************************************************)
EXTENDS Integers, FiniteSets, FiniteSetsExt

CONSTANTS Ceiling,     \* the hard bounds of configured_limits
          MaxSize,     \* bound on the sizes and counts of a request
          Collection   \* the event collections of a body

VARIABLES setting,    \* the AZD_SANTA_MAX_ values of the deployment
          request,    \* the request
          check,      \* the next check
          body,       \* size of the body that is checked
          held,       \* what is in memory: the body read, its expansion and the text
          status      \* 0 while undecided, 200 when accepted

sizesVars == <<setting, request, check, body, held, status>>

Compressions == {"gzip", "deflate"}
Encodings == Compressions \cup {"identity", "br"}

\* A Content-Length is missing, no decimal number, a decimal of more than 12
\* characters (zero-padded ones included), or a decimal short enough to convert.
Declared == [text : {"none", "junk", "long"}, length : {0}]
              \cup [text : {"decimal"}, length : 0 .. MaxSize]

\* declared: the Content-Length; sent: bytes on the wire; out: their size when
\* decompressed; events: the size of each collection; fault: what is ill-formed, if
\* anything.  A faulty "stream" is invalid, incomplete or followed by more data;
\* faulty "json" is not UTF-8, too deep, not JSON, with repeated members or infinite
\* numbers, or no object; faulty "events" are not lists of objects.
Requests ==
    [declared : Declared, sent : 0 .. MaxSize, encoding : Encodings, out : 0 .. MaxSize,
     events : [Collection -> 0 .. MaxSize], fault : {"none", "stream", "json", "events"}]

\* configured_limits: a value outside its hard bounds prevents startup.
Configured(s) == \A name \in DOMAIN Ceiling : s[name] \in 1 .. Ceiling[name]
limits == setting

SizesInit ==
    /\ setting \in [compressed : 0 .. MaxSize, expanded : 0 .. MaxSize, events : 0 .. MaxSize]
    /\ Configured(setting)
    /\ request \in Requests
    /\ check = "length" /\ body = 0 /\ held = 0 /\ status = 0

Answer(code) == status' = code /\ check' = "done"
Pass(next) == check' = next /\ UNCHANGED status
Least(a, b) == IF a < b THEN a ELSE b

\* A body of n bytes, beside what the callers still refer to.
Hold(n) == body' = n /\ held' = held + n

-----------------------------------------------------------------------------
\* The text or the value of the declared length is above what can be sent.
DeclaresTooMuch(d) == d.text = "long" \/ d.length > limits.compressed

\* decode_request: a declared length is checked before anything is read.
CheckLength ==
    /\ check = "length"
    /\ \/ request.declared.text = "none" /\ Pass("read")
       \/ request.declared.text = "junk" /\ Answer(400)
       \/ /\ request.declared.text \in {"decimal", "long"}
          /\ IF DeclaresTooMuch(request.declared) THEN Answer(413) ELSE Pass("read")
    /\ UNCHANGED <<setting, request, body, held>>

\* The read is bounded one byte above the limit, and refused if it gets there.
Read ==
    /\ check = "read"
    /\ Hold(Least(request.sent, limits.compressed + 1))
    /\ IF body' > limits.compressed THEN Answer(413) ELSE Pass("expand")
    /\ UNCHANGED <<setting, request>>

\* Mutant of Expand: the output is bounded at the limit itself.
ExpandAtLimit ==
    /\ check = "expand"
    /\ request.encoding \in Compressions
    /\ Hold(Least(request.out, limits.expanded))
    /\ \E tail \in IF request.out > limits.expanded THEN BOOLEAN ELSE {FALSE} :
          IF tail THEN Answer(413)
          ELSE IF request.fault = "stream" \/ request.out > limits.expanded THEN Answer(400)
          ELSE Pass("parse")
    /\ UNCHANGED <<setting, request>>

\* zlib yields at most one byte more than the limit, and decode_request still
\* refers to the compressed body.  Beyond the limit some input
\* may be left unconsumed, or all of it be consumed and output be pending: the
\* size of the output decides.  A stream that is not whole may fail at any point.
Expand ==
    /\ check = "expand"
    /\ request.encoding \in Compressions
    /\ Hold(Least(request.out, limits.expanded + 1))
    /\ \/ /\ body' > limits.expanded
          /\ Answer(413)
       \/ /\ body' <= limits.expanded
          /\ IF request.fault = "stream" THEN Answer(400) ELSE Pass("parse")
       \/ request.fault = "stream" /\ Answer(400)
    /\ UNCHANGED <<setting, request>>

\* A plain body meets both limits; any other encoding is refused.
Plain ==
    /\ check = "expand"
    /\ request.encoding \notin Compressions
    /\ IF request.encoding # "identity" THEN Answer(415)
       ELSE IF body > limits.expanded THEN Answer(413) ELSE Pass("parse")
    /\ UNCHANGED <<setting, request, body, held>>

\* UTF-8, nesting, JSON with unique members and finite numbers, an object.  The
\* text has at most one character for each byte of the body.
ParseBody ==
    /\ check = "parse"
    /\ held' = held + body
    /\ IF request.fault = "json" THEN Answer(400) ELSE Pass("count")
    /\ UNCHANGED <<setting, request, body>>

\* The events of a request, over all collections.
Total(r) == MapThenSumSet(LAMBDA c : r.events[c], Collection)

\* Lists of objects only, and their total within the batch limit.
Count ==
    /\ check = "count"
    /\ IF request.fault = "events" THEN Answer(400)
       ELSE IF Total(request) > limits.events THEN Answer(413) ELSE Answer(200)
    /\ UNCHANGED <<setting, request, body, held>>

SizesNext == CheckLength \/ Read \/ Expand \/ Plain \/ ParseBody \/ Count

SizesSpec == SizesInit /\ [][SizesNext]_sizesVars

-----------------------------------------------------------------------------
(* Properties.                                                             *)

Size(r) == IF r.encoding \in Compressions THEN r.out ELSE r.sent

\* What a request must be to be accepted, stated without the order of the checks.
WellFormed(r) ==
    /\ r.declared.text # "junk" /\ r.encoding # "br"
    /\ r.fault \notin {"json", "events"}
    /\ r.fault = "stream" => r.encoding \notin Compressions
Fits(r) ==
    /\ r.declared.text # "long" /\ r.declared.length <= limits.compressed
    /\ r.sent <= limits.compressed /\ Size(r) <= limits.expanded
    /\ ~ Total(r) > limits.events

\* Exactly the well-formed requests within all limits are accepted, those exactly
\* at a limit included; a well-formed one above a limit is answered 413, never 400
\* (the statuses of decode_bytes).  A Content-Length of more than 12 characters is
\* above the limit whatever its value.
AnswerIsRight ==
    check = "done" =>
        /\ status = 200 <=> WellFormed(request) /\ Fits(request)
        /\ WellFormed(request) /\ ~Fits(request) => status = 413

\* However large the body or what it expands to, the compressed body, its expansion
\* and the text together stay within the configured limits and one byte, and only a
\* body within the expanded limit is turned into text and parsed (the bounded read
\* and decompress).  The objects the parser makes of the text are not counted.
MemoryBounded ==
    /\ held <= limits.compressed + 2 * limits.expanded + 1
    /\ check \in {"parse", "count"} => body <= limits.expanded

\* Both: what a request is answered, and what it costs to answer it.
LimitsHold == AnswerIsRight /\ MemoryBounded
=============================================================================
