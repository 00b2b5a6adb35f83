--------------------------- MODULE AdmissionProofs ---------------------------
(***************************************************************************)
(* Theorems about what a Santa request meets, for every limit and window:  *)
(* the nesting of its text (JsonDepth), its sizes (RequestLimits) and sync *)
(* admission, for every number of threads, tokens and slots: the permits   *)
(* and the handlers they stand for, the counters of the budgets and the    *)
(* number of their keys.                                                   *)
(***************************************************************************)
EXTENDS Admission, JsonDepth, RequestLimits, TLAPS

-----------------------------------------------------------------------------
(* The nesting of the text.                                                *)

\* A character that is no bracket leaves the counter alone, an opening one adds one
\* and a closing one subtracts one (the branches of _check_depth outside a string).
LEMMA ScanCounts ==
    ASSUME NEW c \in Char, DepthTypeOK, ~quoted, Scan(c)
    PROVE  /\ c \in Opening => depth' = depth + 1 /\ (refused' <=> depth + 1 > Maximum)
           /\ c \in Closing => depth' = depth - 1 /\ refused' = FALSE
           /\ c \notin Opening \cup Closing => depth' = depth /\ refused' = FALSE
           /\ quoted' = (c = "quote") /\ escaped' = escaped
<1>1. /\ quoted' = (c = "quote") /\ escaped' = escaped
      /\ depth' = IF c \in Opening THEN depth + 1 ELSE IF c \in Closing THEN depth - 1 ELSE depth
      /\ refused' = (c \in Opening /\ depth + 1 > Maximum)
  BY Zenon DEF Scan
<1>2. ~(c \in Opening /\ c \in Closing)
  BY Zenon DEF Opening, Closing
<1>3. c \in Opening => (refused' <=> depth + 1 > Maximum)
  BY Zenon, <1>1
<1>4. c \notin Opening => refused' = FALSE
  BY Zenon, <1>1
<1> QED BY Zenon, <1>1, <1>2, <1>3, <1>4

\* Every step keeps the scan and a parser that has not failed in step.
LEMMA StepKeepsInStep ==
    ASSUME InStep, [DepthNext]_depthVars
    PROVE  InStep'
<1> USE DepthAssumption
<1>1. CASE UNCHANGED depthVars
  BY <1>1, Zenon DEF InStep, DepthTypeOK, depthVars, scan, parser
<1>2. CASE DepthNext
  <2>1. PICK c \in Char : Scan(c) /\ Parse(c)
    BY <1>2, Zenon DEF DepthNext
  <2>2. /\ ~refused /\ ~failed /\ read < MaxLength /\ read' = read + 1
        /\ read \in 0 .. MaxLength /\ depth \in Int /\ stack \in Seq(Opening)
        /\ depth = Len(stack) /\ quoted = string /\ escaped = skip /\ (escaped => quoted)
        /\ depth <= Maximum
        /\ quoted \in BOOLEAN /\ escaped \in BOOLEAN /\ refused \in BOOLEAN
    BY <1>2, Zenon DEF DepthNext, InStep, DepthTypeOK
  <2>3. read' \in 0 .. MaxLength
    BY <2>2
  <2>4. /\ depth' \in Int /\ quoted' \in BOOLEAN /\ escaped' \in BOOLEAN /\ refused' \in BOOLEAN
        /\ escaped' => quoted'
    <3>1. CASE quoted
      <4>1. /\ escaped' = (~escaped /\ c = "backslash") /\ quoted' = (escaped \/ c # "quote")
            /\ depth' = depth /\ refused' = refused
        BY Zenon, <2>1, <3>1 DEF Scan
      <4>2. refused' \in BOOLEAN /\ depth' \in Int
        BY <2>2, <4>1, Zenon
      <4>3. escaped' \in BOOLEAN /\ quoted' \in BOOLEAN
        BY Zenon, <4>1
      <4>4. escaped' => quoted'
        BY <4>1, Zenon
      <4> QED BY <4>2, <4>3, <4>4, Zenon
    <3>2. CASE ~quoted
      <4>1. /\ quoted' = (c = "quote") /\ escaped' = escaped
            /\ depth' = IF c \in Opening THEN depth + 1 ELSE IF c \in Closing THEN depth - 1 ELSE depth
            /\ refused' = (c \in Opening /\ depth + 1 > Maximum)
        BY Zenon, <2>1, <3>2 DEF Scan
      <4>2. depth' \in Int
        BY <2>2, <4>1
      <4>3. escaped' \in BOOLEAN /\ quoted' \in BOOLEAN /\ refused' \in BOOLEAN
        BY Zenon, <2>2, <4>1
      <4>4. ~escaped'
        BY <2>2, <3>2, <4>1, Zenon
      <4> QED BY <4>2, <4>3, <4>4, Zenon
    <3> QED BY <3>1, <3>2, Zenon
  <2>5. CASE failed' = TRUE /\ UNCHANGED <<stack, string, skip>>
    <3>1. stack' \in Seq(Opening) /\ string' \in BOOLEAN /\ skip' \in BOOLEAN /\ failed' \in BOOLEAN
      BY <2>2, <2>5, Zenon
    <3>2. Len(stack') <= Maximum
      BY <2>2, <2>5, Zenon
    <3> QED BY <2>3, <2>4, <2>5, <3>1, <3>2, Zenon DEF InStep, DepthTypeOK
  <2>6. CASE /\ string
             /\ skip' = (~skip /\ c = "backslash")
             /\ string' = (skip \/ c # "quote")
             /\ UNCHANGED <<stack, failed>>
    <3>1. /\ depth' = depth /\ refused' = refused
          /\ quoted' = string' /\ escaped' = skip'
      BY <2>1, <2>2, <2>6, Zenon DEF Scan
    <3>2. stack' = stack /\ failed' = failed
      BY <2>6, Zenon
    <3> QED BY <2>2, <2>3, <2>4, <3>1, <3>2, Zenon DEF InStep, DepthTypeOK
  <2>7. CASE /\ ~string
             /\ \/ c \in Opening /\ stack' = Append(stack, c)
                \/ /\ c \in Closing /\ stack # <<>> /\ stack[Len(stack)] = Opener(c)
                   /\ stack' = SubSeq(stack, 1, Len(stack) - 1)
                \/ c \in {"quote", "other"} /\ UNCHANGED stack
             /\ string' = (c = "quote")
             /\ UNCHANGED <<skip, failed>>
    <3>1. /\ c \in Opening => depth' = depth + 1 /\ (refused' <=> depth + 1 > Maximum)
          /\ c \in Closing => depth' = depth - 1 /\ refused' = FALSE
          /\ c \notin Opening \cup Closing => depth' = depth /\ refused' = FALSE
          /\ quoted' = (c = "quote") /\ escaped' = escaped
      BY <2>1, <2>2, <2>7, ScanCounts, Zenon DEF InStep
    <3>2. /\ quoted' = string' /\ escaped' = skip' /\ failed' = FALSE
          /\ string' \in BOOLEAN /\ skip' \in BOOLEAN
      BY <2>2, <2>7, <3>1
    <3>3. stack' \in Seq(Opening) /\ depth' = Len(stack') /\ (refused' <=> depth' > Maximum)
      <4>1. CASE c \in Opening /\ stack' = Append(stack, c)
        <5>1. stack' \in Seq(Opening) /\ Len(stack') = Len(stack) + 1
          BY <2>2, <4>1
        <5> QED BY <2>2, <3>1, <4>1, <5>1, Zenon
      <4>2. CASE /\ c \in Closing /\ stack # <<>> /\ stack[Len(stack)] = Opener(c)
                 /\ stack' = SubSeq(stack, 1, Len(stack) - 1)
        <5>1. Len(stack) \in Nat /\ Len(stack) # 0
          BY <2>2, <4>2
        <5>2. stack' \in Seq(Opening) /\ Len(stack') = Len(stack) - 1
          BY <2>2, <4>2, <5>1
        <5> QED BY <2>2, <3>1, <4>2, <5>1, <5>2
      <4>3. CASE c \in {"quote", "other"} /\ UNCHANGED stack
        <5>1. c \notin Opening \cup Closing
          BY <4>3, Zenon DEF Opening, Closing
        <5> QED BY <2>2, <3>1, <4>3, <5>1
      <4> QED BY <2>7, <4>1, <4>2, <4>3, Zenon
    <3>4. ~refused' => Len(stack') <= Maximum
      BY <2>4, <3>3
    <3> QED BY <2>3, <2>4, <3>2, <3>3, <3>4, Zenon DEF InStep, DepthTypeOK
  <2> QED BY <2>1, <2>5, <2>6, <2>7, Zenon DEF Parse
<1> QED BY <1>1, <1>2, Zenon DEF InStep

\* The scan and the parser are in step in every reachable state.
THEOREM AlwaysInStep == DepthSpec => []InStep
<1>1. DepthInit => InStep
  <2> SUFFICES ASSUME DepthInit PROVE InStep
    BY Zenon
  <2>1. stack \in Seq(Opening) /\ Len(stack) = 0 /\ depth = 0 /\ read = 0
    BY DEF DepthInit, Opening
  <2>2. ~quoted /\ ~escaped /\ ~refused /\ ~string /\ ~skip /\ ~failed
    BY Zenon DEF DepthInit
  <2>3. /\ quoted \in BOOLEAN /\ escaped \in BOOLEAN /\ refused \in BOOLEAN
        /\ string \in BOOLEAN /\ skip \in BOOLEAN /\ failed \in BOOLEAN
        /\ quoted = string /\ escaped = skip
    BY Zenon DEF DepthInit
  <2> QED BY <2>1, <2>2, <2>3, DepthAssumption DEF InStep, DepthTypeOK
<1> QED BY <1>1, StepKeepsInStep, PTL DEF DepthSpec

\* The recursion of json.loads is bounded by limits.depth for every accepted text,
\* of any length and for any limit (_check_depth before json.loads).
THEOREM RecursionAlwaysBounded == DepthSpec => []RecursionBounded
<1>1. InStep => RecursionBounded
  BY Zenon DEF InStep, RecursionBounded
<1> QED BY <1>1, AlwaysInStep, PTL

\* A refusal of _check_depth means that the text is nested deeper than the limit as
\* far as the parser can read it.
THEOREM RefusalAlwaysJustified == DepthSpec => []RefusalJustified
<1>1. InStep => RefusalJustified
  BY Zenon DEF InStep, DepthTypeOK, RefusalJustified
<1> QED BY <1>1, AlwaysInStep, PTL

-----------------------------------------------------------------------------
(* The sizes of the request.                                               *)

\* What the checks that are over have established about the request, for each check
\* that may be next, and how much of it is in memory by then.
SizesInv ==
  /\ setting \in [compressed : Nat, expanded : Nat, events : Nat]
  /\ request \in [declared : [text : {"none", "junk", "long", "decimal"}, length : Nat],
                  sent : Nat, encoding : Encodings, out : Nat,
                  events : [Collection -> 0 .. MaxSize], fault : {"none", "stream", "json", "events"}]
  /\ check \in {"length", "read", "expand", "parse", "count", "done"}
  /\ request.declared.text # "decimal" => request.declared.length = 0
  /\ body \in Nat /\ held \in Nat
  /\ MemoryBounded
  /\ check \in {"length", "read"} => held = 0
  /\ check = "expand" => held <= setting.compressed
  /\ check = "parse" => held <= setting.compressed + setting.expanded
  /\ check \in {"read", "expand", "parse", "count"} =>
       /\ request.declared.text \notin {"junk", "long"}
       /\ request.declared.length <= setting.compressed
  /\ check \in {"expand", "parse", "count"} => request.sent <= setting.compressed
  /\ check = "expand" => body = request.sent
  /\ check \in {"parse", "count"} =>
       /\ request.encoding # "br" /\ Size(request) <= setting.expanded
       /\ request.fault = "stream" => request.encoding \notin Compressions
  /\ check = "count" => request.fault # "json"
  /\ AnswerIsRight

\* Every check of decode_request and decode_bytes establishes its part, or decides.
LEMMA SizesStep == SizesInv /\ [SizesNext]_sizesVars => SizesInv'
<1> SUFFICES ASSUME SizesInv, [SizesNext]_sizesVars PROVE SizesInv'
  BY Zenon
<1> USE DEF SizesInv, AnswerIsRight, MemoryBounded, Answer, Pass,
        limits, Size, WellFormed, Fits
<1>1. CASE CheckLength
  BY <1>1 DEF CheckLength, DeclaresTooMuch
<1>2. CASE Read
  BY <1>2 DEF Read, Hold, Least
<1>3. CASE Expand
  BY <1>3 DEF Expand, Hold, Least, Compressions
<1>4. CASE Plain
  BY <1>4 DEF Plain, Encodings, Compressions
<1>5. CASE ParseBody
  BY <1>5 DEF ParseBody
<1>6. CASE Count
  BY <1>6 DEF Count
<1>7. CASE UNCHANGED sizesVars
  BY <1>7 DEF sizesVars
<1> QED BY <1>1, <1>2, <1>3, <1>4, <1>5, <1>6, <1>7, Zenon DEF SizesNext

\* Exactly the well-formed requests within all limits are accepted, one above a limit
\* is answered 413, and the bodies and the text in memory stay within the limits and
\* one byte (decode_request and decode_bytes), for every configuration and request.
THEOREM LimitsAlwaysHold == SizesSpec => []LimitsHold
<1>1. SizesInit => SizesInv
  BY DEF SizesInit, SizesInv, Requests, Declared, AnswerIsRight, MemoryBounded, limits
<1>2. SizesInv => LimitsHold
  BY Zenon DEF SizesInv, LimitsHold
<1> QED BY <1>1, <1>2, SizesStep, PTL DEF SizesSpec

-----------------------------------------------------------------------------
(* Permits.                                                                *)

USE DEF Slot, Key, Identity, Acquiring, Releasing

\* The limits are positive numbers, so a counter can be compared with them.
LEMMA LimitType == Limit \in [Key -> Nat \ {0}]
BY LimitAssumption, Zenon DEF Limit

\* Charging counters keeps their type.
LEMMA ChargeType ==
  ASSUME TypeOK, NEW keys, Charge(keys)
  PROVE  count' \in [Key -> Nat] /\ ttl' \in [Key -> 0 .. Window]
BY LimitAssumption DEF TypeOK, Charge

\* A reply keeps the types of the thread state and of the scripts in flight.
LEMMA ReplyType ==
  ASSUME TypeOK, NEW c \in inflight, NEW state \in {"idle", "running"}, Reply(c, state)
  PROVE  /\ inflight' \subseteq inflight
         /\ pc' \in [Thread -> {"idle", "acquiring", "running", "releasing"}]
         /\ permit' \in [Thread -> Token \cup {None}]
BY Zenon DEF TypeOK, Reply

\* Every step keeps the types: Redis fields, counters and thread states stay
\* within what the scripts and the middleware can write.
LEMMA TypeStep == TypeOK /\ BusyHasToken /\ [Next]_vars => TypeOK'
<1> SUFFICES ASSUME TypeOK, BusyHasToken, [Next]_vars PROVE TypeOK'
  BY Zenon
<1>1. ASSUME NEW c \in inflight, AcquireLimited(c) PROVE TypeOK'
  BY <1>1, ReplyType, Zenon DEF AcquireLimited, TypeOK
<1>2. ASSUME NEW c \in inflight, AcquireRefused(c) PROVE TypeOK'
  BY <1>2, ReplyType, ChargeType, Zenon DEF AcquireRefused, TypeOK
<1>3. ASSUME NEW c \in inflight, NEW s \in Slot, AcquireGranted(c, s) PROVE TypeOK'
  <2>1. c.token \in Token
    BY Zenon DEF TypeOK
  <2>2. permits' \in [Slot -> Token \cup {None}]
    BY <1>3, <2>1, Zenon DEF AcquireGranted, TypeOK
  <2>3. count' \in [Key -> Nat] /\ ttl' \in [Key -> 0 .. Window]
    BY <1>3, ChargeType, Zenon DEF AcquireGranted
  <2> QED
    BY <1>3, <2>2, <2>3, ReplyType, Zenon DEF AcquireGranted, TypeOK
<1>4. ASSUME NEW c \in inflight, Release(c) PROVE TypeOK'
  <2>1. permits' \in [Slot -> Token \cup {None}]
    BY <1>4, Zenon DEF Release, TypeOK
  <2> QED
    BY <1>4, <2>1, ReplyType, Zenon DEF Release, TypeOK
<1>5. ASSUME NEW c \in inflight, Unavailable(c) PROVE TypeOK'
  BY <1>5, ReplyType, Zenon DEF Unavailable, TypeOK
<1>6. ASSUME NEW t \in Thread, NEW k \in Token, NEW s \in Source, NEW c \in Credential,
             Arrive(t, k, s, c)
      PROVE  TypeOK'
  BY <1>6 DEF Arrive, TypeOK
<1>7. ASSUME NEW t \in Thread, GiveUp(t) PROVE TypeOK'
  BY <1>7, Zenon DEF GiveUp, TypeOK
<1>8. ASSUME NEW t \in Thread, Finish(t) PROVE TypeOK'
  <2>1. permit[t] \in Token
    BY <1>8, Zenon DEF Finish, TypeOK, BusyHasToken
  <2> QED
    BY <1>8, <2>1, CapacityAssumption DEF Finish, TypeOK
<1>9. ASSUME NEW t \in Thread, Stream(t) PROVE TypeOK'
  BY <1>9, Zenon DEF Stream, TypeOK
<1>10. CASE Tick
  BY <1>10, LimitAssumption DEF Tick, TypeOK
<1>11. CASE Initialize \/ Open \/ Close \/ Reconcile
  BY <1>11, Zenon DEF Initialize, Open, Close, Reconcile, TypeOK
<1>12. CASE UNCHANGED vars
  BY <1>12, Zenon DEF vars, TypeOK
<1> QED
  BY <1>1, <1>2, <1>3, <1>4, <1>5, <1>6, <1>7, <1>8, <1>9, <1>10, <1>11, <1>12, Zenon
  DEF Next, ScriptRuns, ThreadStep

\* A reply without a grant keeps the link between permits and handlers as long
\* as it frees no slot of a running handler.
LEMMA ReplyIdle ==
  ASSUME TypeOK, PermitBacksHandler, NEW c \in inflight, Reply(c, "idle"), open' = open,
         \A t \in Thread : pc[t] = "running" => permits'[0] = permits[0]
  PROVE  PermitBacksHandler'
<1> USE DEF Reply, Waiting, TypeOK
<1>1. BusyHasToken'
  BY Zenon DEF PermitBacksHandler, BusyHasToken
<1>2. TokensDiffer'
  BY Zenon DEF PermitBacksHandler, TokensDiffer
<1>3. HandlerHoldsSlot'
  BY Zenon DEF PermitBacksHandler, HandlerHoldsSlot
<1>4. ReleaseAfterHandler'
  BY KeyAssumption DEF PermitBacksHandler, ReleaseAfterHandler
<1>5. ClosedServesNobody'
  BY Zenon DEF PermitBacksHandler, ClosedServesNobody
<1> QED
  BY <1>1, <1>2, <1>3, <1>4, <1>5, Zenon DEF PermitBacksHandler

\* A grant of slot 0 makes the waiting thread the running handler of that slot:
\* no other handler can be running, since slot 0 was free.
LEMMA ReplyRunning ==
  ASSUME TypeOK, PermitBacksHandler, NEW c \in inflight, c.op = "acquire",
         Reply(c, "running"), open' = open, permits[0] = None, permits'[0] = c.token
  PROVE  PermitBacksHandler'
<1> USE DEF Reply, Waiting, TypeOK
<1>1. BusyHasToken'
  BY Zenon DEF PermitBacksHandler, BusyHasToken
<1>2. TokensDiffer'
  BY Zenon DEF PermitBacksHandler, TokensDiffer
<1>3. HandlerHoldsSlot'
  <2>1. \A t \in Thread : pc[t] # "running"
    BY KeyAssumption, Zenon DEF PermitBacksHandler, HandlerHoldsSlot, BusyHasToken
  <2> QED
    BY <2>1, Zenon DEF HandlerHoldsSlot
<1>4. ReleaseAfterHandler'
  BY Zenon DEF PermitBacksHandler, ReleaseAfterHandler
<1>5. ClosedServesNobody'
  BY Zenon DEF PermitBacksHandler, ClosedServesNobody
<1> QED
  BY <1>1, <1>2, <1>3, <1>4, <1>5, Zenon DEF PermitBacksHandler

\* Every step of the scripts, the middleware and the host keeps a running
\* handler backed by its own permit.
LEMMA PermitStep == TypeOK /\ PermitBacksHandler /\ [Next]_vars => PermitBacksHandler'
<1> SUFFICES ASSUME TypeOK, PermitBacksHandler, [Next]_vars PROVE PermitBacksHandler'
  BY Zenon
<1>0. 0 \in Slot
  BY CapacityAssumption
<1>1. ASSUME NEW c \in inflight, AcquireLimited(c) \/ AcquireRefused(c) \/ Unavailable(c)
      PROVE  PermitBacksHandler'
  BY <1>1, ReplyIdle, Zenon DEF AcquireLimited, AcquireRefused, Unavailable
<1>2. ASSUME NEW c \in inflight, c.op = "acquire", NEW s \in Slot, AcquireGranted(c, s)
      PROVE  PermitBacksHandler'
  <2>1. permits[s] = None
    BY <1>2, Zenon DEF AcquireGranted, FirstFree, Free
  <2>2. CASE s = 0
    <3>1. permits'[0] = c.token
      BY <1>2, <2>2, <1>0, Zenon DEF AcquireGranted, TypeOK
    <3> QED
      BY <1>2, <2>1, <2>2, <3>1, ReplyRunning, Zenon DEF AcquireGranted
  <2>3. CASE s # 0
    <3>1. permits'[0] = permits[0]
      BY <1>2, <2>3, <1>0, Zenon DEF AcquireGranted, TypeOK
    <3> QED
      BY <1>2, <2>3, <3>1, ReplyIdle, Zenon DEF AcquireGranted
  <2> QED
    BY <2>2, <2>3, Zenon
<1>3. ASSUME NEW c \in inflight, c.op = "release", Release(c) PROVE PermitBacksHandler'
  <2>1. ASSUME NEW t \in Thread, pc[t] = "running" PROVE permits'[0] = permits[0]
    <3>1. permits[0] = permit[t] /\ permit[t] # c.token
      BY <1>3, <2>1, Zenon DEF PermitBacksHandler, HandlerHoldsSlot, ReleaseAfterHandler
    <3> QED
      BY <1>3, <3>1, <1>0, Zenon DEF Release, TypeOK
  <2> QED
    BY <1>3, <2>1, ReplyIdle, Zenon DEF Release
<1>4. ASSUME NEW t \in Thread, NEW k \in Token, NEW s \in Source, NEW c \in Credential,
             Arrive(t, k, s, c)
      PROVE  PermitBacksHandler'
  <2>1. /\ k # None
        /\ \A u \in Thread : permit[u] # k
        /\ \A d \in inflight : d.token # k
    BY <1>4, KeyAssumption, Zenon DEF Arrive, Fresh
  <2>2. BusyHasToken' /\ HandlerHoldsSlot' /\ ClosedServesNobody'
    BY <1>4, <2>1, Zenon DEF Arrive, TypeOK, PermitBacksHandler, BusyHasToken, HandlerHoldsSlot,
                      ClosedServesNobody
  <2>3. TokensDiffer'
    BY <1>4, <2>1, Zenon DEF Arrive, TypeOK, PermitBacksHandler, TokensDiffer
  <2>4. ReleaseAfterHandler'
    BY <1>4, <2>1 DEF Arrive, TypeOK, PermitBacksHandler, ReleaseAfterHandler
  <2> QED
    BY <2>2, <2>3, <2>4, Zenon DEF PermitBacksHandler
<1>5. ASSUME NEW t \in Thread, GiveUp(t) \/ Stream(t) PROVE PermitBacksHandler'
  <2>1. BusyHasToken' /\ HandlerHoldsSlot' /\ ClosedServesNobody'
    BY <1>5, Zenon DEF GiveUp, Stream, TypeOK, PermitBacksHandler, BusyHasToken, HandlerHoldsSlot,
                ClosedServesNobody
  <2>2. TokensDiffer'
    BY <1>5, Zenon DEF GiveUp, Stream, TypeOK, PermitBacksHandler, TokensDiffer
  <2>3. ReleaseAfterHandler'
    BY <1>5, KeyAssumption, SMTT(60) DEF GiveUp, Stream, TypeOK, PermitBacksHandler, ReleaseAfterHandler
  <2> QED
    BY <2>1, <2>2, <2>3, Zenon DEF PermitBacksHandler
<1>6. ASSUME NEW t \in Thread, Finish(t) PROVE PermitBacksHandler'
  <2>1. BusyHasToken' /\ HandlerHoldsSlot' /\ ClosedServesNobody' /\ TokensDiffer'
    BY <1>6, Zenon DEF Finish, TypeOK, PermitBacksHandler, BusyHasToken, HandlerHoldsSlot,
                ClosedServesNobody, TokensDiffer
  <2>2. ReleaseAfterHandler'
    BY <1>6 DEF Finish, TypeOK, PermitBacksHandler, ReleaseAfterHandler, TokensDiffer,
                BusyHasToken
  <2> QED
    BY <2>1, <2>2, Zenon DEF PermitBacksHandler
<1>7. CASE Tick \/ Initialize \/ Open \/ UNCHANGED vars
  BY <1>7, ZenonT(60) DEF Tick, Initialize, Open, vars, PermitBacksHandler, BusyHasToken, TokensDiffer,
              HandlerHoldsSlot, ReleaseAfterHandler, ClosedServesNobody
<1>8. CASE Close \/ Reconcile
  <2>1. \A t \in Thread : pc'[t] = "idle" /\ permit'[t] = None
    BY <1>8, Zenon DEF Close, Reconcile, PermitBacksHandler, ClosedServesNobody, BusyHasToken
  <2>2. inflight' \subseteq inflight
    BY <1>8, Zenon DEF Close, Reconcile
  <2> QED
    BY <2>1, <2>2, KeyAssumption DEF TypeOK, PermitBacksHandler, BusyHasToken, TokensDiffer,
       HandlerHoldsSlot, ReleaseAfterHandler, ClosedServesNobody
<1> QED
  BY <1>1, <1>2, <1>3, <1>4, <1>5, <1>6, <1>7, <1>8, Zenon DEF Next, ScriptRuns, ThreadStep

\* Type correctness and the permit invariant hold in every reachable state.
THEOREM PermitInvariant == Spec => [](TypeOK /\ PermitBacksHandler)
<1>1. Init => TypeOK /\ PermitBacksHandler
  <2> SUFFICES ASSUME Init PROVE TypeOK /\ PermitBacksHandler
    BY Zenon
  <2>1. TypeOK
    <3>1. ttl \in [Key -> 0 .. Window] /\ count \in [Key -> Nat]
      BY LimitAssumption DEF Init
    <3>2. stored \in BOOLEAN /\ open \in BOOLEAN /\ inflight = {}
      BY Zenon DEF Init
    <3>3. /\ pc \in [Thread -> {"idle", "acquiring", "running", "releasing"}]
          /\ permit \in [Thread -> Token \cup {None}]
          /\ permits \in [Slot -> Token \cup {None}]
      BY Zenon DEF Init
    <3> QED
      BY <3>1, <3>2, <3>3, Zenon DEF TypeOK
  <2>2. PermitBacksHandler
    BY Zenon DEF Init, PermitBacksHandler, BusyHasToken, TokensDiffer, HandlerHoldsSlot,
           ReleaseAfterHandler, ClosedServesNobody
  <2> QED
    BY <2>1, <2>2, Zenon
<1>2. TypeOK /\ PermitBacksHandler /\ [Next]_vars => (TypeOK /\ PermitBacksHandler)'
  BY TypeStep, PermitStep, Zenon DEF PermitBacksHandler
<1> QED
  BY <1>1, <1>2, PTL DEF Spec

\* At most one sync handler runs at a time, for every capacity, thread count and
\* history of lost, late or resent scripts, deaths and reconciliations.
THEOREM OneHandlerAlways == Spec => []OneHandler
<1>1. TypeOK /\ PermitBacksHandler => OneHandler
  BY Zenon DEF PermitBacksHandler, BusyHasToken, TokensDiffer, HandlerHoldsSlot, OneHandler
<1> QED
  BY <1>1, PermitInvariant, PTL

\* Whoever frees a slot while the listener is open is its owner's own RELEASE.
THEOREM PermitsGivenUpByOwners == Spec => PermitGivenUpByOwner
<1>1. TypeOK /\ [Next]_vars
        => [\A s \in Slot :
              permits[s] # None /\ permits'[s] # permits[s]
                => \/ ~ open
                   \/ [op |-> "release", token |-> permits[s], slot |-> s] \in inflight]_vars
  <2> SUFFICES ASSUME TypeOK, Next, NEW s \in Slot, permits[s] # None,
                      permits'[s] # permits[s], open
               PROVE  [op |-> "release", token |-> permits[s], slot |-> s] \in inflight
    BY Zenon DEF vars
  <2>1. ASSUME NEW c \in inflight, c.op = "release", Release(c)
        PROVE  [op |-> "release", token |-> permits[s], slot |-> s] \in inflight
    <3>1. c.slot = s /\ c.token = permits[s]
      BY <2>1, Zenon DEF Release, TypeOK
    <3> QED
      BY <2>1, <3>1, Zenon DEF TypeOK
  <2>2. ASSUME NEW c \in inflight, NEW r \in Slot, AcquireGranted(c, r) PROVE FALSE
    BY <2>2, Zenon DEF AcquireGranted, FirstFree, Free, TypeOK
  <2>3. permits' # permits
    BY Zenon
  <2> QED
    BY <2>1, <2>2, <2>3, Zenon DEF Next, ScriptRuns, ThreadStep, AcquireLimited, AcquireRefused,
       Unavailable, Arrive, GiveUp, Finish, Stream, Tick, Initialize, Open, Close, Reconcile
<1> QED
  BY <1>1, PermitInvariant, PTL DEF Spec, PermitGivenUpByOwner
-----------------------------------------------------------------------------
(* The budgets: their counters and the number of their keys.               *)

\* A charged counter stays within its limit and its window.
LEMMA ChargeValid ==
  ASSUME TypeOK, CountersValid, NEW keys \in SUBSET Key, Charge(keys),
         \A k \in keys : ~ Exhausted(k)
  PROVE  CountersValid'
<1> SUFFICES ASSUME NEW k \in Key
             PROVE  count'[k] <= Limit[k] /\ (count'[k] = 0 <=> ttl'[k] = 0)
  BY Zenon DEF CountersValid
<1>1. count[k] \in Nat /\ Limit[k] \in Nat /\ Window # 0
  BY LimitType, LimitAssumption, Zenon DEF TypeOK
<1>2. CASE k \in keys
  BY <1>1, <1>2 DEF Charge, Exhausted, CountersValid
<1>3. CASE k \notin keys
  BY <1>3, Zenon DEF Charge, CountersValid
<1> QED
  BY <1>2, <1>3, Zenon

\* The counters pass ACQUIRE's own validation in every reachable state: the
\* admission scripts cannot corrupt what they later refuse to repair.
THEOREM CountersAlwaysValid == Spec => []CountersValid
<1>1. Init => CountersValid
  BY LimitType, SMTT(60) DEF Init, CountersValid
<1>2. TypeOK /\ CountersValid /\ [Next]_vars => CountersValid'
  <2> SUFFICES ASSUME TypeOK, CountersValid, [Next]_vars PROVE CountersValid'
    OBVIOUS
  <2>1. ASSUME NEW c \in inflight, AcquireRefused(c) PROVE CountersValid'
    BY <2>1, ChargeValid, Zenon DEF AcquireRefused
  <2>2. ASSUME NEW c \in inflight, c.op = "acquire", NEW s \in Slot, AcquireGranted(c, s)
        PROVE  CountersValid'
    <3>1. {Global, c.source, c.credential} \in SUBSET Key
      BY <2>2, Zenon DEF TypeOK
    <3> QED
      BY <2>2, <3>1, ChargeValid, Zenon DEF AcquireGranted
  <2>3. CASE Tick
    <3> SUFFICES ASSUME NEW k \in Key
                 PROVE  count'[k] <= Limit[k] /\ (count'[k] = 0 <=> ttl'[k] = 0)
      BY Zenon DEF CountersValid
    <3>1. Limit[k] \in Nat /\ ttl[k] \in Nat /\ count[k] \in Nat
      BY LimitType, LimitAssumption DEF TypeOK
    <3> QED
      BY <2>3, <3>1 DEF Tick, CountersValid
  <2>4. CASE UNCHANGED <<count, ttl>>
    BY <2>4, Zenon DEF CountersValid
  <2> QED
    BY <2>1, <2>2, <2>3, <2>4, Zenon DEF Next, ScriptRuns, ThreadStep, AcquireLimited, Release,
       Unavailable, Arrive, GiveUp, Finish, Stream, Initialize, Open, Close, Reconcile, vars
<1> QED
  BY <1>1, <1>2, PermitInvariant, PTL DEF Spec

Fin == INSTANCE FiniteSetTheorems

\* The library's finite sets are those of the model.
LEMMA SameFinite == \A S : Fin!IsFiniteSet(S) <=> IsFiniteSet(S)
BY Zenon DEF Fin!IsFiniteSet, IsFiniteSet

\* The library's cardinality is that of the model.
LEMMA SameCount == \A S : Fin!Cardinality(S) = Cardinality(S)
BY SameFinite, Zenon DEF Fin!Cardinality, Cardinality

\* The empty set has no members.
LEMMA NoMembers == IsFiniteSet({}) /\ Cardinality({}) = 0
BY Fin!FS_EmptySet, SameFinite, SameCount, Zenon

\* A finite set has a number of members.
LEMMA CountIsNat == \A S : IsFiniteSet(S) => Cardinality(S) \in Nat
BY Fin!FS_CardinalityType, SameFinite, SameCount, Zenon

\* A part of a finite set is finite and no larger.
LEMMA PartIsSmaller ==
  \A S, T : IsFiniteSet(S) /\ T \subseteq S => IsFiniteSet(T) /\ Cardinality(T) <= Cardinality(S)
BY Fin!FS_Subset, SameFinite, SameCount, Zenon

\* One more member, unless it was one already.
LEMMA CountWith ==
  \A S, x : IsFiniteSet(S) =>
    /\ IsFiniteSet(S \cup {x})
    /\ Cardinality(S \cup {x}) = IF x \in S THEN Cardinality(S) ELSE Cardinality(S) + 1
BY Fin!FS_AddElement, SameFinite, SameCount, Zenon

\* The members of two sets.
LEMMA CountUnion ==
  \A S, T : IsFiniteSet(S) /\ IsFiniteSet(T) =>
    Cardinality(S \cup T) = Cardinality(S) + Cardinality(T) - Cardinality(S \cap T)
BY Fin!FS_Union, SameFinite, SameCount, Zenon

\* The identity keys that are alive, and among them those of the current global window
\* and of an earlier one.  A key charged later expires later, so the two differ in
\* whether they outlive the global key.
LiveKeys == {k \in Identity : ttl[k] > 0}
Older == {k \in Identity : ttl[k] > 0 /\ ttl[k] < ttl[Global]}
Current == {k \in Identity : ttl[k] > 0 /\ ttl[k] >= ttl[Global]}
Later == {k \in Identity : ttl[k] > ttl[Global]}

\* Each request charged in the window creates at most two keys; those of its first
\* request expire with the window, so all but two survive it.
KeysInv ==
  /\ IsFiniteSet(LiveKeys)
  /\ ttl[Global] = 0 => /\ Cardinality(LiveKeys) <= 2 * (GlobalMax - 1)
                        /\ \A k \in Identity : ttl[k] # Window
  /\ ttl[Global] > 0 => /\ Cardinality(Older) <= 2 * (GlobalMax - 1)
                        /\ Cardinality(Current) <= 2 * count[Global]
                        /\ Cardinality(Later) <= 2 * (count[Global] - 1)

\* One more member at most.
LEMMA OneMore ==
  ASSUME NEW S, IsFiniteSet(S), NEW a
  PROVE  /\ IsFiniteSet(S \cup {a}) /\ Cardinality(S) \in Nat
         /\ Cardinality(S \cup {a}) \in Nat /\ Cardinality(S \cup {a}) <= Cardinality(S) + 1
<1>1. Cardinality(S) \in Nat
  BY CountIsNat, Zenon
<1>2. /\ IsFiniteSet(S \cup {a})
      /\ Cardinality(S \cup {a}) = IF a \in S THEN Cardinality(S) ELSE Cardinality(S) + 1
  BY CountWith, Zenon
<1> QED BY <1>1, <1>2

\* Two more members at most.
LEMMA TwoMore ==
  ASSUME NEW S, IsFiniteSet(S), NEW a, NEW b, NEW T, T \subseteq (S \cup {a}) \cup {b}
  PROVE  IsFiniteSet(T) /\ Cardinality(T) \in Nat /\ Cardinality(T) <= Cardinality(S) + 2
<1>1. /\ IsFiniteSet(S \cup {a}) /\ Cardinality(S) \in Nat
      /\ Cardinality(S \cup {a}) \in Nat /\ Cardinality(S \cup {a}) <= Cardinality(S) + 1
  BY OneMore, Zenon
<1>2. /\ IsFiniteSet((S \cup {a}) \cup {b}) /\ Cardinality((S \cup {a}) \cup {b}) \in Nat
      /\ Cardinality((S \cup {a}) \cup {b}) <= Cardinality(S \cup {a}) + 1
  BY <1>1, OneMore, Zenon
<1>3. /\ IsFiniteSet(T) /\ Cardinality(T) \in Nat
      /\ Cardinality(T) <= Cardinality((S \cup {a}) \cup {b})
  BY <1>2, PartIsSmaller, CountIsNat, Zenon
<1> QED BY <1>1, <1>2, <1>3

\* A part of a finite set is finite and no larger.
LEMMA Part ==
  ASSUME NEW S, IsFiniteSet(S), NEW T, T \subseteq S
  PROVE  IsFiniteSet(T) /\ Cardinality(T) \in Nat /\ Cardinality(S) \in Nat
         /\ Cardinality(T) <= Cardinality(S)
BY PartIsSmaller, CountIsNat, Zenon

\* The numbers a step starts from.
LEMMA KeyNumbers ==
  ASSUME TypeOK, CountersValid, KeysInv
  PROVE  /\ ttl[Global] \in Nat /\ ttl[Global] <= Window /\ count[Global] \in Nat
         /\ count[Global] <= GlobalMax /\ (count[Global] = 0 <=> ttl[Global] = 0)
         /\ Window \in Nat /\ Window > 0 /\ GlobalMax \in Nat /\ GlobalMax > 0
         /\ \A k \in Identity : ttl[k] \in Nat /\ ttl[k] <= Window /\ count[k] \in Nat
                                /\ (count[k] = 0 <=> ttl[k] = 0)
         /\ IsFiniteSet(Older) /\ IsFiniteSet(Current) /\ IsFiniteSet(Later)
         /\ Cardinality(Older) \in Nat /\ Cardinality(Current) \in Nat
         /\ Cardinality(Later) \in Nat /\ Cardinality(LiveKeys) \in Nat
<1>1. /\ ttl \in [Key -> 0 .. Window] /\ count \in [Key -> Nat] /\ Global \in Key
      /\ Identity \subseteq Key
      /\ Window \in Nat /\ Window > 0 /\ GlobalMax \in Nat /\ GlobalMax > 0
  BY LimitAssumption DEF TypeOK
<1>2. Limit[Global] = GlobalMax
  BY <1>1, Zenon DEF Limit
<1>3. \A k \in Key : ttl[k] \in Nat /\ ttl[k] <= Window /\ count[k] \in Nat
                     /\ count[k] <= Limit[k] /\ (count[k] = 0 <=> ttl[k] = 0)
  BY <1>1 DEF CountersValid
<1>4. Older \subseteq LiveKeys /\ Current \subseteq LiveKeys
  BY Zenon DEF Older, Current, LiveKeys
<1>5. Later \subseteq LiveKeys
  BY <1>1, <1>3 DEF Later, LiveKeys
<1>6. IsFiniteSet(LiveKeys)
  BY Zenon DEF KeysInv
<1>7. IsFiniteSet(Older) /\ Cardinality(Older) \in Nat /\ Cardinality(LiveKeys) \in Nat
  BY <1>4, <1>6, Part, Zenon
<1>8. IsFiniteSet(Current) /\ Cardinality(Current) \in Nat
  BY <1>4, <1>6, Part, Zenon
<1>9. IsFiniteSet(Later) /\ Cardinality(Later) \in Nat
  BY <1>5, <1>6, Part, Zenon
<1> QED BY <1>1, <1>2, <1>3, <1>7, <1>8, <1>9, Zenon

\* A charge creates the keys of at most two identities, with a whole window to live.
LEMMA ChargeKeys ==
  ASSUME TypeOK, CountersValid, KeysInv, NEW a \in Identity, NEW b \in Identity, NEW keys,
         keys = {Global} \/ keys = {Global, a, b}, Charge(keys), ~ Exhausted(Global)
  PROVE  KeysInv'
<1>0. /\ ttl[Global] \in Nat /\ ttl[Global] <= Window /\ count[Global] \in Nat
      /\ count[Global] <= GlobalMax /\ (count[Global] = 0 <=> ttl[Global] = 0)
      /\ Window \in Nat /\ Window > 0 /\ GlobalMax \in Nat /\ GlobalMax > 0
      /\ \A k \in Identity : ttl[k] \in Nat /\ ttl[k] <= Window /\ count[k] \in Nat
                             /\ (count[k] = 0 <=> ttl[k] = 0)
      /\ IsFiniteSet(Older) /\ IsFiniteSet(Current) /\ IsFiniteSet(Later)
      /\ Cardinality(Older) \in Nat /\ Cardinality(Current) \in Nat
      /\ Cardinality(Later) \in Nat /\ Cardinality(LiveKeys) \in Nat
  BY KeyNumbers, Zenon
<1>1. \A k \in Identity : \/ ttl'[k] = ttl[k]
                          \/ k \in {a, b} /\ ttl[k] = 0 /\ ttl'[k] = Window
  BY <1>0, KeyAssumption, Zenon DEF Charge
<1>2. /\ count'[Global] = count[Global] + 1
      /\ ttl'[Global] = IF count[Global] = 0 THEN Window ELSE ttl[Global]
  BY Zenon DEF Charge
<1>3. IsFiniteSet(LiveKeys')
  <2>1. LiveKeys' \subseteq (LiveKeys \cup {a}) \cup {b}
    BY <1>1, Zenon DEF LiveKeys
  <2>2. IsFiniteSet(LiveKeys)
    BY Zenon DEF KeysInv
  <2> QED BY <2>1, <2>2, TwoMore, ZenonT(60)
<1>4. CASE ttl[Global] = 0
  <2>1. ttl'[Global] = Window /\ count'[Global] = 1
    BY <1>0, <1>2, <1>4, SMTT(60)
  <2>2. /\ IsFiniteSet(LiveKeys) /\ Cardinality(LiveKeys) <= 2 * (GlobalMax - 1)
        /\ \A k \in Identity : ttl[k] # Window
    BY <1>4, Zenon DEF KeysInv
  <2>3. Older' \subseteq LiveKeys
    BY <1>0, <1>1, <2>1, SMTT(60) DEF Older, LiveKeys
  <2>4. Current' \subseteq ({} \cup {a}) \cup {b}
    BY <1>0, <1>1, <2>1, <2>2, SMTT(60) DEF Current
  <2>5. Later' = {}
    BY <1>0, <1>1, <2>1 DEF Later
  <2>6. Cardinality(Older') \in Nat /\ Cardinality(Older') <= Cardinality(LiveKeys)
    BY <2>2, <2>3, Part, Zenon
  <2>7. Cardinality(Current') \in Nat /\ Cardinality(Current') <= Cardinality({}) + 2
    BY <2>4, TwoMore, NoMembers, ZenonT(60)
  <2>8. Cardinality({}) = 0 /\ Cardinality(Later') = 0
    BY <2>5, NoMembers, Zenon
  <2> QED BY <1>0, <1>3, <2>1, <2>2, <2>6, <2>7, <2>8, SMTT(60) DEF KeysInv
<1>5. CASE ttl[Global] > 0
  <2>1. ttl'[Global] = ttl[Global] /\ count'[Global] = count[Global] + 1
    BY <1>0, <1>2, <1>5, SMTT(60)
  <2>2. /\ Cardinality(Older) <= 2 * (GlobalMax - 1)
        /\ Cardinality(Current) <= 2 * count[Global]
        /\ Cardinality(Later) <= 2 * (count[Global] - 1)
    BY <1>5, Zenon DEF KeysInv
  <2>3. Older' \subseteq Older
    BY <1>0, <1>1, <2>1, SMTT(60) DEF Older
  <2>4. Current' \subseteq (Current \cup {a}) \cup {b}
    BY <1>1, <2>1, Zenon DEF Current
  <2>5. Later' \subseteq (Later \cup {a}) \cup {b}
    BY <1>1, <2>1, Zenon DEF Later
  <2>6. Cardinality(Older') \in Nat /\ Cardinality(Older') <= Cardinality(Older)
    BY <1>0, <2>3, Part, Zenon
  <2>7. Cardinality(Current') \in Nat /\ Cardinality(Current') <= Cardinality(Current) + 2
    BY <1>0, <2>4, TwoMore, Zenon
  <2>8. Cardinality(Later') \in Nat /\ Cardinality(Later') <= Cardinality(Later) + 2
    BY <1>0, <2>5, TwoMore, ZenonT(60)
  <2> QED BY <1>0, <1>3, <1>5, <2>1, <2>2, <2>6, <2>7, <2>8, SMTT(60) DEF KeysInv
<1> QED BY <1>0, <1>4, <1>5, SMTT(60)

\* Time passes for all keys alike; with the global key the first request's keys go.
LEMMA TickKeys ==
  ASSUME TypeOK, CountersValid, KeysInv, Tick
  PROVE  KeysInv'
<1>0. /\ ttl[Global] \in Nat /\ ttl[Global] <= Window /\ count[Global] \in Nat
      /\ count[Global] <= GlobalMax /\ (count[Global] = 0 <=> ttl[Global] = 0)
      /\ Window \in Nat /\ Window > 0 /\ GlobalMax \in Nat /\ GlobalMax > 0
      /\ \A k \in Identity : ttl[k] \in Nat /\ ttl[k] <= Window /\ count[k] \in Nat
                             /\ (count[k] = 0 <=> ttl[k] = 0)
      /\ IsFiniteSet(Older) /\ IsFiniteSet(Current) /\ IsFiniteSet(Later)
      /\ Cardinality(Older) \in Nat /\ Cardinality(Current) \in Nat
      /\ Cardinality(Later) \in Nat /\ Cardinality(LiveKeys) \in Nat
  BY KeyNumbers, Zenon
<1>1. \A k \in Identity : ttl'[k] = IF ttl[k] > 0 THEN ttl[k] - 1 ELSE 0
  BY Zenon DEF Tick
<1>2. /\ ttl'[Global] = IF ttl[Global] > 0 THEN ttl[Global] - 1 ELSE 0
      /\ count'[Global] = IF ttl[Global] > 1 THEN count[Global] ELSE 0
  BY Zenon DEF Tick
<1>3. LiveKeys' \subseteq LiveKeys /\ IsFiniteSet(LiveKeys)
  BY <1>0, <1>1 DEF LiveKeys, KeysInv
<1>4. /\ IsFiniteSet(LiveKeys') /\ Cardinality(LiveKeys') \in Nat
      /\ Cardinality(LiveKeys') <= Cardinality(LiveKeys)
  BY <1>3, Part, Zenon
<1>5. \A k \in Identity : ttl'[k] # Window
  BY <1>0, <1>1, SMTT(60)
<1>6. CASE ttl[Global] = 0
  BY <1>0, <1>2, <1>4, <1>5, <1>6, SMTT(60) DEF KeysInv
<1>7. CASE ttl[Global] = 1
  <2>1. LiveKeys' \subseteq Later
    BY <1>0, <1>1, <1>7, SMTT(60) DEF LiveKeys, Later
  <2>2. Cardinality(LiveKeys') <= Cardinality(Later)
    BY <1>0, <2>1, Part, Zenon
  <2>3. Cardinality(Later) <= 2 * (count[Global] - 1)
    BY <1>7, SMTT(60) DEF KeysInv
  <2> QED BY <1>0, <1>2, <1>4, <1>5, <1>7, <2>2, <2>3, SMTT(60) DEF KeysInv
<1>8. CASE ttl[Global] > 1
  <2>1. ttl'[Global] = ttl[Global] - 1 /\ count'[Global] = count[Global] /\ ttl'[Global] > 0
    <3>1. ttl[Global] \in Nat /\ ttl[Global] > 0
      BY <1>0, <1>8
    <3>2. ttl'[Global] = ttl[Global] - 1
      BY <1>2, <3>1, ZenonT(60)
    <3>3. count'[Global] = count[Global]
      BY <1>2, <1>8, ZenonT(60)
    <3> QED BY <1>8, <3>1, <3>2, <3>3
  <2>2. Older' \subseteq Older /\ Current' \subseteq Current /\ Later' \subseteq Later
    BY <1>0, <1>1, <1>8, <2>1, SMTT(60) DEF Older, Current, Later
  <2>3. Cardinality(Older') \in Nat /\ Cardinality(Older') <= Cardinality(Older)
    BY <1>0, <2>2, Part, Zenon
  <2>4. Cardinality(Current') \in Nat /\ Cardinality(Current') <= Cardinality(Current)
    BY <1>0, <2>2, Part, Zenon
  <2>5. Cardinality(Later') \in Nat /\ Cardinality(Later') <= Cardinality(Later)
    BY <1>0, <2>2, Part, Zenon
  <2>6. /\ Cardinality(Older) <= 2 * (GlobalMax - 1)
        /\ Cardinality(Current) <= 2 * count[Global]
        /\ Cardinality(Later) <= 2 * (count[Global] - 1)
    BY <1>0, <1>8 DEF KeysInv
  <2> QED BY <1>0, <1>4, <2>1, <2>3, <2>4, <2>5, <2>6, SMTT(60) DEF KeysInv
<1> QED BY <1>0, <1>6, <1>7, <1>8, SMTT(60)

\* The store never holds more identity keys than the design allows, for every limit,
\* window and number of identities (ACQUIRE charges no identity past the global cap).
THEOREM IdentityKeysAlwaysBounded == Spec => []IdentityKeysBounded
<1>1. Init => KeysInv
  <2> SUFFICES ASSUME Init PROVE KeysInv
    OBVIOUS
  <2>1. \A k \in Key : ttl[k] = 0
    BY Zenon DEF Init
  <2>2. LiveKeys = {} /\ Global \in Key
    BY <2>1 DEF LiveKeys
  <2>3. IsFiniteSet(LiveKeys) /\ Cardinality(LiveKeys) = 0
    BY <2>2, NoMembers, Zenon
  <2> QED BY <2>1, <2>3, LimitAssumption DEF KeysInv
<1>2. TypeOK /\ CountersValid /\ KeysInv /\ [Next]_vars => KeysInv'
  <2> SUFFICES ASSUME TypeOK, CountersValid, KeysInv, [Next]_vars PROVE KeysInv'
    BY Zenon
  <2>1. ASSUME NEW c \in inflight, c.op = "acquire", AcquireRefused(c) PROVE KeysInv'
    <3>1. c.source \in Identity
      BY <2>1, Zenon DEF TypeOK
    <3> QED BY <2>1, <3>1, ChargeKeys, Zenon DEF AcquireRefused
  <2>2. ASSUME NEW c \in inflight, c.op = "acquire", NEW s \in Slot, AcquireGranted(c, s)
        PROVE  KeysInv'
    <3>1. c.source \in Identity /\ c.credential \in Identity
      BY <2>2, Zenon DEF TypeOK
    <3> QED BY <2>2, <3>1, ChargeKeys, Zenon DEF AcquireGranted
  <2>3. CASE Tick
    BY <2>3, TickKeys, Zenon
  <2>4. CASE UNCHANGED <<count, ttl>>
    BY <2>4, Zenon DEF KeysInv, LiveKeys, Older, Current, Later
  <2> QED
    BY <2>1, <2>2, <2>3, <2>4, Zenon DEF Next, ScriptRuns, ThreadStep, AcquireLimited, Release,
       Unavailable, Arrive, GiveUp, Finish, Stream, Initialize, Open, Close, Reconcile, vars
<1>3. TypeOK /\ CountersValid /\ KeysInv => IdentityKeysBounded
  <2> SUFFICES ASSUME TypeOK, CountersValid, KeysInv PROVE IdentityKeysBounded
    BY Zenon
  <2>0. /\ ttl[Global] \in Nat /\ count[Global] \in Nat /\ count[Global] <= GlobalMax
        /\ GlobalMax \in Nat /\ GlobalMax > 0
        /\ \A k \in Identity : ttl[k] \in Nat /\ count[k] \in Nat /\ (count[k] = 0 <=> ttl[k] = 0)
        /\ IsFiniteSet(Older) /\ IsFiniteSet(Current)
        /\ Cardinality(Older) \in Nat /\ Cardinality(Current) \in Nat
        /\ Cardinality(LiveKeys) \in Nat
    BY KeyNumbers, Zenon
  <2>1. {k \in Identity : count[k] > 0} = LiveKeys
    BY <2>0 DEF LiveKeys
  <2>2. Cardinality(LiveKeys) <= 4 * GlobalMax - 2
    <3>1. CASE ttl[Global] = 0
      BY <2>0, <3>1 DEF KeysInv
    <3>2. CASE ttl[Global] > 0
      <4>1. LiveKeys = Older \cup Current /\ Older \cap Current = {}
        BY <2>0 DEF LiveKeys, Older, Current
      <4>2. Cardinality(Older \cap Current) = 0
        BY <4>1, NoMembers, Zenon
      <4>3. Cardinality(Older \cup Current)
              = Cardinality(Older) + Cardinality(Current) - Cardinality(Older \cap Current)
        BY <2>0, CountUnion, Zenon
      <4>4. Cardinality(LiveKeys) = Cardinality(Older) + Cardinality(Current)
        BY <2>0, <4>1, <4>2, <4>3, SMTT(60)
      <4>5. Cardinality(Older) <= 2 * (GlobalMax - 1) /\ Cardinality(Current) <= 2 * count[Global]
        BY <3>2, Zenon DEF KeysInv
      <4> QED BY <2>0, <4>4, <4>5, SMTT(60)
    <3> QED BY <2>0, <3>1, <3>2, SMTT(60)
  <2> QED BY <2>1, <2>2, Zenon DEF IdentityKeysBounded
<1> QED BY <1>1, <1>2, <1>3, PermitInvariant, CountersAlwaysValid, PTL DEF Spec
=============================================================================
