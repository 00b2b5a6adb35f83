--------------------------- MODULE DatabaseProofs ---------------------------
(***************************************************************************)
(* Theorems about the database.  Challenges and codes are accepted once,   *)
(* for every number of threads and every choice of the expiry times that   *)
(* TimeAssumption allows (SecurityStore).  The runtime role has the        *)
(* privileges it is to have over tables that were not adopted, for any     *)
(* number of initializers and any tables (DatabaseRoles).                  *)
(***************************************************************************)
EXTENDS SecurityStore, DatabaseRoles, TLAPS

-----------------------------------------------------------------------------
(* The security store.                                                     *)

\* t is at stage s with challenge c.
At(t, s, c) == req[t] # None /\ req[t].stage = s /\ req[t].challenge = c

\* t has claimed c and may still have it accepted.
Holds(t, c) == At(t, "claimed", c) \/ At(t, "matched", c)

Claimed(c) == accepted[c] = 1 \/ \E t \in Thread : Holds(t, c)

\* Why a claimed challenge is not claimed again: its key outlives it, or the store
\* has been lost and admits nothing before the challenge is too old.
ChallengeCovered(c) ==
  /\ age[c] # None
  /\ \/ hold = None
     \/ used[c] + age[c] >= ClaimTtl
     \/ hold # None /\ age[c] + hold >= Hold /\ \A t \in Thread : ~At(t, "checked", c)

CodeCovered(k) ==
  \/ hold = None
  \/ usedCode[k] + k >= CodeTtl
  \/ /\ hold # None /\ k + hold >= Hold
     /\ \A t \in Thread : req[t] # None /\ req[t].stage = "matched" => req[t].code # k

ChallengeInv ==
  /\ \A c \in Challenge : accepted[c] <= 1
  /\ \A c \in Challenge, t \in Thread : Holds(t, c) => accepted[c] = 0
  /\ \A c \in Challenge, t, u \in Thread : Holds(t, c) /\ Holds(u, c) => t = u
  /\ \A c \in Challenge : Claimed(c) => ChallengeCovered(c)

CodeInv ==
  /\ \A k \in Code : acceptedCode[k] <= 1
  /\ \A k \in Code : acceptedCode[k] = 1 => CodeCovered(k)

\* What the requests in progress know.
RequestInv ==
  /\ hold # None /\ hold > 0 => \A t \in Thread : req[t] = None
  /\ \A t \in Thread : req[t] # None /\ req[t].stage # "login" =>
       req[t].challenge \in Challenge /\ age[req[t].challenge] # None
  /\ \A t \in Thread : req[t] # None /\ req[t].stage = "checked" =>
       age[req[t].challenge] <= ChallengeAge + req[t].waited
  /\ \A t \in Thread : req[t] # None /\ req[t].stage = "claimed" => req[t].code # None
  /\ \A t \in Thread : req[t] # None /\ req[t].stage = "matched" =>
       req[t].code \in Code /\ req[t].code <= 1 + req[t].waited

IInv == TypeOK /\ RequestInv /\ ChallengeInv /\ CodeInv
-----------------------------------------------------------------------------
(* The state space.                                                        *)

\* The initial store satisfies the invariant.
LEMMA InitIInv == Init => IInv
<1> SUFFICES ASSUME Init PROVE IInv
  BY Zenon
<1> USE TimeAssumption, NoneAssumption
<1>1. TypeOK
  BY DEF Init, TypeOK, Code, Limit
<1>2. RequestInv
  BY Zenon DEF Init, RequestInv
<1>3. ChallengeInv
  BY DEF Init, ChallengeInv, Claimed, Holds, At
<1>4. CodeInv
  BY DEF Init, CodeInv
<1> QED
  BY <1>1, <1>2, <1>3, <1>4, Zenon DEF IInv

\* Moving a request to another stage keeps its shape.
LEMMA ReachesType ==
  ASSUME TypeOK, NEW t \in Thread, NEW from,
         NEW to \in {"login", "submitted", "checked", "claimed", "matched"},
         Reaches(t, from, to)
  PROVE  req' \in [Thread -> Request \cup {None}]
<1> DEFINE r == [stage |-> to, challenge |-> req[t].challenge, code |-> req[t].code, waited |-> 0]
<1>1. req[t] \in Request
  BY Zenon DEF TypeOK, Reaches
<1>2. r \in Request
  BY <1>1, TimeAssumption DEF Request
<1> QED
  BY <1>2, Zenon DEF TypeOK, Reaches

Budgets ==
  /\ spent \in [Budget -> Nat] /\ \A b \in Budget : spent[b] <= Limit(b)
  /\ spentTtl \in [Budget -> 0 .. BudgetTtl]

\* A charge stays within its limit.
LEMMA ChargeType == ASSUME TypeOK, NEW b \in Budget, Charge(b) PROVE Budgets'
BY TimeAssumption DEF TypeOK, Charge, Allowed, Budgets, Limit

\* No step of the store, of time or of a request leaves the state space.
LEMMA TypeStep == IInv /\ [Next]_vars => TypeOK'
<1> SUFFICES ASSUME IInv, [Next]_vars PROVE TypeOK'
  BY Zenon
<1> USE TimeAssumption, NoneAssumption
<1>0. TypeOK /\ RequestInv
  BY Zenon DEF IInv
<1>1. CASE UNCHANGED vars
  BY <1>0, <1>1, Zenon DEF TypeOK, vars, store
<1>2. CASE Tick
  <2>1. req' \in [Thread -> Request \cup {None}]
    <3> SUFFICES ASSUME NEW t \in Thread, req[t] # None PROVE req'[t] \in Request
      <4>1. /\ DOMAIN req' = Thread /\ req' = [t \in Thread |-> req'[t]]
            /\ \A t \in Thread : req[t] = None => req'[t] = None
        BY <1>2, Zenon DEF Tick
      <4> QED
        BY <4>1, Zenon
    <3>1. req[t] \in Request
      BY <1>0, Zenon DEF TypeOK
    <3> DEFINE k == IF req[t].code \in {None, 2 + Gap} THEN req[t].code ELSE req[t].code + 1
               w == IF Waits(t) THEN req[t].waited + 1 ELSE 0
    <3>2. k \in 0 .. 2 + Gap \cup {None}
      BY <3>1 DEF Request
    <3>3. w \in 0 .. Gap
      <4>1. CASE Waits(t)
        BY <4>1, <3>1, <1>2 DEF Request, Tick
      <4>2. CASE ~Waits(t)
        BY <4>2
      <4> QED
        BY <4>1, <4>2, Zenon
    <3>4. req'[t] = [stage |-> req[t].stage, challenge |-> req[t].challenge, code |-> k, waited |-> w]
      BY <1>2, Zenon DEF Tick
    <3> HIDE DEF k, w
    <3> QED
      BY <3>1, <3>2, <3>3, <3>4 DEF Request
  <2>2. hold' \in 0 .. Hold \cup {None}
    BY <1>0, <1>2 DEF TypeOK, Tick, Less
  <2>3. used' \in [Challenge -> 0 .. ClaimTtl]
    <3>1. \A c \in Challenge : Less(used[c]) \in 0 .. ClaimTtl
      BY <1>0 DEF TypeOK, Less
    <3> QED
      BY <3>1, <1>2, Zenon DEF Tick
  <2>4. usedCode' \in [Code -> 0 .. CodeTtl] /\ acceptedCode' \in [Code -> Nat]
    <3>1. \A k \in Code : k = 0 \/ k - 1 \in Code
      BY DEF Code
    <3>2. \A k \in Code : /\ (IF k = 0 THEN 0 ELSE Less(usedCode[k - 1])) \in 0 .. CodeTtl
                          /\ (IF k = 0 THEN 0 ELSE acceptedCode[k - 1]) \in Nat
      BY <3>1, <1>0 DEF TypeOK, Less
    <3> QED
      BY <3>2, <1>2, Zenon DEF Tick
  <2>5. age' \in [Challenge -> 0 .. ClaimTtl \cup {None}]
    <3>1. \A c \in Challenge : (IF age[c] \in {None, ClaimTtl} THEN age[c] ELSE age[c] + 1)
                                \in 0 .. ClaimTtl \cup {None}
      BY <1>0 DEF TypeOK
    <3> QED
      BY <3>1, <1>2, Zenon DEF Tick
  <2>6. Budgets'
    <3>1. \A b \in Budget : /\ Less(spentTtl[b]) \in 0 .. BudgetTtl
                            /\ (IF spentTtl[b] > 1 THEN spent[b] ELSE 0) \in 0 .. Limit(b)
      BY <1>0 DEF TypeOK, Less, Limit
    <3>2. /\ spentTtl' = [b \in Budget |-> Less(spentTtl[b])]
          /\ spent' = [b \in Budget |-> IF spentTtl[b] > 1 THEN spent[b] ELSE 0]
      BY <1>2, Zenon DEF Tick
    <3> QED
      BY <3>1, <3>2 DEF Budgets, Limit
  <2> QED
    BY <2>1, <2>2, <2>3, <2>4, <2>5, <2>6, <1>0, <1>2, Zenon DEF TypeOK, Tick, Budgets
<1>3. CASE StoreLost
  BY <1>0, <1>3 DEF TypeOK, StoreLost, Limit
<1>4. CASE Migrate
  BY <1>0, <1>4 DEF TypeOK, Migrate
<1>5. ASSUME NEW t \in Thread, Step(t) PROVE TypeOK'
  <2>1. ASSUME NEW c \in Challenge, Issue(t, c) PROVE TypeOK'
    BY <1>0, <2>1 DEF TypeOK, Issue, store
  <2>2. CASE CheckToken(t)
    BY <1>0, <2>2, ReachesType, Zenon DEF TypeOK, CheckToken, store
  <2>3. CASE ClaimChallenge(t)
    <3>1. req[t].challenge \in Challenge
      BY <1>0, <2>3, Zenon DEF RequestInv, ClaimChallenge
    <3>2. accepted' \in [Challenge -> Nat] /\ used' \in [Challenge -> 0 .. ClaimTtl]
      BY <1>0, <2>3, <3>1 DEF TypeOK, ClaimChallenge
    <3>3. req' \in [Thread -> Request \cup {None}]
      BY <1>0, <2>3, ReachesType, Zenon DEF TypeOK, ClaimChallenge
    <3> QED
      BY <1>0, <2>3, <3>2, <3>3, Zenon DEF TypeOK, ClaimChallenge
  <2>4. CASE MatchCode(t)
    BY <1>0, <2>4, ReachesType, Zenon DEF TypeOK, MatchCode, store
  <2>5. CASE ClaimCode(t)
    <3>1. req[t].challenge \in Challenge /\ req[t].code \in Code
      BY <1>0, <2>5, Zenon DEF RequestInv, ClaimCode
    <3>2. /\ accepted' \in [Challenge -> Nat] /\ acceptedCode' \in [Code -> Nat]
          /\ usedCode' \in [Code -> 0 .. CodeTtl]
      BY <1>0, <2>5, <3>1 DEF TypeOK, ClaimCode
    <3> QED
      BY <1>0, <2>5, <3>2, Zenon DEF TypeOK, ClaimCode
  <2>6. CASE Reject(t)
    BY <1>0, <2>6, Zenon DEF TypeOK, Reject, store
  <2> QED
    BY <1>5, <2>1, <2>2, <2>3, <2>4, <2>5, <2>6, Zenon DEF Step
<1>6. ASSUME NEW t \in Thread, LoginBegin(t) PROVE TypeOK'
  <2>1. [stage |-> "login", challenge |-> None, code |-> None, waited |-> 0] \in Request
    BY DEF Request
  <2>2. req' \in [Thread -> Request \cup {None}]
    BY <1>0, <1>6, <2>1, Zenon DEF TypeOK, LoginBegin
  <2>3. Budgets'
    BY <1>0, <1>6, ChargeType, Zenon DEF LoginBegin, Budget
  <2> QED
    BY <1>0, <1>6, <2>2, <2>3, Zenon DEF TypeOK, LoginBegin, Budgets
<1>7. ASSUME NEW t \in Thread, NEW c \in Challenge, NEW k \in {0, 1, None}, Submit(t, c, k)
      PROVE  TypeOK'
  <2>1. [stage |-> "submitted", challenge |-> c, code |-> k, waited |-> 0] \in Request
    BY DEF Request
  <2>2. req' \in [Thread -> Request \cup {None}]
    BY <1>0, <1>7, <2>1, Zenon DEF TypeOK, Submit
  <2>3. Budgets'
    BY <1>0, <1>7, ChargeType, Zenon DEF Submit, Budget
  <2> QED
    BY <1>0, <1>7, <2>2, <2>3, Zenon DEF TypeOK, Submit, Budgets
<1> QED
  BY <1>1, <1>2, <1>3, <1>4, <1>5, <1>6, <1>7, Zenon DEF Next, Arrive
-----------------------------------------------------------------------------
(* Requests in progress.                                                   *)

\* A tick, seen from one challenge and from one request.
LEMMA TickParts ==
  ASSUME IInv, Tick
  PROVE  /\ \A c \in Challenge :
              /\ used'[c] >= used[c] - 1
              /\ age[c] = None => age'[c] = None
              /\ age[c] # None => /\ age'[c] # None /\ age'[c] \in Nat /\ age'[c] <= age[c] + 1
                                  /\ age'[c] = age[c] + 1 \/ age'[c] = ClaimTtl
         /\ hold = None => hold' = None
         /\ hold # None => hold' # None /\ hold' \in Nat /\ hold' >= hold - 1 /\ hold' <= hold
         /\ \A t \in Thread :
              /\ req[t] = None <=> req'[t] = None
              /\ req[t] # None => /\ req'[t].stage = req[t].stage
                                  /\ req'[t].challenge = req[t].challenge
                                  /\ req[t].code = None <=> req'[t].code = None
                                  /\ req[t].stage = "matched" => req'[t].code = req[t].code + 1
                                  /\ Waits(t) => /\ req[t].waited < Gap
                                                 /\ req'[t].waited = req[t].waited + 1
<1> USE TimeAssumption, NoneAssumption
<1>0. TypeOK /\ RequestInv
  BY Zenon DEF IInv
<1>1. ASSUME NEW c \in Challenge
      PROVE  /\ used'[c] >= used[c] - 1
             /\ age[c] = None => age'[c] = None
             /\ age[c] # None => /\ age'[c] # None /\ age'[c] \in Nat /\ age'[c] <= age[c] + 1
                                 /\ age'[c] = age[c] + 1 \/ age'[c] = ClaimTtl
  <2>1. /\ used'[c] = Less(used[c])
        /\ age'[c] = IF age[c] \in {None, ClaimTtl} THEN age[c] ELSE age[c] + 1
    BY Zenon DEF Tick
  <2>2. used[c] \in Nat /\ (age[c] = None \/ age[c] \in Nat)
    BY <1>0 DEF TypeOK
  <2> QED
    BY <2>1, <2>2, SMTT(60) DEF Less
<1>2. /\ hold = None => hold' = None
      /\ hold # None => hold' # None /\ hold' \in Nat /\ hold' >= hold - 1 /\ hold' <= hold
  <2>1. hold' = (IF hold = None THEN None ELSE Less(hold)) /\ (hold = None \/ hold \in Nat)
    BY <1>0 DEF Tick, TypeOK
  <2> QED
    BY <2>1 DEF Less
<1>3. ASSUME NEW t \in Thread
      PROVE  /\ req[t] = None <=> req'[t] = None
             /\ req[t] # None => /\ req'[t].stage = req[t].stage
                                 /\ req'[t].challenge = req[t].challenge
                                 /\ req[t].code = None <=> req'[t].code = None
                                 /\ req[t].stage = "matched" => req'[t].code = req[t].code + 1
                                 /\ Waits(t) => /\ req[t].waited < Gap
                                                /\ req'[t].waited = req[t].waited + 1
  <2>1. CASE req[t] = None
    BY <2>1, Zenon DEF Tick
  <2>2. CASE req[t] # None
    <3>1. req[t] \in Request
      BY <2>2, <1>0, Zenon DEF TypeOK
    <3>2. /\ req'[t].stage = req[t].stage /\ req'[t].challenge = req[t].challenge
          /\ req'[t].code = IF req[t].code \in {None, 2 + Gap} THEN req[t].code ELSE req[t].code + 1
          /\ req'[t].waited = IF Waits(t) THEN req[t].waited + 1 ELSE 0
      BY <2>2, Zenon DEF Tick
    <3>3. req[t].stage = "matched" => req[t].code \in 0 .. 1 + Gap
      BY <1>0, <2>2, Zenon DEF RequestInv, Code
    <3>4. Waits(t) => req[t].waited < Gap
      BY Zenon DEF Tick
    <3>5. req[t].code = None \/ req[t].code \in Nat
      BY <3>1 DEF Request
    <3>6. req[t].code = None <=> req'[t].code = None
      BY <3>2, <3>5
    <3>7. req[t].stage = "matched" => req'[t].code = req[t].code + 1
      BY <3>2, <3>3
    <3>8. req'[t] # None
      <4> DEFINE r == [stage |-> req'[t].stage, challenge |-> req'[t].challenge,
                       code |-> req'[t].code, waited |-> req'[t].waited]
      <4>1. req'[t] = r
        BY <2>2, Zenon DEF Tick
      <4>2. req'[t].code \in 0 .. 2 + Gap \cup {None} /\ req'[t].waited \in 0 .. Gap
        BY <3>1, <3>2, <3>4 DEF Request
      <4>3. r \in Request
        BY <3>1, <3>2, <4>2, Zenon DEF Request
      <4> QED
        BY <4>1, <4>3, Zenon
    <3> QED
      BY <2>2, <3>1, <3>2, <3>4, <3>6, <3>7, <3>8, Zenon
  <2> QED
    BY <2>1, <2>2, Zenon
<1> QED
  BY <1>1, <1>2, <1>3, Zenon
\* The facts about requests in progress survive every step.
LEMMA RequestStep == IInv /\ [Next]_vars => RequestInv'
<1> SUFFICES ASSUME IInv, [Next]_vars PROVE RequestInv'
  BY Zenon
<1> USE TimeAssumption, NoneAssumption
<1>0. TypeOK /\ RequestInv
  BY DEF IInv
<1>1. CASE UNCHANGED vars
  BY <1>0, <1>1, Zenon DEF RequestInv, vars, store
<1>2. CASE Tick
  <2>1. hold' # None /\ hold' > 0 => \A t \in Thread : req'[t] = None
    BY <1>0, <1>2, TickParts, SMTT(60) DEF RequestInv, TypeOK
  <2>2. ASSUME NEW t \in Thread, req'[t] # None
        PROVE  /\ req'[t].stage # "login" =>
                    req'[t].challenge \in Challenge /\ age'[req'[t].challenge] # None
               /\ req'[t].stage = "checked" =>
                    age'[req'[t].challenge] <= ChallengeAge + req'[t].waited
               /\ req'[t].stage = "claimed" => req'[t].code # None
               /\ req'[t].stage = "matched" =>
                    req'[t].code \in Code /\ req'[t].code <= 1 + req'[t].waited
    <3>1. /\ req[t] # None /\ req[t] \in Request
          /\ req'[t].stage = req[t].stage /\ req'[t].challenge = req[t].challenge
          /\ req[t].code = None <=> req'[t].code = None
          /\ req[t].stage = "matched" => req'[t].code = req[t].code + 1
          /\ Waits(t) => req[t].waited < Gap /\ req'[t].waited = req[t].waited + 1
      BY <1>0, <1>2, <2>2, TickParts, Zenon DEF TypeOK
    <3>2. req[t].stage # "login" =>
            /\ req[t].challenge \in Challenge /\ age[req[t].challenge] # None
            /\ age[req[t].challenge] \in Nat
      BY <1>0, <3>1 DEF RequestInv, TypeOK
    <3>3. req[t].stage # "login" =>
            /\ age'[req[t].challenge] # None /\ age'[req[t].challenge] \in Nat
            /\ age'[req[t].challenge] <= age[req[t].challenge] + 1
      BY <1>2, <3>2, TickParts, Zenon
    <3>4. req[t].waited \in Nat
      BY <3>1 DEF Request
    <3>5. req[t].stage \in {"checked", "matched"} => Waits(t)
      BY <3>1, Zenon DEF Waits
    <3>6. req[t].stage = "checked" => age[req[t].challenge] <= ChallengeAge + req[t].waited
      BY <1>0, <3>1, Zenon DEF RequestInv
    <3>7. req[t].stage = "matched" => req[t].code \in 0 .. 1 + Gap /\ req[t].code <= 1 + req[t].waited
      BY <1>0, <3>1, Zenon DEF RequestInv, Code
    <3>8. req[t].stage = "claimed" => req[t].code # None
      BY <1>0, <3>1, Zenon DEF RequestInv
    <3> QED
      BY <3>1, <3>2, <3>3, <3>4, <3>5, <3>6, <3>7, <3>8, SMTT(60) DEF Code
  <2> QED
    BY <2>1, <2>2, Zenon DEF RequestInv
<1>3. CASE StoreLost
  BY <1>0, <1>3, Zenon DEF RequestInv, StoreLost
<1>4. CASE Migrate
  BY <1>0, <1>4, Zenon DEF RequestInv, Migrate
<1>5. ASSUME NEW t \in Thread, Step(t) PROVE RequestInv'
  <2>1. ASSUME NEW c \in Challenge, Issue(t, c) PROVE RequestInv'
    <3>1. req'[t] = None /\ \A u \in Thread : u # t => req'[u] = req[u]
      BY <1>0, <2>1, Zenon DEF Issue, TypeOK
    <3>2. \A d \in Challenge : d # c => age'[d] = age[d]
      BY <1>0, <2>1, Zenon DEF Issue, TypeOK
    <3>3. age'[c] = 0
      BY <1>0, <2>1, Zenon DEF Issue, TypeOK
    <3>4. hold' = hold
      BY <2>1, Zenon DEF Issue, store
    <3>5. \A u \in Thread : req[u] # None => req[u].waited \in Nat
      BY <1>0, SMTT(60) DEF TypeOK, Request
    <3> QED
      BY <1>0, <3>1, <3>2, <3>3, <3>4, <3>5, SMTT(60) DEF RequestInv
  <2>2. CASE CheckToken(t)
    <3>1. age[req[t].challenge] <= ChallengeAge + 0
      BY <1>0, <2>2 DEF CheckToken, Valid, TypeOK, RequestInv, Reaches
    <3> QED
      BY <1>0, <2>2, <3>1, Zenon DEF RequestInv, CheckToken, Reaches, TypeOK, store
  <2>3. CASE ClaimChallenge(t)
    BY <1>0, <2>3 DEF RequestInv, ClaimChallenge, Reaches, TypeOK
  <2>4. CASE MatchCode(t)
    <3>1. /\ req[t] # None /\ req[t].stage = "claimed" /\ hold' = hold /\ age' = age
          /\ req'[t] = [stage |-> "matched", challenge |-> req[t].challenge,
                        code |-> req[t].code, waited |-> 0]
          /\ \A u \in Thread : u # t => req'[u] = req[u]
      BY <1>0, <2>4, Zenon DEF MatchCode, Reaches, TypeOK, store
    <3>2. /\ req'[t].stage = "matched" /\ req'[t].challenge = req[t].challenge
          /\ req'[t].code = req[t].code /\ req'[t].waited = 0
      BY <3>1
    <3>3. req[t].code \in Code /\ req[t].code <= 1 + 0
      BY <2>4, TimeAssumption DEF MatchCode, Code
    <3>4. ~ (hold # None /\ hold > 0)
      BY <1>0, <3>1, Zenon DEF RequestInv
    <3>5. ASSUME NEW u \in Thread, req'[u] # None
          PROVE  /\ req'[u].stage # "login" =>
                      req'[u].challenge \in Challenge /\ age'[req'[u].challenge] # None
                 /\ req'[u].stage = "checked" =>
                      age'[req'[u].challenge] <= ChallengeAge + req'[u].waited
                 /\ req'[u].stage = "claimed" => req'[u].code # None
                 /\ req'[u].stage = "matched" =>
                      req'[u].code \in Code /\ req'[u].code <= 1 + req'[u].waited
      <4>1. CASE u = t
        BY <1>0, <3>1, <3>2, <3>3, <4>1, Zenon DEF RequestInv
      <4>2. CASE u # t
        BY <1>0, <3>1, <3>5, <4>2, Zenon DEF RequestInv
      <4> QED
        BY <4>1, <4>2, Zenon
    <3> QED
      BY <3>1, <3>4, <3>5, Zenon DEF RequestInv
  <2>5. CASE ClaimCode(t)
    BY <1>0, <2>5, Zenon DEF RequestInv, ClaimCode, TypeOK
  <2>6. CASE Reject(t)
    BY <1>0, <2>6, Zenon DEF RequestInv, Reject, TypeOK, store
  <2> QED
    BY <1>5, <2>1, <2>2, <2>3, <2>4, <2>5, <2>6, Zenon DEF Step
<1>6. ASSUME NEW t \in Thread, LoginBegin(t) PROVE RequestInv'
  BY <1>0, <1>6, SMTT(60) DEF RequestInv, LoginBegin, Ready, TypeOK
<1>7. ASSUME NEW t \in Thread, NEW c \in Challenge, NEW k \in {0, 1, None}, Submit(t, c, k)
      PROVE  RequestInv'
  BY <1>0, <1>7, SMTT(60) DEF RequestInv, Submit, Valid, Ready, TypeOK
<1> QED
  BY <1>1, <1>2, <1>3, <1>4, <1>5, <1>6, <1>7, Zenon DEF Next, Arrive
-----------------------------------------------------------------------------
(* A challenge.                                                            *)

\* A step that touches no claim, no acceptance and no age, and moves no request to
\* a stage that matters for challenges, keeps ChallengeInv.
LEMMA ChallengeFrame ==
  ASSUME IInv,
         UNCHANGED <<hold, used, age, accepted>>,
         \A t \in Thread, c \in Challenge :
           /\ Holds(t, c)' => Holds(t, c)
           /\ At(t, "checked", c)' => At(t, "checked", c)
  PROVE  ChallengeInv'
BY Zenon DEF IInv, ChallengeInv, Claimed, ChallengeCovered

\* At the moment of a claim nobody has the challenge: a covered challenge has a key,
\* or is too old to have been checked at most Gap ticks ago.
LEMMA ClaimIsFirst ==
  ASSUME IInv, NEW t \in Thread, NEW c \in Challenge,
         At(t, "checked", c), Ready, used[c] = 0
  PROVE  ~Claimed(c)
<1> USE TimeAssumption, NoneAssumption
<1>1. age[c] # None /\ age[c] \in Nat /\ req[t].waited \in 0 .. Gap
  BY DEF IInv, RequestInv, At, TypeOK, Request
<1>2. age[c] <= ChallengeAge + req[t].waited
  BY Zenon DEF IInv, RequestInv, At
<1>3. ~ChallengeCovered(c)
  BY <1>1, <1>2 DEF ChallengeCovered, Ready
<1> QED
  BY <1>3, Zenon DEF IInv, ChallengeInv

\* Claims and acceptances of challenges stay exclusive and covered.
LEMMA ChallengeStep == IInv /\ [Next]_vars => ChallengeInv'
<1> SUFFICES ASSUME IInv, [Next]_vars PROVE ChallengeInv'
  OBVIOUS
<1> USE TimeAssumption, NoneAssumption
<1>0. TypeOK /\ RequestInv /\ ChallengeInv
  BY Zenon DEF IInv
<1>1. CASE UNCHANGED vars
  BY <1>1, ChallengeFrame, Zenon DEF vars, store, Holds, At
<1>2. CASE Tick
  <2>1. accepted' = accepted
    BY <1>2, Zenon DEF Tick
  <2>2. \A t \in Thread, c \in Challenge :
          (Holds(t, c)' <=> Holds(t, c)) /\ (At(t, "checked", c)' <=> At(t, "checked", c))
    BY <1>2, TickParts, Zenon DEF Holds, At
  <2>3. ASSUME NEW c \in Challenge, ChallengeCovered(c) PROVE ChallengeCovered(c)'
    <3>1. /\ age[c] # None /\ age[c] \in Nat /\ used[c] \in Nat /\ used'[c] \in Nat
          /\ used'[c] >= used[c] - 1
          /\ age'[c] # None /\ age'[c] \in Nat /\ (age'[c] = age[c] + 1 \/ age'[c] = ClaimTtl)
      BY <1>0, <1>2, <2>3, TickParts, TypeStep, SMTT(60) DEF ChallengeCovered, TypeOK
    <3>2. CASE hold = None
      BY <1>2, <3>1, <3>2, TickParts, Zenon DEF ChallengeCovered
    <3>3. CASE used[c] + age[c] >= ClaimTtl \/ age'[c] = ClaimTtl
      <4>1. used'[c] + age'[c] >= ClaimTtl
        BY <3>1, <3>3
      <4> QED
        BY <3>1, <4>1, Zenon DEF ChallengeCovered
    <3>4. CASE /\ hold # None /\ age[c] + hold >= Hold /\ age'[c] = age[c] + 1
               /\ \A t \in Thread : ~At(t, "checked", c)
      <4>1. hold \in Nat /\ hold' # None /\ hold' \in Nat /\ hold' >= hold - 1
        BY <1>0, <1>2, <3>4, TickParts DEF TypeOK
      <4>2. age'[c] + hold' >= Hold
        BY <3>1, <3>4, <4>1
      <4>3. \A t \in Thread : ~At(t, "checked", c)'
        BY <2>2, <3>4, Zenon
      <4> QED
        BY <3>1, <4>1, <4>2, <4>3, Zenon DEF ChallengeCovered
    <3> QED
      BY <2>3, <3>1, <3>2, <3>3, <3>4, Zenon DEF ChallengeCovered
  <2> QED
    BY <1>0, <2>1, <2>2, <2>3, Zenon DEF ChallengeInv, Claimed
<1>3. CASE StoreLost
  BY <1>0, <1>3, Zenon DEF StoreLost, ChallengeInv, Claimed, ChallengeCovered, Holds, At
<1>4. CASE Migrate
  <2>1. \A c \in Challenge : age[c] # None => age[c] \in Nat /\ age[c] + Hold >= Hold
    BY <1>0, SMTT(60) DEF TypeOK
  <2> QED
    BY <1>0, <1>4, <2>1, Zenon DEF Migrate, ChallengeInv, Claimed, ChallengeCovered, Holds, At
<1>5. ASSUME NEW t \in Thread, Step(t) PROVE ChallengeInv'
  <2>1. ASSUME NEW c \in Challenge, Issue(t, c) PROVE ChallengeInv'
    <3>1. \A u \in Thread : req'[u] = None \/ req'[u] = req[u]
      BY <1>0, <2>1, Zenon DEF Issue, TypeOK
    <3>2. \A u \in Thread : ~Holds(u, c)
      BY <1>0, <2>1, Zenon DEF Issue, FreshNonce, RequestInv, Holds, At
    <3>3. /\ \A d \in Challenge : d # c => age'[d] = age[d] /\ accepted'[d] = accepted[d]
          /\ accepted'[c] = 0 /\ hold' = hold /\ used' = used
      BY <1>0, <2>1, Zenon DEF Issue, TypeOK, store
    <3>4. \A u \in Thread, d \in Challenge :
            (Holds(u, d)' => Holds(u, d)) /\ (At(u, "checked", d)' => At(u, "checked", d))
      BY <3>1, Zenon DEF Holds, At
    <3> QED
      BY <1>0, <3>2, <3>3, <3>4, SMTT(60) DEF ChallengeInv, Claimed, ChallengeCovered
  <2>2. CASE CheckToken(t)
    <3>1. \A u \in Thread, d \in Challenge : Holds(u, d)' <=> Holds(u, d)
      BY <1>0, <2>2, Zenon DEF CheckToken, Reaches, Holds, At, TypeOK
    <3>2. UNCHANGED <<hold, used, age, accepted>>
      BY <2>2, Zenon DEF CheckToken, store
    <3> DEFINE c == req[t].challenge
    <3>3. c \in Challenge /\ age[c] \in Nat /\ age[c] <= ChallengeAge /\ age[c] # None
      BY <1>0, <2>2 DEF CheckToken, Valid, Reaches, RequestInv, TypeOK
    <3>4. \A u \in Thread, d \in Challenge : d # c => (At(u, "checked", d)' <=> At(u, "checked", d))
      BY <1>0, <2>2, Zenon DEF CheckToken, Reaches, At, TypeOK
    <3>5. hold = None \/ hold = 0
      BY <1>0, <2>2, SMTT(60) DEF CheckToken, Reaches, RequestInv, TypeOK
    <3>6. ChallengeCovered(c) => hold = None \/ used[c] + age[c] >= ClaimTtl
      BY <3>3, <3>5, SMTT(60) DEF ChallengeCovered
    <3>7. \A d \in Challenge : ChallengeCovered(d) => ChallengeCovered(d)'
      <4> SUFFICES ASSUME NEW d \in Challenge, ChallengeCovered(d) PROVE ChallengeCovered(d)'
        BY Zenon
      <4>1. CASE d = c
        BY <4>1, <3>2, <3>3, <3>6, Zenon DEF ChallengeCovered
      <4>2. CASE d # c
        BY <4>2, <3>2, <3>4, Zenon DEF ChallengeCovered
      <4> QED
        BY <4>1, <4>2, Zenon
    <3> QED
      BY <1>0, <3>1, <3>2, <3>7, Zenon DEF ChallengeInv, Claimed
  <2>3. CASE ClaimChallenge(t)
    <3>0. PICK c \in Challenge : c = req[t].challenge
      BY <1>0, <2>3, Zenon DEF ClaimChallenge, RequestInv
    <3>1. c \in Challenge /\ At(t, "checked", c) /\ Ready /\ used[c] = 0
      BY <1>0, <2>3, <3>0, Zenon DEF ClaimChallenge, RequestInv, At
    <3>2. ~Claimed(c)
      BY <3>1, ClaimIsFirst, Zenon
    <3>3. age[c] # None /\ age[c] \in Nat
      BY <1>0, <3>1, SMTT(60) DEF RequestInv, At, TypeOK
    <3>4. used'[c] = ClaimTtl /\ age' = age /\ hold' = hold
          /\ \A d \in Challenge : d # c => used'[d] = used[d]
      BY <1>0, <2>3, <3>0, <3>1, Zenon DEF ClaimChallenge, TypeOK
    <3>5. \A u \in Thread : u # t => req'[u] = req[u]
      BY <1>0, <2>3, Zenon DEF ClaimChallenge, Reaches, TypeOK
    <3>6. \A u \in Thread, d \in Challenge : At(u, "checked", d)' => At(u, "checked", d)
      BY <1>0, <2>3, <3>0, <3>5, SMTT(60) DEF ClaimChallenge, Reaches, At, TypeOK
    <3>7. \A u \in Thread, d \in Challenge : Holds(u, d)' => Holds(u, d) \/ (u = t /\ d = c)
      BY <1>0, <2>3, <3>0, <3>5, SMTT(60) DEF ClaimChallenge, Reaches, Holds, At, TypeOK
    <3>8. \A d \in Challenge : d # c => accepted'[d] = accepted[d]
      BY <1>0, <2>3, <3>0, Zenon DEF ClaimChallenge, TypeOK
    <3>9. /\ accepted[c] = 0 /\ accepted'[c] <= 1
          /\ Holds(t, c)' => accepted'[c] = 0
      <4>1. accepted[c] = 0
        BY <1>0, <3>1, <3>2 DEF Claimed, ChallengeInv, TypeOK
      <4>2. CASE accepted' = accepted
        BY <4>1, <4>2, SMTT(60)
      <4>3. CASE req' = [req EXCEPT ![t] = None] /\ accepted' = [accepted EXCEPT ![c] = @ + 1]
        BY <1>0, <3>1, <4>1, <4>3 DEF Holds, At, TypeOK
      <4> QED
        BY <2>3, <3>0, <4>1, <4>2, <4>3, Zenon DEF ClaimChallenge
    <3>10. ChallengeCovered(c)'
      BY <3>3, <3>4 DEF ChallengeCovered
    <3>11. \A d \in Challenge : d # c /\ ChallengeCovered(d) => ChallengeCovered(d)'
      BY <3>4, <3>6, Zenon DEF ChallengeCovered
    <3>12. \A d \in Challenge : accepted'[d] <= 1
      BY <1>0, <3>8, <3>9, Zenon DEF ChallengeInv
    <3>13. \A d \in Challenge, u \in Thread : Holds(u, d)' => accepted'[d] = 0
      BY <1>0, <3>1, <3>2, <3>7, <3>8, <3>9 DEF ChallengeInv, Claimed
    <3>14. \A d \in Challenge, u, v \in Thread : Holds(u, d)' /\ Holds(v, d)' => u = v
      BY <1>0, <3>1, <3>2, <3>7 DEF ChallengeInv, Claimed
    <3>15. \A d \in Challenge : Claimed(d)' => ChallengeCovered(d)'
      BY <1>0, <3>7, <3>8, <3>10, <3>11, Zenon DEF ChallengeInv, Claimed
    <3> QED
      BY <3>12, <3>13, <3>14, <3>15, Zenon DEF ChallengeInv
  <2>4. CASE MatchCode(t)
    <3>1. UNCHANGED <<hold, used, age, accepted>>
      BY <2>4, Zenon DEF MatchCode, store
    <3>2. \A u \in Thread, d \in Challenge :
            (Holds(u, d)' => Holds(u, d)) /\ (At(u, "checked", d)' => At(u, "checked", d))
      BY <1>0, <2>4, Zenon DEF MatchCode, Reaches, Holds, At, TypeOK
    <3> QED
      BY <3>1, <3>2, ChallengeFrame, Zenon
  <2>5. CASE ClaimCode(t)
    <3>0. PICK c \in Challenge : c = req[t].challenge
      BY <1>0, <2>5, Zenon DEF ClaimCode, RequestInv
    <3>1. c \in Challenge /\ Holds(t, c)
      BY <1>0, <2>5, <3>0, Zenon DEF ClaimCode, RequestInv, Holds, At
    <3>2. UNCHANGED <<hold, used, age>>
      BY <2>5, Zenon DEF ClaimCode
    <3>3. req'[t] = None /\ \A u \in Thread : u # t => req'[u] = req[u]
      BY <1>0, <2>5, Zenon DEF ClaimCode, TypeOK
    <3>4. \A u \in Thread, d \in Challenge :
            (Holds(u, d)' => Holds(u, d) /\ u # t) /\ (At(u, "checked", d)' => At(u, "checked", d))
      BY <3>3, Zenon DEF Holds, At
    <3>5. accepted[c] = 0 /\ accepted'[c] <= 1 /\ \A d \in Challenge : d # c => accepted'[d] = accepted[d]
      BY <1>0, <2>5, <3>0, <3>1 DEF ClaimCode, ChallengeInv, TypeOK
    <3>6. \A d \in Challenge : ChallengeCovered(d) => ChallengeCovered(d)'
      BY <3>2, <3>4, Zenon DEF ChallengeCovered
    <3>7. \A u \in Thread : ~Holds(u, c)'
      BY <1>0, <3>1, <3>4, Zenon DEF ChallengeInv
    <3>8. \A d \in Challenge : Claimed(d)' => Claimed(d)
      BY <3>1, <3>4, <3>5, Zenon DEF Claimed
    <3> QED
      BY <1>0, <3>4, <3>5, <3>6, <3>7, <3>8, SMTT(60) DEF ChallengeInv
  <2>6. CASE Reject(t)
    BY <1>0, <2>6, ChallengeFrame, Zenon DEF Reject, Holds, At, TypeOK, store
  <2> QED
    BY <1>5, <2>1, <2>2, <2>3, <2>4, <2>5, <2>6 DEF Step
<1>6. ASSUME NEW t \in Thread, LoginBegin(t) PROVE ChallengeInv'
  BY <1>0, <1>6, ChallengeFrame, SMTT(60) DEF LoginBegin, Holds, At, TypeOK
<1>7. ASSUME NEW t \in Thread, NEW c \in Challenge, NEW k \in {0, 1, None}, Submit(t, c, k)
      PROVE  ChallengeInv'
  BY <1>0, <1>7, ChallengeFrame, SMTT(60) DEF Submit, Holds, At, TypeOK
<1> QED
  BY <1>1, <1>2, <1>3, <1>4, <1>5, <1>6, <1>7 DEF Next, Arrive
-----------------------------------------------------------------------------
(* A code.                                                                 *)

\* A step that touches no code claim and matches no code keeps CodeInv.
LEMMA CodeFrame ==
  ASSUME IInv,
         UNCHANGED <<hold, usedCode, acceptedCode>>,
         \A t \in Thread : req'[t] # None /\ req'[t].stage = "matched" => req'[t] = req[t]
  PROVE  CodeInv'
BY Zenon DEF IInv, CodeInv, CodeCovered

\* What a code gains in age it may lose in hold.
LEMMA OneTickLess ==
  ASSUME NEW k \in Nat, NEW h \in Nat, NEW g \in Nat, NEW n \in Nat,
         g >= h - 1, (k - 1) + h >= n
  PROVE  k + g >= n
OBVIOUS

\* Accepted codes stay covered, and a covered code is not accepted again.
LEMMA CodeStep == IInv /\ [Next]_vars => CodeInv'
<1> SUFFICES ASSUME IInv, [Next]_vars PROVE CodeInv'
  OBVIOUS
<1> USE TimeAssumption, NoneAssumption
<1>0. TypeOK /\ RequestInv /\ CodeInv
  BY Zenon DEF IInv
<1>1. CASE UNCHANGED vars
  BY <1>1, CodeFrame, Zenon DEF vars, store
<1>2. CASE Tick
  <2>1. ASSUME NEW k \in Code
        PROVE  acceptedCode'[k] <= 1 /\ (acceptedCode'[k] = 1 => CodeCovered(k)')
    <3>1. CASE k = 0
      <4>1. acceptedCode'[k] = 0
        BY <1>2, <3>1, Zenon DEF Tick
      <4> QED
        BY <4>1, SMTT(60)
    <3>2. CASE k # 0
      <4>1. k - 1 \in Code /\ k \in Nat /\ k - 1 \in Nat
        BY <3>2, SMTT(60) DEF Code
      <4>2. acceptedCode'[k] = acceptedCode[k - 1] /\ usedCode'[k] = Less(usedCode[k - 1])
        BY <1>2, <3>2, Zenon DEF Tick
      <4>3. usedCode[k - 1] \in Nat /\ usedCode'[k] \in Nat /\ usedCode'[k] >= usedCode[k - 1] - 1
        BY <1>0, <4>1, <4>2, SMTT(60) DEF TypeOK, Less
      <4>4. ASSUME CodeCovered(k - 1) PROVE CodeCovered(k)'
        <5>1. CASE hold = None
          BY <1>2, <5>1, TickParts, Zenon DEF CodeCovered
        <5>2. CASE usedCode[k - 1] + (k - 1) >= CodeTtl
          <6>1. usedCode'[k] + k >= CodeTtl
            BY <4>1, <4>3, <5>2
          <6> QED
            BY <6>1, Zenon DEF CodeCovered
        <5>3. CASE /\ hold # None /\ (k - 1) + hold >= Hold
                   /\ \A t \in Thread : req[t] # None /\ req[t].stage = "matched" => req[t].code # k - 1
          <6>1. hold \in Nat /\ hold' # None /\ hold' \in Nat /\ hold' >= hold - 1
            BY <1>0, <1>2, <5>3, TickParts DEF TypeOK
          <6>2. k + hold' >= Hold
            <7>1. (k - 1) + hold >= Hold
              BY <5>3, Zenon
            <7> QED
              BY <4>1, <6>1, <7>1, OneTickLess, Zenon
          <6>3. \A t \in Thread : req'[t] # None /\ req'[t].stage = "matched" => req'[t].code # k
            <7> SUFFICES ASSUME NEW t \in Thread, req'[t] # None, req'[t].stage = "matched"
                         PROVE  req'[t].code # k
              BY Zenon
            <7>1. req[t] # None /\ req[t].stage = "matched" /\ req'[t].code = req[t].code + 1
              BY <1>2, TickParts, ZenonT(60)
            <7>2. req[t].code \in Nat
              BY <1>0, <7>1, SMTT(60) DEF RequestInv, Code
            <7>3. req[t].code # k - 1
              BY <5>3, <7>1, Zenon
            <7> QED
              BY <4>1, <7>1, <7>2, <7>3, SMTT(60)
          <6> QED
            BY <6>1, <6>2, <6>3, Zenon DEF CodeCovered
        <5> QED
          BY <4>4, <5>1, <5>2, <5>3, Zenon DEF CodeCovered
      <4> QED
        BY <1>0, <4>1, <4>2, <4>4, Zenon DEF CodeInv
    <3> QED
      BY <3>1, <3>2, Zenon
  <2> QED
    BY <2>1, Zenon DEF CodeInv
<1>3. CASE StoreLost
  BY <1>0, <1>3, Zenon DEF StoreLost, CodeInv, CodeCovered
<1>4. CASE Migrate
  <2>1. \A k \in Code : k \in Nat /\ k + Hold >= Hold
    BY SMTT(60) DEF Code
  <2> QED
    BY <1>0, <1>4, <2>1, Zenon DEF Migrate, CodeInv, CodeCovered
<1>5. ASSUME NEW t \in Thread, Step(t) PROVE CodeInv'
  <2>1. ASSUME NEW c \in Challenge, Issue(t, c) PROVE CodeInv'
    BY <1>0, <2>1, CodeFrame, Zenon DEF Issue, TypeOK, store
  <2>2. CASE CheckToken(t)
    BY <1>0, <2>2, CodeFrame, Zenon DEF CheckToken, Reaches, TypeOK, store
  <2>3. CASE ClaimChallenge(t)
    BY <1>0, <2>3, CodeFrame DEF ClaimChallenge, Reaches, TypeOK
  <2>4. CASE MatchCode(t)
    <3>1. UNCHANGED <<hold, usedCode, acceptedCode>>
      BY <2>4, Zenon DEF MatchCode, store
    <3>2. \A u \in Thread : u # t => req'[u] = req[u]
      BY <1>0, <2>4, Zenon DEF MatchCode, Reaches, TypeOK
    <3>3. req'[t].code \in {0, 1}
      BY <1>0, <2>4, Zenon DEF MatchCode, Reaches, TypeOK
    <3>4. hold = None \/ hold = 0
      BY <1>0, <2>4 DEF MatchCode, Reaches, RequestInv, TypeOK
    <3>5. ASSUME NEW k \in Code, CodeCovered(k) PROVE CodeCovered(k)'
      <4>1. CASE hold = None \/ usedCode[k] + k >= CodeTtl
        BY <3>1, <4>1, Zenon DEF CodeCovered
      <4>2. CASE ~(hold = None \/ usedCode[k] + k >= CodeTtl)
        <5>1. hold = 0 /\ k \in Nat /\ k > 1
          BY <3>4, <3>5, <4>2 DEF CodeCovered, Code
        <5> QED
          BY <3>1, <3>2, <3>3, <3>5, <4>2, <5>1, SMTT(60) DEF CodeCovered
      <4> QED
        BY <4>1, <4>2, Zenon
    <3> QED
      BY <1>0, <3>1, <3>5, Zenon DEF CodeInv
  <2>5. CASE ClaimCode(t)
    <3>0. PICK k \in Code : k = req[t].code
      BY <1>0, <2>5, Zenon DEF ClaimCode, RequestInv
    <3>1. /\ req[t] # None /\ req[t].stage = "matched" /\ hold = 0 /\ hold' = hold /\ hold # None
          /\ usedCode[k] = 0 /\ usedCode'[k] = CodeTtl
          /\ \A j \in Code : j # k => usedCode'[j] = usedCode[j] /\ acceptedCode'[j] = acceptedCode[j]
      BY <1>0, <2>5, <3>0 DEF ClaimCode, Ready, TypeOK
    <3>2. k \in Nat /\ k < CodeTtl
      BY SMTT(60) DEF Code
    <3>3. ~CodeCovered(k)
      BY <3>0, <3>1, <3>2 DEF CodeCovered
    <3>4. acceptedCode[k] = 0
      BY <1>0, <3>3, SMTT(60) DEF CodeInv, TypeOK
    <3>5. acceptedCode'[k] <= 1
      BY <1>0, <2>5, <3>0, <3>4, SMTT(60) DEF ClaimCode, TypeOK
    <3>6. \A u \in Thread : req'[u] # None => req'[u] = req[u]
      BY <1>0, <2>5, Zenon DEF ClaimCode, TypeOK
    <3>7. CodeCovered(k)'
      BY <3>1, <3>2, SMTT(60) DEF CodeCovered
    <3>8. \A j \in Code : j # k /\ CodeCovered(j) => CodeCovered(j)'
      BY <3>1, <3>6, Zenon DEF CodeCovered
    <3> QED
      BY <1>0, <3>1, <3>5, <3>7, <3>8, Zenon DEF CodeInv
  <2>6. CASE Reject(t)
    BY <1>0, <2>6, CodeFrame, Zenon DEF Reject, TypeOK, store
  <2> QED
    BY <1>5, <2>1, <2>2, <2>3, <2>4, <2>5, <2>6 DEF Step
<1>6. ASSUME NEW t \in Thread, LoginBegin(t) PROVE CodeInv'
  BY <1>0, <1>6, CodeFrame, SMTT(60) DEF LoginBegin, TypeOK
<1>7. ASSUME NEW t \in Thread, NEW c \in Challenge, NEW k \in {0, 1, None}, Submit(t, c, k)
      PROVE  CodeInv'
  BY <1>0, <1>7, CodeFrame DEF Submit, TypeOK
<1> QED
  BY <1>1, <1>2, <1>3, <1>4, <1>5, <1>6, <1>7 DEF Next, Arrive

-----------------------------------------------------------------------------
\* Every reachable state satisfies the inductive invariant.
THEOREM SecurityStoreInductive == Spec => []IInv
<1>1. IInv /\ [Next]_vars => IInv'
  BY TypeStep, RequestStep, ChallengeStep, CodeStep, Zenon DEF IInv
<1> QED
  BY InitIInv, <1>1, PTL DEF Spec

\* The store and the requests stay in the state space of operator_mfa.py.
THEOREM SecurityStoreTyped == Spec => []TypeOK
<1>1. IInv => TypeOK
  BY Zenon DEF IInv
<1> QED
  BY SecurityStoreInductive, <1>1, PTL

\* prepare_mfa accepts a signed challenge at most once, for every number of threads
\* and every admissible choice of expiry, hold and gap.
THEOREM ChallengeOnce == Spec => []ChallengeAcceptedOnce
<1>1. IInv => ChallengeAcceptedOnce
  BY Zenon DEF IInv, ChallengeInv, ChallengeAcceptedOnce
<1> QED
  BY SecurityStoreInductive, <1>1, PTL

\* prepare_mfa accepts a TOTP code at most once.
THEOREM CodeOnce == Spec => []CodeAcceptedOnce
<1>1. IInv => CodeAcceptedOnce
  BY Zenon DEF IInv, CodeInv, CodeAcceptedOnce
<1> QED
  BY SecurityStoreInductive, <1>1, PTL

\* No sign-in reuses a challenge or a code (prepare_mfa).
THEOREM AlwaysAcceptedOnce == Spec => []AcceptedOnce
BY ChallengeOnce, CodeOnce, PTL DEF AcceptedOnce

-----------------------------------------------------------------------------
(* The database roles.                                                     *)

\* The steps of an initializer that holds the advisory lock or has lost it with its
\* session, those in which the database was found fresh, and those before the role.
Inside == {"fresh", "migrate", "provision", "grant", "probe", "complete"}
Working == Inside \ {"fresh"}
Making == {"migrate", "provision", "grant"}

\* The lock is held by the one initializer inside whose session is still the one that
\* took it; a session is lost only after the ledger was created.
LockInv ==
  /\ \A i \in Initializer : lock = i <=> init[i].pc \in Inside /\ init[i].session
  /\ \A i \in Initializer : init[i].pc \in {"start", "lock", "fresh"} => init[i].session
  /\ \A i \in Initializer : ~ init[i].session => Ledger \in tables

\* At most one initializer has found the database fresh and still works on it; until
\* it has created the role, nobody else has made a table or the role.
WorkerInv ==
  /\ \A i, j \in Initializer : init[i].pc \in Working /\ init[j].pc \in Working => i = j
  /\ \A i \in Initializer : init[i].pc \in Making =>
       ~ role /\ \A t \in Table \cup {Ledger} : maker[t] \in {Nil, i}
  /\ \A i \in Initializer : init[i].pc \in {"provision", "grant"} => Migrated
  /\ \A i \in Initializer : init[i].pc \in {"probe", "complete"} => role
  /\ \A i \in Initializer : init[i].pc # "start" => init[i].path \in ReceiptPath

\* The role exists with its whole set of grants or not at all, and only over the
\* migrated database of the one initializer that created it.
GrantInv ==
  /\ ~ role => creators = {} /\ \E public \in {{"USAGE"}, {"USAGE", "CREATE"}} :
                                   acl = NoGrants(public)
  /\ role => /\ creators # {} /\ Migrated /\ storeReady
             /\ acl.public.database = {} /\ acl.runtime.database = {"CONNECT", "TEMPORARY"}
             /\ acl.public.schema = {"USAGE"} /\ acl.runtime.schema = {"USAGE"}
             /\ acl.default = DML
  /\ (\E r \in ReceiptPath : receipt[r] = "complete") => role
  /\ service => role

RolesInv ==
  RolesTypeOK /\ LockInv /\ WorkerInv /\ GrantInv /\ RuntimeAuthority /\ NoAdoption

\* The privileges, and what each statement of the role transaction does to them.
Privileges(pd, ps, rd, rs, tb, df) ==
  [public |-> [database |-> pd, schema |-> ps], runtime |-> [database |-> rd, schema |-> rs],
   table |-> tb, default |-> df]

\* REVOKE ALL ON DATABASE FROM PUBLIC takes the database privileges of PUBLIC, and nothing else.
LEMMA RevokePublicDatabaseResult ==
  \A pd, ps, rd, rs, tb, df :
    RevokePublicDatabase(Privileges(pd, ps, rd, rs, tb, df)) = Privileges({}, ps, rd, rs, tb, df)
BY DEF RevokePublicDatabase, Privileges

\* GRANT CONNECT, TEMPORARY ON DATABASE adds those of the runtime role, and nothing else.
LEMMA GrantDatabaseResult ==
  \A pd, ps, rd, rs, tb, df :
    GrantDatabase(Privileges(pd, ps, rd, rs, tb, df)) = Privileges(pd, ps, rd \cup {"CONNECT", "TEMPORARY"}, rs, tb, df)
BY DEF GrantDatabase, Privileges

\* REVOKE CREATE ON SCHEMA public takes the creation right of PUBLIC, and nothing else.
LEMMA RevokePublicCreateResult ==
  \A pd, ps, rd, rs, tb, df :
    RevokePublicCreate(Privileges(pd, ps, rd, rs, tb, df)) = Privileges(pd, ps \ {"CREATE"}, rd, rs, tb, df)
BY DEF RevokePublicCreate, Privileges

\* GRANT USAGE ON SCHEMA adds the right of the runtime role, and nothing else.
LEMMA GrantSchemaResult ==
  \A pd, ps, rd, rs, tb, df :
    GrantSchema(Privileges(pd, ps, rd, rs, tb, df)) = Privileges(pd, ps, rd, rs \cup {"USAGE"}, tb, df)
BY DEF GrantSchema, Privileges

\* ALTER DEFAULT PRIVILEGES sets those of later tables, and nothing else.
LEMMA GrantDefaultResult ==
  \A pd, ps, rd, rs, tb, df :
    GrantDefault(Privileges(pd, ps, rd, rs, tb, df)) = Privileges(pd, ps, rd, rs, tb, DML)
BY DEF GrantDefault, Privileges

\* GRANT ... ON ALL TABLES adds the four rights on the tables there are, and nothing else.
LEMMA GrantTablesResult ==
  \A pd, ps, rd, rs, tb, df :
    GrantTables(Privileges(pd, ps, rd, rs, tb, df)) =
      Privileges(pd, ps, rd, rs,
        [t \in All |-> IF t \in tables THEN tb[t] \cup DML ELSE tb[t]], df)
<1> TAKE pd, ps, rd, rs, tb, df
<1> DEFINE p == Privileges(pd, ps, rd, rs, tb, df)
           f == [t \in All |-> IF t \in tables THEN p.table[t] \cup DML ELSE p.table[t]]
<1>1. p.table = tb
  BY Zenon DEF Privileges
<1>2. f = [t \in All |-> IF t \in tables THEN tb[t] \cup DML ELSE tb[t]]
  BY <1>1, Zenon
<1>3. GrantTables(p) = [p EXCEPT !.table = f]
  BY Zenon DEF GrantTables
<1> HIDE DEF f
<1>4. [p EXCEPT !.table = f] = Privileges(pd, ps, rd, rs, f, df)
  BY DEF Privileges
<1> QED
  BY <1>2, <1>3, <1>4, Zenon

\* REVOKE on the ledger takes the writing rights on it, and nothing else.
LEMMA RevokeLedgerResult ==
  \A pd, ps, rd, rs, tb, df :
    RevokeLedger(Privileges(pd, ps, rd, rs, tb, df)) =
      Privileges(pd, ps, rd, rs, [tb EXCEPT ![Ledger] = @ \ Write], df)
<1> TAKE pd, ps, rd, rs, tb, df
<1> DEFINE p == Privileges(pd, ps, rd, rs, tb, df)
           f == [p.table EXCEPT ![Ledger] = @ \ Write]
<1>1. p.table = tb
  BY DEF Privileges
<1>2. f = [tb EXCEPT ![Ledger] = @ \ Write]
  BY <1>1, Zenon
<1>3. RevokeLedger(p) = [p EXCEPT !.table = f]
  BY Zenon DEF RevokeLedger
<1> HIDE DEF f
<1>4. [p EXCEPT !.table = f] = Privileges(pd, ps, rd, rs, f, df)
  BY DEF Privileges
<1> QED
  BY <1>2, <1>3, <1>4, Zenon

\* What the whole transaction leaves of the initial privileges.
LEMMA RoleGrantsResult ==
  ASSUME NEW public, acl = NoGrants(public)
  PROVE  RoleGrants(acl) =
           Privileges({}, public \ {"CREATE"}, {"CONNECT", "TEMPORARY"}, {"USAGE"},
             [t \in All |-> IF t \in tables
                                THEN IF t = Ledger THEN {"SELECT"} ELSE DML
                                ELSE {}],
             DML)
<1> DEFINE none == [t \in All |-> {}]
           all == [t \in All |-> IF t \in tables THEN none[t] \cup DML ELSE none[t]]
           rw == [t \in All |-> IF t \in tables
                                    THEN IF t = Ledger THEN {"SELECT"} ELSE DML
                                    ELSE {}]
           pc0 == {"CONNECT", "TEMPORARY"}
<1>1. acl = Privileges(pc0, public, {}, {}, none, {})
  BY Zenon DEF NoGrants, Privileges
<1>2. {} \cup pc0 = pc0 /\ {} \cup {"USAGE"} = {"USAGE"}
  BY Zenon
<1>3. [all EXCEPT ![Ledger] = @ \ Write] = rw
  BY Zenon DEF Write, DML
<1> HIDE DEF none, all, rw, pc0
<1>4. RevokePublicDatabase(acl) = Privileges({}, public, {}, {}, none, {})
  BY <1>1, RevokePublicDatabaseResult
<1>5. GrantDatabase(Privileges({}, public, {}, {}, none, {})) = Privileges({}, public, pc0, {}, none, {})
  BY <1>2, GrantDatabaseResult DEF pc0
<1>6. RevokePublicCreate(Privileges({}, public, pc0, {}, none, {})) =
        Privileges({}, public \ {"CREATE"}, pc0, {}, none, {})
  BY RevokePublicCreateResult
<1>7. GrantSchema(Privileges({}, public \ {"CREATE"}, pc0, {}, none, {})) =
        Privileges({}, public \ {"CREATE"}, pc0, {"USAGE"}, none, {})
  BY <1>2, GrantSchemaResult
<1>8. GrantTables(Privileges({}, public \ {"CREATE"}, pc0, {"USAGE"}, none, {})) =
        Privileges({}, public \ {"CREATE"}, pc0, {"USAGE"}, all, {})
  BY GrantTablesResult DEF all
<1>9. RevokeLedger(Privileges({}, public \ {"CREATE"}, pc0, {"USAGE"}, all, {})) =
        Privileges({}, public \ {"CREATE"}, pc0, {"USAGE"}, rw, {})
  BY <1>3, RevokeLedgerResult
<1>10. GrantDefault(Privileges({}, public \ {"CREATE"}, pc0, {"USAGE"}, rw, {})) =
         Privileges({}, public \ {"CREATE"}, pc0, {"USAGE"}, rw, DML)
  BY GrantDefaultResult, Zenon
<1>11. RoleGrants(acl) = Privileges({}, public \ {"CREATE"}, pc0, {"USAGE"}, rw, DML)
  BY <1>4, <1>5, <1>6, <1>7, <1>8, <1>9, <1>10, Zenon DEF RoleGrants
<1> QED
  BY <1>11, Zenon DEF rw, pc0

\* The state of an initializer.
InitState ==
  [pc : {"start", "lock", "fresh", "migrate", "provision", "grant", "probe", "complete", "done"},
   path : ReceiptPath \cup {Nil}, session : BOOLEAN]

\* The part of GrantInv about privileges only.
GrantKept ==
  (/\ ~ role => creators = {} /\ \E public \in {{"USAGE"}, {"USAGE", "CREATE"}} :
                                   acl = NoGrants(public)
   /\ role => /\ creators # {} /\ Migrated /\ storeReady
              /\ acl.public.database = {} /\ acl.runtime.database = {"CONNECT", "TEMPORARY"}
              /\ acl.public.schema = {"USAGE"} /\ acl.runtime.schema = {"USAGE"}
              /\ acl.default = DML)'

\* A step that moves one initializer and leaves the tables and privileges alone.
LEMMA RolesFrame ==
  ASSUME RolesInv, UNCHANGED <<maker, storeReady, acl, role, creators, service>>
  PROVE  /\ RuntimeAuthority' /\ NoAdoption' /\ GrantKept
         /\ tables' = tables /\ Migrated' = Migrated
<1>1. tables' = tables
  BY Zenon DEF tables
<1>2. Migrated' = Migrated
  BY <1>1, Zenon DEF Migrated
<1>3. RuntimeAuthority'
  BY <1>1, Zenon DEF RolesInv, RuntimeAuthority, May
<1>4. NoAdoption'
  BY Zenon DEF RolesInv, NoAdoption
<1>5. GrantKept
  BY <1>2, Zenon DEF RolesInv, GrantInv, GrantKept
<1> QED
  BY <1>1, <1>2, <1>3, <1>4, <1>5, Zenon

\* Reserving a receipt touches nothing the others rely on.
LEMMA RolesReserve ==
  ASSUME RolesInv, NEW i \in Initializer, NEW r \in ReceiptPath, ReserveReceipt(i, r)
  PROVE  RolesInv'
<1>1. /\ init[i].pc = "start" /\ receipt[r] = "absent"
      /\ receipt' = [receipt EXCEPT ![r] = "unknown"]
      /\ init' = [init EXCEPT ![i] = [@ EXCEPT !.pc = "lock", !.path = r]]
      /\ lock' = lock /\ UNCHANGED <<maker, storeReady, acl, role, creators, service>>
  BY Zenon DEF ReserveReceipt, InitializerAt
<1>2. /\ RuntimeAuthority' /\ NoAdoption' /\ GrantKept
      /\ tables' = tables /\ Migrated' = Migrated
  BY <1>1, RolesFrame, Zenon
<1>3. /\ init \in [Initializer -> InitState]
      /\ receipt \in [ReceiptPath -> {"absent", "unknown", "complete"}]
      /\ lock \in Initializer \cup {Nil}
  BY Zenon DEF RolesInv, RolesTypeOK, InitState
<1>4. /\ init' \in [Initializer -> InitState]
      /\ receipt' \in [ReceiptPath -> {"absent", "unknown", "complete"}]
      /\ lock' \in Initializer \cup {Nil}
  BY <1>1, <1>3, ZenonT(60) DEF InitState
<1>5. RolesTypeOK'
  BY <1>1, <1>4, Zenon DEF RolesInv, RolesTypeOK, InitState
<1>6. \A j \in Initializer :
        /\ init'[j].pc = IF j = i THEN "lock" ELSE init[j].pc
        /\ init'[j].session = init[j].session
        /\ init'[j].path = IF j = i THEN r ELSE init[j].path
  BY <1>1, <1>3, Zenon DEF InitState
<1>7. LockInv'
  BY <1>1, <1>2, <1>6, NobodyDistinct DEF RolesInv, LockInv, Inside, Making
<1>8. WorkerInv'
  BY <1>1, <1>2, <1>3, <1>6 DEF RolesInv, WorkerInv, LockInv, Inside, Working, Making
<1>9. GrantInv'
  BY <1>1, <1>2, <1>3, Zenon DEF RolesInv, GrantInv, WorkerInv, GrantKept
<1> QED
  BY <1>2, <1>5, <1>7, <1>8, <1>9, Zenon DEF RolesInv

\* The lock is taken only when nobody holds it.
LEMMA RolesLock ==
  ASSUME RolesInv, NEW i \in Initializer, Lock(i)
  PROVE  RolesInv'
<1>1. /\ init[i].pc = "lock" /\ lock = Nil /\ lock' = i /\ receipt' = receipt
      /\ init' = [init EXCEPT ![i].pc = "fresh"]
      /\ UNCHANGED <<maker, storeReady, acl, role, creators, service>>
  BY Zenon DEF Lock, InitializerAt, InitializerGoto
<1>2. /\ RuntimeAuthority' /\ NoAdoption' /\ GrantKept
      /\ tables' = tables /\ Migrated' = Migrated
  BY <1>1, RolesFrame, Zenon
<1>3. /\ init \in [Initializer -> InitState]
      /\ receipt \in [ReceiptPath -> {"absent", "unknown", "complete"}]
      /\ lock \in Initializer \cup {Nil}
  BY Zenon DEF RolesInv, RolesTypeOK, InitState
<1>4. /\ init' \in [Initializer -> InitState]
      /\ receipt' \in [ReceiptPath -> {"absent", "unknown", "complete"}]
      /\ lock' \in Initializer \cup {Nil}
  BY <1>1, <1>3, Zenon DEF InitState
<1>5. RolesTypeOK'
  BY <1>1, <1>4, Zenon DEF RolesInv, RolesTypeOK, InitState
<1>6. \A j \in Initializer :
        /\ init'[j].pc = IF j = i THEN "fresh" ELSE init[j].pc
        /\ init'[j].session = init[j].session
        /\ init'[j].path = init[j].path
  BY <1>1, <1>3, Zenon DEF InitState
<1>7. LockInv'
  BY <1>1, <1>2, <1>6, NobodyDistinct DEF RolesInv, LockInv, Inside, Making
<1>8. WorkerInv'
  BY <1>1, <1>2, <1>3, <1>6 DEF RolesInv, WorkerInv, LockInv, Inside, Working, Making
<1>9. GrantInv'
  BY <1>1, <1>2, <1>3, Zenon DEF RolesInv, GrantInv, WorkerInv, GrantKept
<1> QED
  BY <1>2, <1>5, <1>7, <1>8, <1>9, Zenon DEF RolesInv

\* A database without role and relations has no other initializer at work.
LEMMA RolesFresh ==
  ASSUME RolesInv, NEW i \in Initializer, FreshDatabase(i)
  PROVE  RolesInv'
<1>1. /\ init[i].pc = "fresh" /\ ~ role /\ tables = {}
      /\ lock' = lock /\ receipt' = receipt
      /\ init' = [init EXCEPT ![i].pc = "migrate"]
      /\ UNCHANGED <<maker, storeReady, acl, role, creators, service>>
  BY Zenon DEF FreshDatabase, InitializerAt, InitializerGoto
<1>2. /\ RuntimeAuthority' /\ NoAdoption' /\ GrantKept
      /\ tables' = tables /\ Migrated' = Migrated
  BY <1>1, RolesFrame, Zenon
<1>3. /\ init \in [Initializer -> InitState]
      /\ receipt \in [ReceiptPath -> {"absent", "unknown", "complete"}]
      /\ lock \in Initializer \cup {Nil}
  BY DEF RolesInv, RolesTypeOK, InitState
<1>4. /\ init' \in [Initializer -> InitState]
      /\ receipt' \in [ReceiptPath -> {"absent", "unknown", "complete"}]
      /\ lock' \in Initializer \cup {Nil}
  BY <1>1, <1>3, Zenon DEF InitState
<1>5. RolesTypeOK'
  BY <1>1, <1>4, Zenon DEF RolesInv, RolesTypeOK, InitState
<1>6. \A j \in Initializer :
        /\ init'[j].pc = IF j = i THEN "migrate" ELSE init[j].pc
        /\ init'[j].session = init[j].session
        /\ init'[j].path = init[j].path
  BY <1>1, <1>3, Zenon DEF InitState
<1>7. LockInv'
  BY <1>1, <1>2, <1>6, NobodyDistinct DEF RolesInv, LockInv, Inside, Making
<1>8. WorkerInv'
  <2>1. \A t \in Table \cup {Ledger} : maker'[t] = Nil
    BY <1>1, Zenon DEF tables, All
  <2>2. \A j \in Initializer : init[j].pc \notin Working
    BY <1>1, Zenon DEF RolesInv, LockInv, Inside, Working
  <2> QED
    BY <1>1, <1>2, <1>6, <2>1, <2>2 DEF RolesInv, WorkerInv, Inside, Working, Making
<1>9. GrantInv'
  BY <1>1, <1>2, <1>3, Zenon DEF RolesInv, GrantInv, WorkerInv, GrantKept
<1> QED
  BY <1>2, <1>5, <1>7, <1>8, <1>9 DEF RolesInv

\* A lost session gives the lock away with the ledger already in place.
LEMMA RolesReconnect ==
  ASSUME RolesInv, NEW i \in Initializer, Reconnect(i)
  PROVE  RolesInv'
<1>1. /\ init[i].pc \in Making /\ lock = i /\ Ledger \in tables
      /\ lock' = Nil /\ receipt' = receipt
      /\ init' = [init EXCEPT ![i].session = FALSE]
      /\ UNCHANGED <<maker, storeReady, acl, role, creators, service>>
  BY Zenon DEF Reconnect, Making
<1>2. /\ RuntimeAuthority' /\ NoAdoption' /\ GrantKept
      /\ tables' = tables /\ Migrated' = Migrated
  BY <1>1, RolesFrame, Zenon
<1>3. /\ init \in [Initializer -> InitState]
      /\ receipt \in [ReceiptPath -> {"absent", "unknown", "complete"}]
      /\ lock \in Initializer \cup {Nil}
  BY DEF RolesInv, RolesTypeOK, InitState
<1>4. /\ init' \in [Initializer -> InitState]
      /\ receipt' \in [ReceiptPath -> {"absent", "unknown", "complete"}]
      /\ lock' \in Initializer \cup {Nil}
  BY <1>1, <1>3, Zenon DEF InitState
<1>5. RolesTypeOK'
  BY <1>1, <1>4, Zenon DEF RolesInv, RolesTypeOK, InitState
<1>6. \A j \in Initializer :
        /\ init'[j].pc = init[j].pc
        /\ init'[j].session = IF j = i THEN FALSE ELSE init[j].session
        /\ init'[j].path = init[j].path
  BY <1>1, <1>3, Zenon DEF InitState, Making
<1>7. LockInv'
  BY <1>1, <1>2, <1>6, NobodyDistinct, ZenonT(60) DEF RolesInv, LockInv, Inside, Making
<1>8. WorkerInv'
  BY <1>1, <1>2, <1>3, <1>6 DEF RolesInv, WorkerInv, LockInv, Inside, Working, Making
<1>9. GrantInv'
  BY <1>1, <1>2, <1>3, Zenon DEF RolesInv, GrantInv, WorkerInv, GrantKept
<1> QED
  BY <1>2, <1>5, <1>7, <1>8, <1>9 DEF RolesInv

\* The probe and the receipt come after the role.
LEMMA RolesProbe ==
  ASSUME RolesInv, NEW i \in Initializer, Probe(i)
  PROVE  RolesInv'
<1>1. /\ init[i].pc = "probe" /\ lock' = lock /\ receipt' = receipt
      /\ init' = [init EXCEPT ![i].pc = "complete"]
      /\ UNCHANGED <<maker, storeReady, acl, role, creators, service>>
  BY Zenon DEF Probe, InitializerAt, InitializerGoto
<1>2. /\ RuntimeAuthority' /\ NoAdoption' /\ GrantKept
      /\ tables' = tables /\ Migrated' = Migrated
  BY <1>1, RolesFrame, Zenon
<1>3. /\ init \in [Initializer -> InitState]
      /\ receipt \in [ReceiptPath -> {"absent", "unknown", "complete"}]
      /\ lock \in Initializer \cup {Nil}
  BY DEF RolesInv, RolesTypeOK, InitState
<1>4. /\ init' \in [Initializer -> InitState]
      /\ receipt' \in [ReceiptPath -> {"absent", "unknown", "complete"}]
      /\ lock' \in Initializer \cup {Nil}
  BY <1>1, <1>3, Zenon DEF InitState
<1>5. RolesTypeOK'
  BY <1>1, <1>4, Zenon DEF RolesInv, RolesTypeOK, InitState
<1>6. \A j \in Initializer :
        /\ init'[j].pc = IF j = i THEN "complete" ELSE init[j].pc
        /\ init'[j].session = init[j].session
        /\ init'[j].path = init[j].path
  BY <1>1, <1>3, Zenon DEF InitState
<1>7. LockInv'
  BY <1>1, <1>2, <1>6, NobodyDistinct DEF RolesInv, LockInv, Inside, Making
<1>8. WorkerInv'
  BY <1>1, <1>2, <1>3, <1>6 DEF RolesInv, WorkerInv, LockInv, Inside, Working, Making
<1>9. GrantInv'
  BY <1>1, <1>2, <1>3, Zenon DEF RolesInv, GrantInv, WorkerInv, GrantKept
<1> QED
  BY <1>2, <1>5, <1>7, <1>8, <1>9 DEF RolesInv

\* The completion receipt is written by the initializer whose role exists.
LEMMA RolesComplete ==
  ASSUME RolesInv, NEW i \in Initializer, Complete(i)
  PROVE  RolesInv'
<1>1. /\ init[i].pc = "complete"
      /\ lock' = IF lock = i THEN Nil ELSE lock
      /\ receipt' = [receipt EXCEPT ![init[i].path] = "complete"]
      /\ init' = [init EXCEPT ![i].pc = "done"]
      /\ UNCHANGED <<maker, storeReady, acl, role, creators, service>>
  BY Zenon DEF Complete, InitializerAt, InitializerGoto
<1>2. /\ RuntimeAuthority' /\ NoAdoption' /\ GrantKept
      /\ tables' = tables /\ Migrated' = Migrated
  BY <1>1, RolesFrame, Zenon
<1>3. /\ init \in [Initializer -> InitState]
      /\ receipt \in [ReceiptPath -> {"absent", "unknown", "complete"}]
      /\ lock \in Initializer \cup {Nil}
  BY DEF RolesInv, RolesTypeOK, InitState
<1>4. /\ init' \in [Initializer -> InitState]
      /\ receipt' \in [ReceiptPath -> {"absent", "unknown", "complete"}]
      /\ lock' \in Initializer \cup {Nil}
  BY <1>1, <1>3, Zenon DEF InitState
<1>5. RolesTypeOK'
  BY <1>1, <1>4, Zenon DEF RolesInv, RolesTypeOK, InitState
<1>6. \A j \in Initializer :
        /\ init'[j].pc = IF j = i THEN "done" ELSE init[j].pc
        /\ init'[j].session = init[j].session
        /\ init'[j].path = init[j].path
  BY <1>1, <1>3, Zenon DEF InitState
<1>7. LockInv'
  BY <1>1, <1>2, <1>6, NobodyDistinct DEF RolesInv, LockInv, Inside, Making
<1>8. WorkerInv'
  BY <1>1, <1>2, <1>3, <1>6 DEF RolesInv, WorkerInv, LockInv, Inside, Working, Making
<1>9. GrantInv'
  BY <1>1, <1>2, <1>3, Zenon DEF RolesInv, GrantInv, WorkerInv, GrantKept
<1> QED
  BY <1>2, <1>5, <1>7, <1>8, <1>9 DEF RolesInv

\* Whoever ends gives the lock back.
LEMMA RolesQuit ==
  ASSUME RolesInv, NEW i \in Initializer, Quit(i)
  PROVE  RolesInv'
<1>1. /\ init[i].pc \notin {"start", "done"}
      /\ lock' = IF lock = i THEN Nil ELSE lock
      /\ receipt' = receipt
      /\ init' = [init EXCEPT ![i].pc = "done"]
      /\ UNCHANGED <<maker, storeReady, acl, role, creators, service>>
  BY Zenon DEF Quit, InitializerGoto
<1>2. /\ RuntimeAuthority' /\ NoAdoption' /\ GrantKept
      /\ tables' = tables /\ Migrated' = Migrated
  BY <1>1, RolesFrame, Zenon
<1>3. /\ init \in [Initializer -> InitState]
      /\ receipt \in [ReceiptPath -> {"absent", "unknown", "complete"}]
      /\ lock \in Initializer \cup {Nil}
  BY DEF RolesInv, RolesTypeOK, InitState
<1>4. /\ init' \in [Initializer -> InitState]
      /\ receipt' \in [ReceiptPath -> {"absent", "unknown", "complete"}]
      /\ lock' \in Initializer \cup {Nil}
  BY <1>1, <1>3, Zenon DEF InitState
<1>5. RolesTypeOK'
  BY <1>1, <1>4, Zenon DEF RolesInv, RolesTypeOK, InitState
<1>6. \A j \in Initializer :
        /\ init'[j].pc = IF j = i THEN "done" ELSE init[j].pc
        /\ init'[j].session = init[j].session
        /\ init'[j].path = init[j].path
  BY <1>1, <1>3, Zenon DEF InitState
<1>7. LockInv'
  BY <1>1, <1>2, <1>6, NobodyDistinct, SMTT(60) DEF RolesInv, LockInv, Inside, Making
<1>8. WorkerInv'
  BY <1>1, <1>2, <1>3, <1>6, SMTT(60) DEF RolesInv, WorkerInv, LockInv, Inside, Working, Making
<1>9. GrantInv'
  BY <1>1, <1>2, <1>3, Zenon DEF RolesInv, GrantInv, WorkerInv, GrantKept
<1> QED
  BY <1>2, <1>5, <1>7, <1>8, <1>9 DEF RolesInv

\* A migration is applied by the only initializer at work; the privileges, none of
\* them granted yet, are untouched.
LEMMA RolesMigrate ==
  ASSUME RolesInv, NEW i \in Initializer, MigrateSchema(i)
  PROVE  RolesInv'
<1>1. init[i].pc = "migrate" /\ UNCHANGED <<receipt, lock, storeReady, acl, role, creators, service>>
  BY Zenon DEF MigrateSchema, InitializerAt
<1>2. init \in [Initializer -> InitState] /\ maker \in [All -> Initializer \cup {Owner, Nil}]
  BY Zenon DEF RolesInv, RolesTypeOK, InitState
<1>3. ~ role /\ ~ role' /\ creators = {}
  BY <1>1, Zenon DEF RolesInv, WorkerInv, Making, GrantInv
<1>4. CASE Migrated
  <2>1. init' = [init EXCEPT ![i].pc = "provision"] /\ maker' = maker
    BY <1>4, Zenon DEF MigrateSchema, InitializerGoto
  <2>2. /\ RuntimeAuthority' /\ NoAdoption' /\ GrantKept
        /\ tables' = tables /\ Migrated' = Migrated
    BY <1>1, <2>1, RolesFrame, Zenon
  <2>3. init' \in [Initializer -> InitState]
    BY <1>2, <2>1, Zenon DEF InitState
  <2>4. RolesTypeOK'
    BY <1>1, <2>1, <2>3, Zenon DEF RolesInv, RolesTypeOK, InitState
  <2>5. \A j \in Initializer :
          /\ init'[j].pc = IF j = i THEN "provision" ELSE init[j].pc
          /\ init'[j].session = init[j].session
          /\ init'[j].path = init[j].path
    BY <1>2, <2>1, Zenon DEF InitState
  <2>6. LockInv'
    BY <1>1, <2>2, <2>5, ZenonT(60) DEF RolesInv, LockInv, Inside
  <2>7. WorkerInv'
    BY <1>1, <1>4, <2>1, <2>2, <2>5, SMTT(60) DEF RolesInv, WorkerInv, Inside, Working, Making
  <2>8. GrantInv'
    BY <1>1, <2>2, Zenon DEF RolesInv, GrantInv, GrantKept
  <2> QED
    BY <2>2, <2>4, <2>6, <2>7, <2>8 DEF RolesInv
<1>5. CASE ~ Migrated
  <2>1. PICK t \in (Table \cup {Ledger}) \ tables : maker' = [maker EXCEPT ![t] = i]
    BY <1>5, Zenon DEF MigrateSchema
  <2>2. init' = init
    BY <1>5, Zenon DEF MigrateSchema
  <2>3. t \in All
    BY Zenon DEF All
  <2>4. maker' \in [All -> Initializer \cup {Owner, Nil}]
    BY <1>2, <2>1, Zenon
  <2>5. RolesTypeOK'
    BY <1>1, <2>2, <2>4, Zenon DEF RolesInv, RolesTypeOK
  <2>6. tables \subseteq tables'
    BY <1>2, <2>1, <2>3, NobodyDistinct, Zenon DEF tables
  <2>7. LockInv'
    BY <1>1, <2>2, <2>6, Zenon DEF RolesInv, LockInv
  <2>8. \A u \in Table \cup {Ledger} : maker'[u] \in {Nil, i}
    BY <1>1, <1>2, <2>1, Zenon DEF RolesInv, WorkerInv, Making, All
  <2>9. \A j \in Initializer : init[j].pc \in Working => j = i
    <3>1. init[i].pc \in Working
      BY <1>1, Zenon DEF Inside, Working
    <3> QED
      BY <3>1, Zenon DEF RolesInv, WorkerInv
  <2>10. WorkerInv'
    <3>1. WorkerInv
      BY Zenon DEF RolesInv
    <3>2. \A j \in Initializer : init[j].pc \notin {"probe", "complete"}
      BY <1>3, <3>1, Zenon DEF WorkerInv
    <3>3. \A j \in Initializer : init[j].pc \in {"provision", "grant"} => j = i
      BY <2>9, Zenon DEF Inside, Working
    <3>4. init[i].pc \notin {"provision", "grant"}
      BY <1>1, Zenon
    <3>5. \A j \in Initializer : init[j].pc \in Making => j = i
      BY <2>9, Zenon DEF Inside, Working, Making
    <3> QED
      BY <1>3, <2>2, <2>8, <3>1, <3>2, <3>3, <3>4, <3>5, Zenon DEF WorkerInv
  <2>11. GrantInv'
    <3>1. GrantInv /\ ~ role
      BY <1>3, Zenon DEF RolesInv
    <3>2. /\ creators' = {} /\ ~ role' /\ ~ service'
          /\ \E public \in {{"USAGE"}, {"USAGE", "CREATE"}} : acl' = NoGrants(public)
      BY <1>1, <1>3, <3>1, Zenon DEF GrantInv
    <3>3. ~ \E r \in ReceiptPath : receipt'[r] = "complete"
      BY <1>1, <3>1, Zenon DEF GrantInv
    <3> QED
      BY <3>2, <3>3, Zenon DEF GrantInv
  <2> QED
    BY <1>1, <1>3, <2>5, <2>7, <2>10, <2>11, Zenon DEF RolesInv, RuntimeAuthority, NoAdoption
<1> QED
  BY <1>4, <1>5, Zenon

\* The provisioner touches the Store only; the migrations stay complete.
LEMMA RolesProvision ==
  ASSUME RolesInv, NEW i \in Initializer, Provision(i)
  PROVE  RolesInv'
<1>1. /\ init[i].pc = "provision" /\ init' = [init EXCEPT ![i].pc = "grant"]
      /\ storeReady' \in BOOLEAN /\ UNCHANGED <<receipt, lock, maker, acl, role, creators, service>>
  <2>1. PICK done \in BOOLEAN : storeReady' = (storeReady \/ done)
    BY Zenon DEF Provision
  <2> QED
    BY <2>1, Zenon DEF Provision, InitializerAt, InitializerGoto
<1>2. init \in [Initializer -> InitState]
  BY Zenon DEF RolesInv, RolesTypeOK, InitState
<1>3. ~ role /\ ~ role' /\ creators = {}
  BY <1>1, Zenon DEF RolesInv, WorkerInv, Making, GrantInv
<1>4. tables' = tables /\ Migrated' = Migrated
  BY <1>1, Zenon DEF tables, Migrated
<1>5. init' \in [Initializer -> InitState]
  BY <1>1, <1>2, Zenon DEF InitState
<1>6. RolesTypeOK'
  BY <1>1, <1>5, Zenon DEF RolesInv, RolesTypeOK, InitState
<1>7. \A j \in Initializer :
        /\ init'[j].pc = IF j = i THEN "grant" ELSE init[j].pc
        /\ init'[j].session = init[j].session
        /\ init'[j].path = init[j].path
  BY <1>1, <1>2, Zenon DEF InitState
<1>8. LockInv'
  BY <1>1, <1>4, <1>7 DEF RolesInv, LockInv, Inside
<1>9. WorkerInv'
  BY <1>1, <1>4, <1>7 DEF RolesInv, WorkerInv, Inside, Working, Making
<1>10. GrantInv'
  BY <1>1, <1>3, Zenon DEF RolesInv, GrantInv
<1> QED
  BY <1>1, <1>3, <1>6, <1>8, <1>9, <1>10, Zenon DEF RolesInv, RuntimeAuthority, NoAdoption

\* The role transaction: the initializer whose session still holds the lock has made
\* every table itself, and hands over exactly the privileges the runtime needs.
LEMMA RolesGrant ==
  ASSUME RolesInv, NEW i \in Initializer, Grant(i)
  PROVE  RolesInv'
<1>1. /\ init[i].pc = "grant" /\ storeReady /\ ~ role /\ role' = TRUE
      /\ creators' = creators \cup {i} /\ acl' = RoleGrants(acl)
      /\ init' = [init EXCEPT ![i].pc = "probe"]
      /\ UNCHANGED <<receipt, lock, maker, storeReady, service>>
  BY Zenon DEF Grant, InitializerAt, InitializerGoto
<1>2. /\ init \in [Initializer -> InitState] /\ creators \subseteq Initializer
      /\ maker \in [All -> Initializer \cup {Owner, Nil}]
  BY Zenon DEF RolesInv, RolesTypeOK, InitState
<1>3. tables' = tables /\ Migrated' = Migrated /\ Migrated
  BY <1>1, Zenon DEF tables, Migrated, RolesInv, WorkerInv
<1>4. PICK public \in {{"USAGE"}, {"USAGE", "CREATE"}} : acl = NoGrants(public)
  BY <1>1, Zenon DEF RolesInv, GrantInv
<1>5. DEFINE rw == [t \in All |-> IF t \in tables
                                       THEN IF t = Ledger THEN {"SELECT"} ELSE DML
                                       ELSE {}]
<1>6. acl' = Privileges({}, public \ {"CREATE"}, {"CONNECT", "TEMPORARY"}, {"USAGE"}, rw, DML)
  BY <1>1, <1>4, RoleGrantsResult, Zenon
<1>7. public \ {"CREATE"} = {"USAGE"}
  BY Zenon
<1>8. /\ rw \in [All -> SUBSET DML]
      /\ \A t \in tables : rw[t] = IF t = Ledger THEN {"SELECT"} ELSE DML
  BY Zenon DEF DML, tables
<1> HIDE DEF rw
<1>9. /\ acl'.public.database = {} /\ acl'.public.schema = {"USAGE"}
      /\ acl'.runtime.database = {"CONNECT", "TEMPORARY"} /\ acl'.runtime.schema = {"USAGE"}
      /\ acl'.table = rw /\ acl'.default = DML
  BY <1>6, <1>7, Zenon DEF Privileges
<1>10. RolesTypeOK'
  <2>1. init' \in [Initializer -> InitState]
    BY <1>1, <1>2, Zenon DEF InitState
  <2>2. acl' \in [public : [database : SUBSET {"CONNECT", "TEMPORARY"}, schema : SUBSET {"USAGE", "CREATE"}],
                  runtime : [database : SUBSET {"CONNECT", "TEMPORARY"}, schema : SUBSET {"USAGE"}],
                  table : [All -> SUBSET DML], default : SUBSET DML]
    BY <1>6, <1>7, <1>8, Zenon DEF Privileges
  <2> QED
    BY <1>1, <2>1, <2>2, Zenon DEF RolesInv, RolesTypeOK, InitState
<1>11. \A j \in Initializer :
         /\ init'[j].pc = IF j = i THEN "probe" ELSE init[j].pc
         /\ init'[j].session = init[j].session
         /\ init'[j].path = init[j].path
  BY <1>1, <1>2, Zenon DEF InitState
<1>12. LockInv'
  BY <1>1, <1>3, <1>11 DEF RolesInv, LockInv, Inside
<1>13. WorkerInv'
  BY <1>1, <1>3, <1>11 DEF RolesInv, WorkerInv, Inside, Working, Making
<1>14. GrantInv'
  BY <1>1, <1>3, <1>9, Zenon DEF RolesInv, GrantInv
<1>15. RuntimeAuthority'
  BY <1>1, <1>3, <1>8, <1>9, Zenon DEF RuntimeAuthority, May
<1>16. NoAdoption'
  <2>1. creators' = {i}
    BY <1>1, Zenon DEF RolesInv, GrantInv
  <2>2. \A t \in Table \cup {Ledger} : maker[t] \in {Nil, i} /\ maker[t] # Nil
    BY <1>1, <1>3, Zenon DEF RolesInv, WorkerInv, Making, Migrated, tables
  <2> QED
    BY <1>1, <2>1, <2>2, Zenon DEF NoAdoption
<1> QED
  BY <1>10, <1>12, <1>13, <1>14, <1>15, <1>16, Zenon DEF RolesInv

\* A service starts only after its own check of the role.
LEMMA RolesService ==
  ASSUME RolesInv, ServiceStarts
  PROVE  RolesInv'
<1>1. /\ role /\ service' = TRUE
      /\ UNCHANGED <<init, receipt, lock, maker, storeReady, acl, role, creators>>
  BY Zenon DEF ServiceStarts, CheckRuntime, CheckRole
<1>2. tables' = tables /\ Migrated' = Migrated
  BY <1>1, Zenon DEF tables, Migrated
<1>3. RolesTypeOK'
  BY <1>1, Zenon DEF RolesInv, RolesTypeOK
<1>4. LockInv' /\ WorkerInv'
  BY <1>1, <1>2, ZenonT(60) DEF RolesInv, LockInv, WorkerInv
<1>5. GrantInv'
  BY <1>1, <1>2, Zenon DEF RolesInv, GrantInv
<1>6. RuntimeAuthority' /\ NoAdoption'
  BY <1>1, <1>2, Zenon DEF RolesInv, RuntimeAuthority, May, NoAdoption
<1> QED
  BY <1>3, <1>4, <1>5, <1>6, Zenon DEF RolesInv

\* A table of a later migration gets the default privileges, and no table of the
\* image changes its maker.
LEMMA RolesOwner ==
  ASSUME RolesInv, NEW t \in Later, OwnerMigrates(t)
  PROVE  RolesInv'
<1>1. /\ role /\ t \notin tables /\ maker' = [maker EXCEPT ![t] = Owner]
      /\ acl' = [acl EXCEPT !.table[t] = acl.default]
      /\ UNCHANGED <<init, receipt, lock, storeReady, role, creators, service>>
  BY Zenon DEF OwnerMigrates
<1>2. /\ maker \in [All -> Initializer \cup {Owner, Nil}]
      /\ acl.table \in [All -> SUBSET DML] /\ t \in All
  BY Zenon DEF RolesInv, RolesTypeOK, All
<1>3. /\ acl.default = DML /\ Migrated
      /\ \A u \in tables : acl.table[u] = IF u = Ledger THEN {"SELECT"} ELSE DML
  BY <1>1, Zenon DEF RolesInv, GrantInv, RuntimeAuthority
<1>4. t \notin Table \cup {Ledger}
  BY <1>1, <1>3, Zenon DEF Migrated
<1>5. /\ \A u \in All : maker'[u] = IF u = t THEN Owner ELSE maker[u]
      /\ tables' = tables \cup {t}
  BY <1>1, <1>2, NobodyDistinct, Zenon DEF tables
<1>6. Migrated'
  BY <1>3, <1>5, Zenon DEF Migrated
<1>7. DEFINE tb == [acl.table EXCEPT ![t] = DML]
<1>8. tb \in [All -> SUBSET DML] /\ \A u \in All : tb[u] = IF u = t THEN DML ELSE acl.table[u]
  BY <1>2, Zenon
<1>9. acl' = [acl EXCEPT !.table = tb]
  BY <1>1, <1>3, Zenon
<1> HIDE DEF tb
<1>10. /\ acl'.public = acl.public /\ acl'.runtime = acl.runtime
       /\ acl'.table = tb /\ acl'.default = acl.default
  BY <1>9, Zenon DEF RolesInv, RolesTypeOK
<1>11. RolesTypeOK'
  <2>1. acl' \in [public : [database : SUBSET {"CONNECT", "TEMPORARY"}, schema : SUBSET {"USAGE", "CREATE"}],
                  runtime : [database : SUBSET {"CONNECT", "TEMPORARY"}, schema : SUBSET {"USAGE"}],
                  table : [All -> SUBSET DML], default : SUBSET DML]
    BY <1>8, <1>9, Zenon DEF RolesInv, RolesTypeOK
  <2>2. maker' \in [All -> Initializer \cup {Owner, Nil}]
    BY <1>1, <1>2, Zenon
  <2> QED
    BY <1>1, <2>1, <2>2, Zenon DEF RolesInv, RolesTypeOK
<1>12. LockInv'
  BY <1>1, <1>5, Zenon DEF RolesInv, LockInv
<1>13. WorkerInv'
  BY <1>1, <1>6, Zenon DEF RolesInv, WorkerInv
<1>14. GrantInv'
  BY <1>1, <1>3, <1>6, <1>10, Zenon DEF RolesInv, GrantInv
<1>15. RuntimeAuthority'
  <2>1. \A u \in tables' : acl'.table[u] = IF u = Ledger THEN {"SELECT"} ELSE DML
    BY <1>3, <1>4, <1>5, <1>8, <1>10, Zenon DEF tables
  <2> QED
    BY <1>1, <1>10, <2>1, Zenon DEF RolesInv, RuntimeAuthority, May
<1>16. NoAdoption'
  BY <1>1, <1>4, <1>5, Zenon DEF RolesInv, NoAdoption, All
<1> QED
  BY <1>11, <1>12, <1>13, <1>14, <1>15, <1>16, Zenon DEF RolesInv

\* The inductive invariant of the database roles.
LEMMA RolesInvariant == RolesSpec => []RolesInv
<1>1. RolesInit => RolesInv
  <2> SUFFICES ASSUME RolesInit PROVE RolesInv
    OBVIOUS
  <2>1. PICK public \in {{"USAGE"}, {"USAGE", "CREATE"}} : acl = NoGrants(public)
    BY Zenon DEF RolesInit
  <2>2. /\ init = [i \in Initializer |-> [pc |-> "start", path |-> Nil, session |-> TRUE]]
        /\ receipt = [r \in ReceiptPath |-> "absent"] /\ lock = Nil
        /\ maker = [t \in All |-> Nil] /\ storeReady = FALSE
        /\ role = FALSE /\ creators = {} /\ service = FALSE
    BY Zenon DEF RolesInit, NoInit
  <2>3. acl \in [public : [database : SUBSET {"CONNECT", "TEMPORARY"}, schema : SUBSET {"USAGE", "CREATE"}],
                 runtime : [database : SUBSET {"CONNECT", "TEMPORARY"}, schema : SUBSET {"USAGE"}],
                 table : [All -> SUBSET DML], default : SUBSET DML]
    BY <2>1, Zenon DEF NoGrants
  <2>4. RolesTypeOK
    BY <2>2, <2>3, Zenon DEF RolesTypeOK
  <2>5. LockInv /\ WorkerInv
    BY <2>2, NobodyDistinct, Zenon DEF LockInv, WorkerInv, Inside, Working, Making
  <2>6. GrantInv
    BY <2>1, <2>2, Zenon DEF GrantInv
  <2> QED
    BY <2>2, <2>4, <2>5, <2>6, Zenon DEF RolesInv, RuntimeAuthority, NoAdoption
<1>2. RolesInv /\ [RolesNext]_(rolesVars) => RolesInv'
  <2> SUFFICES ASSUME RolesInv, [RolesNext]_(rolesVars) PROVE RolesInv'
    BY Zenon
  <2>1. ASSUME NEW i \in Initializer, InitializerStep(i) PROVE RolesInv'
    BY <2>1, RolesReserve, RolesLock, RolesFresh, RolesReconnect, RolesMigrate, RolesProvision,
       RolesGrant, RolesProbe, RolesComplete, RolesQuit, Zenon DEF InitializerStep
  <2>2. CASE UNCHANGED rolesVars
    <3>1. UNCHANGED <<init, receipt, lock, maker, storeReady, acl, role, creators, service>>
      BY <2>2, Zenon DEF rolesVars
    <3>2. /\ RuntimeAuthority' /\ NoAdoption' /\ GrantKept
          /\ tables' = tables /\ Migrated' = Migrated
      BY <3>1, RolesFrame, Zenon
    <3>3. RolesTypeOK'
      BY <3>1, Zenon DEF RolesInv, RolesTypeOK
    <3>4. LockInv' /\ WorkerInv'
      BY <3>1, <3>2, Zenon DEF RolesInv, LockInv, WorkerInv
    <3>5. GrantInv'
      BY <3>1, <3>2, Zenon DEF RolesInv, GrantInv, GrantKept
    <3> QED
      BY <3>2, <3>3, <3>4, <3>5, Zenon DEF RolesInv
  <2> QED
    BY <2>1, <2>2, RolesService, RolesOwner, Zenon DEF RolesNext
<1> QED
  BY <1>1, <1>2, PTL DEF RolesSpec

\* However many initializers are started on one database, killed or reconnected: while
\* the runtime role exists it may read and write every application table, may only
\* read the ledger and may create nothing permanent (the grants of initialize).
THEOREM RuntimeAuthorityAlways == RolesSpec => []RuntimeAuthority
<1>1. RolesInv => RuntimeAuthority
  BY Zenon DEF RolesInv, RuntimeAuthority
<1> QED
  BY <1>1, RolesInvariant, PTL

\* The initializer that created the role made every table the image needs itself
\* (the advisory lock, the test of a fresh database and the session check).
THEOREM NeverAdopts == RolesSpec => []NoAdoption
<1>1. RolesInv => NoAdoption
  BY Zenon DEF RolesInv, NoAdoption
<1> QED
  BY <1>1, RolesInvariant, PTL

\* A completion receipt, once written, always stands for a database on which the
\* runtime check passes, and no service runs on any other (check_runtime).
THEOREM AlwaysHandedOverReady == RolesSpec => []HandedOverReady
<1>1. RolesInv /\ role => CheckRuntime
  <2> SUFFICES ASSUME RolesInv, role PROVE CheckRuntime
    BY Zenon
  <2>1. /\ Migrated /\ storeReady
        /\ acl.public.database = {} /\ acl.runtime.database = {"CONNECT", "TEMPORARY"}
        /\ acl.public.schema = {"USAGE"} /\ acl.runtime.schema = {"USAGE"}
    BY Zenon DEF RolesInv, GrantInv
  <2>2. May("database") = {"CONNECT", "TEMPORARY"} /\ May("schema") = {"USAGE"}
    BY <2>1, Zenon DEF May
  <2>3. Ledger \in tables
    BY <2>1, Zenon DEF Migrated
  <2>4. acl.table[Ledger] = {"SELECT"}
    BY <2>3, Zenon DEF RolesInv, RuntimeAuthority
  <2>5. acl.table[Ledger] \cap DML = {"SELECT"}
    BY <2>4, Zenon DEF DML
  <2> QED
    BY <2>1, <2>2, <2>5, Zenon DEF CheckRuntime, CheckRole
<1>2. RolesInv => HandedOverReady
  BY <1>1, Zenon DEF RolesInv, GrantInv, HandedOverReady, CompleteMeansReady, ServiceRestricted
<1> QED
  BY <1>2, RolesInvariant, PTL
=============================================================================
