---------------------------- MODULE SecurityStore ----------------------------
(***************************************************************************)
(* One operator's sign-in against the Redis security store, as in          *)
(* experiments/server/operator_mfa.py.  A signed challenge and a TOTP code *)
(* carry no state of their own: that each is accepted once rests on claims *)
(* in Redis that outlive them, and on the hold after the store was lost.   *)
(*                                                                         *)
(* A tick is one TOTP step, 30 seconds: then ChallengeAge is 10, ClaimTtl  *)
(* and Hold 12, CodeTtl 4, BudgetTtl 10, PasswordMax 10, VerifyMax 5, and  *)
(* Gap is 1.                                                               *)
(***************************************************************************)
EXTENDS Integers

CONSTANTS
  Thread,         \* web threads
  Challenge,      \* signed verification tokens, each with a random nonce
  ChallengeAge,   \* CHALLENGE_SECONDS: a token is valid up to this age
  ClaimTtl,       \* expiry of a challenge-used key
  CodeTtl,        \* expiry of a totp-used key
  Hold,           \* delay of a migrated marker
  PasswordMax,    \* password submissions per window
  VerifyMax,      \* verification submissions per window
  BudgetTtl,      \* window of a budget
  Gap,            \* longest time between a check and its claim (socket timeouts)
  None

ASSUME TimeAssumption ==
  /\ ChallengeAge \in Nat /\ Gap \in Nat /\ Hold \in Nat
  /\ ClaimTtl \in Nat /\ ClaimTtl > ChallengeAge + Gap
  /\ CodeTtl \in Nat /\ CodeTtl > 1 + Gap
  /\ Hold > ChallengeAge /\ Hold > 1
  /\ PasswordMax \in Nat \ {0} /\ VerifyMax \in Nat \ {0} /\ BudgetTtl \in Nat \ {0}

Code == 0 .. 1 + Gap      \* codes by the age of their time step
Budget == {"password", "verify"}
Limit(b) == IF b = "password" THEN PasswordMax ELSE VerifyMax

VARIABLES
  hold,        \* ticks until the marker admits operations; None without a marker
  used,        \* remaining life of each challenge-used key, 0 when absent
  usedCode,    \* remaining life of each totp-used key
  spent,       \* submissions counted in each budget, 0 when the key is absent
  spentTtl,
  age,         \* age of each challenge, None when it was not issued
  req,         \* the sign-in request each thread is in the middle of
  accepted,    \* how often a challenge was accepted
  acceptedCode \* how often a code was accepted

store == <<hold, used, usedCode, spent, spentTtl>>
vars == <<store, age, req, accepted, acceptedCode>>

Request == [stage : {"login", "submitted", "checked", "claimed", "matched"},
            challenge : Challenge \cup {None},
            code : 0 .. 2 + Gap \cup {None},
            waited : 0 .. Gap]

ASSUME NoneAssumption == None \notin Int /\ None \notin Challenge /\ None \notin Request

TypeOK ==
  /\ hold \in 0 .. Hold \cup {None}
  /\ used \in [Challenge -> 0 .. ClaimTtl]
  /\ usedCode \in [Code -> 0 .. CodeTtl]
  /\ spent \in [Budget -> Nat] /\ \A b \in Budget : spent[b] <= Limit(b)
  /\ spentTtl \in [Budget -> 0 .. BudgetTtl]
  /\ age \in [Challenge -> 0 .. ClaimTtl \cup {None}]
  /\ req \in [Thread -> Request \cup {None}]
  /\ accepted \in [Challenge -> Nat]
  /\ acceptedCode \in [Code -> Nat]

\* A fresh store: its marker admits operations at once.
Init ==
  /\ hold = 0
  /\ used = [c \in Challenge |-> 0]
  /\ usedCode = [k \in Code |-> 0]
  /\ spent = [b \in Budget |-> 0] /\ spentTtl = [b \in Budget |-> 0]
  /\ age = [c \in Challenge |-> None]
  /\ req = [t \in Thread |-> None]
  /\ accepted = [c \in Challenge |-> 0]
  /\ acceptedCode = [k \in Code |-> 0]

\* STORE_GUARD: the marker is there, has the configured identity and is due.
Ready == hold = 0

-----------------------------------------------------------------------------
(* A sign-in request.                                                      *)

Allowed(b) == spent[b] < Limit(b)

\* _budget: one script under the guard; the window starts with its first charge.
Charge(b) ==
  /\ spent' = [spent EXCEPT ![b] = IF Allowed(b) THEN @ + 1 ELSE @]
  /\ spentTtl' = [spentTtl EXCEPT ![b] = IF spent[b] = 0 THEN BudgetTtl ELSE @]

\* Middleware on the password form: the budget is charged, later the view issues;
\* over the budget (429) or without a reply (503) the request ends here.
LoginBegin(t) ==
  /\ req[t] = None
  /\ Ready
  /\ Charge("password")
  /\ \/ Allowed("password") /\ req' = [req EXCEPT ![t] =
                 [stage |-> "login", challenge |-> None, code |-> None, waited |-> 0]]
     \/ UNCHANGED req
  /\ UNCHANGED <<hold, used, usedCode, age, accepted, acceptedCode>>

\* A nonce no living token has.
FreshNonce(c) ==
  \/ age[c] = None
  \/ age[c] = ClaimTtl /\ used[c] = 0 /\ \A t \in Thread : req[t] # None => req[t].challenge # c

Issue(t, c) ==
  /\ req[t] # None /\ req[t].stage = "login"
  /\ FreshNonce(c)
  /\ age' = [age EXCEPT ![c] = 0]
  /\ accepted' = [accepted EXCEPT ![c] = 0]
  /\ req' = [req EXCEPT ![t] = None]
  /\ UNCHANGED <<store, acceptedCode>>

Valid(c) == age[c] # None /\ age[c] <= ChallengeAge

\* _challenge: a valid token, then the budget.
Submit(t, c, k) ==
  /\ req[t] = None
  /\ Ready
  /\ Valid(c)
  /\ Charge("verify")
  /\ \/ Allowed("verify") /\ req' = [req EXCEPT ![t] =
                 [stage |-> "submitted", challenge |-> c, code |-> k, waited |-> 0]]
     \/ UNCHANGED req
  /\ UNCHANGED <<hold, used, usedCode, age, accepted, acceptedCode>>

Reaches(t, from, to) ==
  /\ req[t] # None /\ req[t].stage = from
  /\ req' = [req EXCEPT ![t] = [stage |-> to, challenge |-> req[t].challenge,
                               code |-> req[t].code, waited |-> 0]]

\* prepare_mfa loads the token again.
CheckToken(t) ==
  /\ Reaches(t, "submitted", "checked")
  /\ Valid(req[t].challenge)
  /\ UNCHANGED <<store, age, accepted, acceptedCode>>

\* _cache_add('challenge-used:...'): SET NX EX under the guard.  A lost reply
\* rejects the request with the claim made.  A security key has no code.
ClaimChallenge(t) ==
  LET c == req[t].challenge IN
  /\ req[t] # None /\ req[t].stage = "checked"
  /\ Ready
  /\ used[c] = 0
  /\ used' = [used EXCEPT ![c] = ClaimTtl]
  /\ \/ req' = [req EXCEPT ![t] = None] /\ UNCHANGED accepted
     \/ req[t].code # None /\ Reaches(t, "checked", "claimed") /\ UNCHANGED accepted
     \/ /\ req[t].code = None
        /\ req' = [req EXCEPT ![t] = None]
        /\ accepted' = [accepted EXCEPT ![c] = @ + 1]
  /\ UNCHANGED <<hold, usedCode, spent, spentTtl, age, acceptedCode>>

\* The code is that of the present or the previous time step.
MatchCode(t) ==
  /\ Reaches(t, "claimed", "matched")
  /\ req[t].code \in {0, 1}
  /\ UNCHANGED <<store, age, accepted, acceptedCode>>

\* _cache_add('totp-used:...'), then the proof is handed out.
ClaimCode(t) ==
  /\ req[t] # None /\ req[t].stage = "matched"
  /\ Ready
  /\ usedCode[req[t].code] = 0
  /\ usedCode' = [usedCode EXCEPT ![req[t].code] = CodeTtl]
  /\ req' = [req EXCEPT ![t] = None]
  /\ \/ /\ accepted' = [accepted EXCEPT ![req[t].challenge] = @ + 1]
        /\ acceptedCode' = [acceptedCode EXCEPT ![req[t].code] = @ + 1]
     \/ UNCHANGED <<accepted, acceptedCode>>
  /\ UNCHANGED <<hold, used, spent, spentTtl, age>>

\* Denied, unavailable, or the worker died.
Reject(t) ==
  /\ req[t] # None
  /\ req' = [req EXCEPT ![t] = None]
  /\ UNCHANGED <<store, age, accepted, acceptedCode>>

-----------------------------------------------------------------------------
(* Time and the store.                                                     *)

Less(n) == IF n = 0 THEN 0 ELSE n - 1

\* A check and its claim are at most Gap apart.
Waits(t) == req[t] # None /\ req[t].stage \in {"checked", "matched"}

Tick ==
  /\ \A t \in Thread : Waits(t) => req[t].waited < Gap
  /\ hold' = IF hold = None THEN None ELSE Less(hold)
  /\ used' = [c \in Challenge |-> Less(used[c])]
  /\ usedCode' = [k \in Code |-> IF k = 0 THEN 0 ELSE Less(usedCode[k - 1])]
  /\ acceptedCode' = [k \in Code |-> IF k = 0 THEN 0 ELSE acceptedCode[k - 1]]
  /\ spentTtl' = [b \in Budget |-> Less(spentTtl[b])]
  /\ spent' = [b \in Budget |-> IF spentTtl[b] > 1 THEN spent[b] ELSE 0]
  /\ age' = [c \in Challenge |-> IF age[c] \in {None, ClaimTtl} THEN age[c] ELSE age[c] + 1]
  /\ req' = [t \in Thread |->
       IF req[t] = None THEN None
       ELSE [stage |-> req[t].stage, challenge |-> req[t].challenge,
             code |-> IF req[t].code \in {None, 2 + Gap} THEN req[t].code ELSE req[t].code + 1,
             waited |-> IF Waits(t) THEN req[t].waited + 1 ELSE 0]]
  /\ UNCHANGED accepted

\* The Redis volume is lost or replaced: no marker, no claims.
StoreLost ==
  /\ hold' = None
  /\ used' = [c \in Challenge |-> 0]
  /\ usedCode' = [k \in Code |-> 0]
  /\ spent' = [b \in Budget |-> 0] /\ spentTtl' = [b \in Budget |-> 0]
  /\ UNCHANGED <<age, req, accepted, acceptedCode>>

\* Mutant of Migrate: the new marker is due at once, as in 'fresh' mode.
MigrateAtOnce ==
  /\ hold = None
  /\ \A t \in Thread : req[t] = None
  /\ hold' = 0
  /\ UNCHANGED <<used, usedCode, spent, spentTtl, age, req, accepted, acceptedCode>>

\* initialize_security_store('migrate'), with the application stopped.
Migrate ==
  /\ hold = None
  /\ \A t \in Thread : req[t] = None
  /\ hold' = Hold
  /\ UNCHANGED <<used, usedCode, spent, spentTtl, age, req, accepted, acceptedCode>>

-----------------------------------------------------------------------------
Step(t) ==
  \/ \E c \in Challenge : Issue(t, c)
  \/ CheckToken(t)
  \/ ClaimChallenge(t)
  \/ MatchCode(t)
  \/ ClaimCode(t)
  \/ Reject(t)

Arrive(t) == LoginBegin(t) \/ \E c \in Challenge, k \in {0, 1, None} : Submit(t, c, k)

Next == Tick \/ StoreLost \/ Migrate \/ \E t \in Thread : Step(t) \/ Arrive(t)

Spec == Init /\ [][Next]_vars

\* Time passes, and every store operation ends within its socket timeout.
FairSpec == Spec /\ WF_vars(Tick) /\ \A t \in Thread : WF_vars(Step(t))

-----------------------------------------------------------------------------
(* Properties.                                                             *)

\* A signed challenge is accepted at most once, by whichever thread, also across
\* expiry of its claim, loss of the store and its migration (prepare_mfa).
ChallengeAcceptedOnce == \A c \in Challenge : accepted[c] <= 1

\* A TOTP code is accepted at most once while its time step can match.
CodeAcceptedOnce == \A k \in Code : acceptedCode[k] <= 1

\* What a sign-in presents, challenge or code, is accepted at most once (prepare_mfa).
AcceptedOnce == ChallengeAcceptedOnce /\ CodeAcceptedOnce

\* A spent budget comes back, however often it is tried (_budget).
BudgetComesBack == \A b \in Budget : []<>(spent[b] < Limit(b))
=============================================================================
