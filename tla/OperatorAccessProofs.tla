------------------------ MODULE OperatorAccessProofs ------------------------
(***************************************************************************)
(* Theorems about the local operator account, for any number of browser    *)
(* sessions, management commands and verification methods.                 *)
(***************************************************************************)
EXTENDS OperatorAccess, TLAPS

\* A password was entered for the hash a with login resets before it: a hash that is
\* still current was entered after the latest reset.
Fresh(a, login) == a <= auth /\ (a = auth => login = resets)

\* The records of a session.
RecordsOK(s) ==
  /\ sess[s].challenge # Nil => Fresh(sess[s].challenge.auth, sess[s].challenge.login)
  /\ sess[s].proof # Nil => Fresh(sess[s].proof.auth, sess[s].proof.login)

\* A request that changes the account holds the user row and what it read is current.
RequestOK(s) ==
  /\ op[s].kind # "idle" => humans > 0
  /\ op[s].kind \in {"verify", "add", "delete", "confirm"} => rowLock = s
  /\ op[s].kind = "login" => Fresh(op[s].auth, op[s].login)
  /\ op[s].kind = "verify" =>
       sess[s].challenge # Nil /\ sess[s].challenge.auth = op[s].auth
  /\ op[s].kind = "add" => IF op[s].verified THEN Verified(s) ELSE factors = {}
  /\ op[s].kind = "delete" => Verified(s) /\ \E f, g \in factors : f # g
  /\ op[s].kind \in {"open", "confirm"} => op[s].link \in Command
  /\ op[s].kind = "confirm" => op[s].auth = auth /\ op[s].signedIn = signedIn

SessionOK(s) == RecordsOK(s) /\ RequestOK(s)

\* A command in its transaction holds the ContentType row, and a recovery the user row.
CommandOK(c) ==
  /\ cmd[c].stage \in {"typed", "checked"} => typeLock = c
  /\ cmd[c].stage = "checked" =>
       IF cmd[c].mode = "bootstrap" THEN humans = 0 ELSE rowLock = c
  /\ cmd[c].stage \notin {"committed", "written", "failed"} => link[c] = Nil /\ uses[c] = 0

\* A link is for the hash its reset made; a later reset or its use has replaced it.
LinkOK(c) ==
  /\ uses[c] <= 1
  /\ link[c] # Nil =>
       /\ link[c].reset <= resets /\ link[c].auth <= auth
       /\ link[c].reset < resets \/ uses[c] > 0 => link[c].auth < auth

AccessInv ==
  /\ AccessTypeOK
  /\ humans <= 1
  /\ \A s \in Session : SessionOK(s)
  /\ \A c \in Command : CommandOK(c) /\ LinkOK(c)

\* What the invariant says of one session and of one command.
LEMMA OneSession ==
  ASSUME AccessInv, NEW s \in Session
  PROVE  RecordsOK(s) /\ RequestOK(s) /\ sess[s] \in Records /\ op[s] \in Operation
BY Zenon DEF AccessInv, AccessTypeOK, SessionOK

LEMMA OneCommand ==
  ASSUME AccessInv, NEW c \in Command
  PROVE  /\ CommandOK(c) /\ LinkOK(c) /\ cmd[c] \in CommandState
         /\ link[c] \in Link \cup {Nil} /\ uses[c] \in Nat
BY Zenon DEF AccessInv, AccessTypeOK

\* A session is not disturbed by others: they leave the account alone, or the session
\* does not hold the row, or there is no account yet, and a new hash makes its records old.
LEMMA OtherSession ==
  ASSUME AccessInv, NEW t \in Session, sess'[t] = sess[t], op'[t] = op[t],
         humans > 0 => humans' > 0, auth' \in Nat,
         \/ /\ UNCHANGED <<auth, signedIn, factors, resets>>
            /\ rowLock = t => rowLock' = t
         \/ /\ rowLock # t \/ humans = 0
            /\ auth' >= auth /\ (auth' = auth => resets' = resets)
  PROVE  SessionOK(t)'
<1>1. RecordsOK(t) /\ RequestOK(t) /\ sess[t] \in Records /\ op[t] \in Operation /\ auth \in Nat
  BY OneSession, Zenon DEF AccessInv, AccessTypeOK
<1>2. /\ sess[t].challenge # Nil => sess[t].challenge.auth \in Nat
      /\ sess[t].proof # Nil => sess[t].proof.auth \in Nat
      /\ op[t].auth \in Nat
  BY <1>1, Zenon DEF Records, Operation
<1>3. RecordsOK(t)'
  BY <1>1, <1>2 DEF RecordsOK, Fresh
<1>4. RequestOK(t)'
  <2>1. CASE /\ UNCHANGED <<auth, signedIn, factors, resets>>
             /\ rowLock = t => rowLock' = t
    BY <1>1, <2>1, Zenon DEF RequestOK, Fresh, Verified
  <2>2. CASE /\ rowLock # t \/ humans = 0
             /\ auth' >= auth /\ (auth' = auth => resets' = resets)
    <3>1. op[t].kind \notin {"verify", "add", "delete", "confirm"}
      BY <1>1, <2>2 DEF RequestOK
    <3>2. op[t].kind = "login" => Fresh(op[t].auth, op[t].login)'
      BY <1>1, <1>2, <2>2 DEF RequestOK, Fresh
    <3> QED  BY <1>1, <3>1, <3>2, Zenon DEF RequestOK
  <2> QED  BY <2>1, <2>2, Zenon
<1> QED  BY <1>3, <1>4, Zenon DEF SessionOK

\* The locks a session s takes or gives up are its own.
OwnLock(h) == rowLock' = rowLock \/ (rowLock = Nil /\ rowLock' = h) \/ (rowLock = h /\ rowLock' = Nil)

\* A step of one session that does not touch the password.
LEMMA SessionMoves ==
  ASSUME AccessInv, NEW s \in Session, NEW x \in Records, NEW o \in Operation,
         UNCHANGED <<humans, auth, known, resets, typeLock, cmd, link, uses>>,
         sess' = [sess EXCEPT ![s] = x], op' = [op EXCEPT ![s] = o],
         OwnLock(s), (factors' = factors /\ added' = added) \/ rowLock = s,
         factors' \subseteq Factor, added' \in 0 .. MaxFactor,
         signedIn' = signedIn \/ rowLock \in {s, Nil}, signedIn' \in BOOLEAN,
         sess'[s] = x /\ op'[s] = o => SessionOK(s)'
  PROVE  AccessInv'
<1>1. /\ sess' \in [Session -> Records] /\ sess'[s] = x
      /\ \A t \in Session \ {s} : sess'[t] = sess[t]
  BY Zenon DEF AccessInv, AccessTypeOK
<1>2. /\ op' \in [Session -> Operation] /\ op'[s] = o
      /\ \A t \in Session \ {s} : op'[t] = op[t]
  BY Zenon DEF AccessInv, AccessTypeOK
<1>3. AccessTypeOK'
  BY <1>1, <1>2, Zenon DEF AccessInv, AccessTypeOK, OwnLock
<1>4. ASSUME NEW t \in Session \ {s} PROVE SessionOK(t)'
  <2>1. auth \in Nat /\ (rowLock = t => rowLock' = t)
        /\ (factors' = factors \/ rowLock # t) /\ (signedIn' = signedIn \/ rowLock # t)
    BY <1>4, PartiesDistinct, Zenon DEF OwnLock, AccessInv, AccessTypeOK
  <2> QED  BY <1>1, <1>2, <2>1, OtherSession
<1>5. ASSUME NEW c \in Command PROVE CommandOK(c)' /\ LinkOK(c)'
  <2>1. CommandOK(c) /\ LinkOK(c) /\ (rowLock = c => rowLock' = c)
    BY OneCommand, PartiesDistinct, Zenon DEF OwnLock
  <2> QED  BY <2>1, Zenon DEF CommandOK, LinkOK
<1>6. humans' <= 1
  BY Zenon DEF AccessInv
<1> QED  BY <1>1, <1>2, <1>3, <1>4, <1>5, <1>6, Zenon DEF AccessInv

\* A request begins or goes on: only what it holds changes.
LEMMA RequestMoves ==
  ASSUME AccessInv, NEW s \in Session, NEW o \in Operation, op' = [op EXCEPT ![s] = o],
         UNCHANGED <<account, typeLock, sess, cmd, link, uses, resets>>, OwnLock(s),
         op'[s] = o => RequestOK(s)'
  PROVE  AccessInv'
<1>1. sess[s] \in Records /\ RecordsOK(s)
  BY OneSession, Zenon
<1>2. sess' = [sess EXCEPT ![s] = sess[s]]
  BY Zenon DEF AccessInv, AccessTypeOK
<1>3. UNCHANGED <<humans, auth, known, signedIn, factors, added, resets>>
  BY Zenon DEF account
<1>4. RecordsOK(s)'
  BY <1>1, <1>3, Zenon DEF RecordsOK, Fresh
<1>5. factors' \subseteq Factor /\ added' \in 0 .. MaxFactor /\ signedIn' \in BOOLEAN
  BY <1>3, Zenon DEF AccessInv, AccessTypeOK
<1> QED  BY <1>1, <1>2, <1>3, <1>4, <1>5, SessionMoves, Zenon DEF SessionOK

\* A request ends; it may have written the session's records and the factors.
LEMMA RequestEnds ==
  ASSUME AccessInv, NEW s \in Session, NEW x \in Records,
         UNCHANGED <<humans, auth, known, resets, typeLock, cmd, link, uses>>,
         sess' = [sess EXCEPT ![s] = x], op' = [op EXCEPT ![s] = Idle],
         OwnLock(s), (factors' = factors /\ added' = added) \/ rowLock = s,
         factors' \subseteq Factor, added' \in 0 .. MaxFactor,
         signedIn' = signedIn \/ rowLock \in {s, Nil}, signedIn' \in BOOLEAN,
         x.challenge # Nil => Fresh(x.challenge.auth, x.challenge.login),
         x.proof # Nil => Fresh(x.proof.auth, x.proof.login)
  PROVE  AccessInv'
<1>1. Idle \in Operation /\ Idle.kind = "idle"
  BY Zenon DEF Idle, Operation
<1>2. ASSUME sess'[s] = x, op'[s] = Idle PROVE SessionOK(s)'
  <2>1. RecordsOK(s)'
    BY <1>2, Zenon DEF RecordsOK, Fresh
  <2>2. RequestOK(s)'
    BY <1>1, <1>2, Zenon DEF RequestOK
  <2> QED  BY <2>1, <2>2, Zenon DEF SessionOK
<1> QED  BY <1>1, <1>2, SessionMoves, Zenon

\* Unlocks(h) gives up only the lock of h.
LEMMA UnlocksOwn == ASSUME NEW h, Unlocks(h) PROVE OwnLock(h)
BY Zenon DEF Unlocks, OwnLock

\* The login view loads the user: the password is the one in force now.
LEMMA LoginBeginKeeps ==
  ASSUME AccessInv, NEW s \in Session, LoginViewBegin(s) PROVE AccessInv'
<1> DEFINE o == [Idle EXCEPT !.kind = "login", !.auth = auth, !.login = resets]
<1>1. /\ op' = [op EXCEPT ![s] = o] /\ humans > 0
      /\ UNCHANGED <<account, rowLock, typeLock, sess, cmd, link, uses, resets>>
  BY Zenon DEF LoginViewBegin, Begins
<1>2. auth \in Nat /\ resets \in Nat
  BY Zenon DEF AccessInv, AccessTypeOK
<1>3. o \in Operation /\ o.kind = "login" /\ o.auth = auth /\ o.login = resets
  BY <1>2, Zenon DEF Idle, Operation
<1>4. ASSUME op'[s] = o PROVE RequestOK(s)'
  <2>1. op'[s].kind = "login" /\ op'[s].auth = auth /\ op'[s].login = resets
    BY <1>3, <1>4, Zenon
  <2>2. auth' = auth /\ resets' = resets /\ humans' > 0
    BY <1>1, Zenon DEF account
  <2> QED  BY <1>2, <2>1, <2>2 DEF RequestOK, Fresh
<1>5. OwnLock(s)
  BY <1>1, Zenon DEF OwnLock
<1> QED  BY <1>1, <1>3, <1>4, <1>5, RequestMoves, Zenon

\* Sign-in ends with an enrolment record or a challenge.
LEMMA LoginEndKeeps ==
  ASSUME AccessInv, NEW s \in Session, LoginEnd(s) PROVE AccessInv'
<1>1. /\ op' = [op EXCEPT ![s] = Idle] /\ op[s].kind = "login"
      /\ UNCHANGED <<humans, auth, known, factors, added, rowLock, typeLock, cmd, link, uses, resets>>
  BY Zenon DEF LoginEnd
<1>2. RecordsOK(s) /\ RequestOK(s) /\ sess[s] \in Records /\ op[s] \in Operation
  BY OneSession, Zenon
<1>3. op[s].auth \in Nat /\ op[s].login \in Nat /\ Fresh(op[s].auth, op[s].login)
  BY <1>1, <1>2, Zenon DEF RequestOK, Operation
<1>4. /\ factors' \subseteq Factor /\ added' \in 0 .. MaxFactor /\ OwnLock(s)
      /\ signedIn' = signedIn \/ rowLock \in {s, Nil}
      /\ signedIn' \in BOOLEAN
  BY <1>1, Zenon DEF AccessInv, AccessTypeOK, OwnLock, LoginEnd
<1>5. PICK x \in Records : /\ sess' = [sess EXCEPT ![s] = x]
                           /\ x.challenge # Nil => Fresh(x.challenge.auth, x.challenge.login)
                           /\ x.proof # Nil => Fresh(x.proof.auth, x.proof.login)
  <2>1. CASE factors = {}
    <3> DEFINE x == [Nobody EXCEPT !.enroll = op[s].auth]
    <3>1. sess' = [sess EXCEPT ![s] = x]
      BY <2>1, Zenon DEF LoginEnd
    <3>2. x \in Records /\ x.challenge = Nil /\ x.proof = Nil
      BY <1>3, Zenon DEF Nobody, Records
    <3> QED  BY <3>1, <3>2, Zenon
  <2>2. CASE factors # {}
    <3> DEFINE x == [sess[s] EXCEPT !.challenge = [auth |-> op[s].auth, login |-> op[s].login]]
    <3>1. sess' = [sess EXCEPT ![s] = x]
      BY <2>2, Zenon DEF LoginEnd
    <3>2. x \in Records
      BY <1>2, <1>3, Zenon DEF Records
    <3>3. x.challenge.auth = op[s].auth /\ x.challenge.login = op[s].login /\ x.proof = sess[s].proof
      BY <1>2, Zenon DEF Records
    <3> QED  BY <1>2, <1>3, <3>1, <3>2, <3>3, Zenon DEF RecordsOK
  <2> QED  BY <2>1, <2>2, Zenon
<1> QED  BY <1>1, <1>4, <1>5, RequestEnds, Zenon

\* A device answers a challenge that is for the hash of now.
LEMMA VerifyBeginKeeps ==
  ASSUME AccessInv, NEW s \in Session, NEW f \in Factor, VerifyBegin(s, f) PROVE AccessInv'
<1> DEFINE o == [Idle EXCEPT !.kind = "verify", !.auth = auth, !.device = f]
<1>1. /\ op' = [op EXCEPT ![s] = o] /\ humans > 0
      /\ sess[s].challenge # Nil /\ sess[s].challenge.auth = auth
      /\ rowLock = Nil /\ rowLock' = s
      /\ UNCHANGED <<account, typeLock, sess, cmd, link, uses, resets>>
  BY Zenon DEF VerifyBegin, Begins, Locks
<1>2. auth \in Nat
  BY Zenon DEF AccessInv, AccessTypeOK
<1>3. o \in Operation /\ o.kind = "verify" /\ o.auth = auth
  BY <1>2, Zenon DEF Idle, Operation
<1>4. ASSUME op'[s] = o PROVE RequestOK(s)'
  <2>1. op'[s].kind = "verify" /\ op'[s].auth = auth
    BY <1>3, <1>4, Zenon
  <2>2. humans' > 0 /\ sess' = sess
    BY <1>1, Zenon DEF account
  <2> QED  BY <1>1, <2>1, <2>2, Zenon DEF RequestOK
<1>5. OwnLock(s)
  BY <1>1, Zenon DEF OwnLock
<1> QED  BY <1>1, <1>3, <1>4, <1>5, RequestMoves, Zenon

\* The setup view runs under the row lock, for a verified or an enrolling session.
LEMMA AddBeginKeeps ==
  ASSUME AccessInv, NEW s \in Session, AddBegin(s) PROVE AccessInv'
<1> DEFINE o == [Idle EXCEPT !.kind = "add", !.factors = factors, !.verified = Verified(s)]
<1>1. /\ op' = [op EXCEPT ![s] = o] /\ humans > 0 /\ rowLock = Nil /\ rowLock' = s
      /\ UNCHANGED <<account, typeLock, sess, cmd, link, uses, resets>>
  BY Zenon DEF AddBegin, Begins, Locks
<1>2. factors \subseteq Factor /\ Verified(s) \in BOOLEAN /\ (Verified(s) \/ factors = {})
  BY Zenon DEF AccessInv, AccessTypeOK, Verified, AddBegin, Enrolling
<1>3. o \in Operation /\ o.kind = "add" /\ o.verified = Verified(s)
  BY <1>2, Zenon DEF Idle, Operation
<1>4. ASSUME op'[s] = o PROVE RequestOK(s)'
  <2>1. op'[s].kind = "add" /\ op'[s].verified = Verified(s)
    BY <1>3, <1>4, Zenon
  <2>2. humans' > 0 /\ (Verified(s) => Verified(s)') /\ factors' = factors
    BY <1>1, Zenon DEF account, Verified
  <2> QED  BY <1>1, <1>2, <2>1, <2>2, Zenon DEF RequestOK
<1>5. OwnLock(s)
  BY <1>1, Zenon DEF OwnLock
<1> QED  BY <1>1, <1>3, <1>4, <1>5, RequestMoves, Zenon

\* The reset view opens a link, and refetches the user under the row lock.
LEMMA ConfirmOpenKeeps ==
  ASSUME AccessInv, NEW s \in Session, NEW c \in Command, ConfirmOpen(s, c) PROVE AccessInv'
<1> DEFINE o == [Idle EXCEPT !.kind = "open", !.link = c, !.auth = auth, !.signedIn = signedIn]
<1>1. /\ op' = [op EXCEPT ![s] = o] /\ humans > 0
      /\ UNCHANGED <<account, rowLock, typeLock, sess, cmd, link, uses, resets>>
  BY Zenon DEF ConfirmOpen, Begins
<1>2. auth \in Nat /\ signedIn \in BOOLEAN
  BY Zenon DEF AccessInv, AccessTypeOK
<1>3. o \in Operation /\ o.kind = "open" /\ o.link = c
  BY <1>2, Zenon DEF Idle, Operation
<1>4. ASSUME op'[s] = o PROVE RequestOK(s)'
  <2>1. op'[s].kind = "open" /\ op'[s].link = c
    BY <1>3, <1>4, Zenon
  <2>2. humans' > 0
    BY <1>1, Zenon DEF account
  <2> QED  BY <2>1, <2>2, Zenon DEF RequestOK
<1>5. OwnLock(s)
  BY <1>1, Zenon DEF OwnLock
<1> QED  BY <1>1, <1>3, <1>4, <1>5, RequestMoves, Zenon

LEMMA ConfirmLockKeeps ==
  ASSUME AccessInv, NEW s \in Session, ConfirmLock(s) PROVE AccessInv'
<1> DEFINE o == [op[s] EXCEPT !.kind = "confirm", !.auth = auth, !.signedIn = signedIn]
<1>1. /\ op[s].kind = "open" /\ rowLock = Nil /\ rowLock' = s
      /\ UNCHANGED <<account, typeLock, sess, cmd, link, uses, resets>>
  BY Zenon DEF ConfirmLock
<1>2. auth \in Nat /\ signedIn \in BOOLEAN /\ op[s] \in Operation /\ RequestOK(s)
  BY OneSession, Zenon DEF AccessInv, AccessTypeOK
<1>3. o \in Operation /\ o.kind = "confirm" /\ o.auth = auth /\ o.signedIn = signedIn
      /\ o.link = op[s].link
  BY <1>2, Zenon DEF Operation
<1>4. op' = [op EXCEPT ![s] = o]
  BY Zenon DEF ConfirmLock, AccessInv, AccessTypeOK
<1>5. humans > 0 /\ op[s].link \in Command
  BY <1>1, <1>2, Zenon DEF RequestOK
<1>6. ASSUME op'[s] = o PROVE RequestOK(s)'
  <2>1. op'[s].kind = "confirm" /\ op'[s].link = op[s].link /\ op'[s].auth = auth
        /\ op'[s].signedIn = signedIn
    BY <1>3, <1>6, Zenon
  <2>2. humans' > 0 /\ auth' = auth /\ signedIn' = signedIn
    BY <1>1, <1>5, Zenon DEF account
  <2> QED  BY <1>1, <1>5, <2>1, <2>2, Zenon DEF RequestOK
<1>7. OwnLock(s)
  BY <1>1, Zenon DEF OwnLock
<1> QED  BY <1>1, <1>3, <1>4, <1>6, <1>7, RequestMoves, Zenon

\* complete_mfa: the proof is for the hash the challenge was for.
LEMMA VerifyEndKeeps ==
  ASSUME AccessInv, NEW s \in Session, VerifyEnd(s) PROVE AccessInv'
<1> DEFINE p == [auth |-> op[s].auth, factors |-> factors, login |-> sess[s].challenge.login]
           x == [Nobody EXCEPT !.proof = p]
<1>1. /\ op' = [op EXCEPT ![s] = Idle] /\ op[s].kind = "verify" /\ sess' = [sess EXCEPT ![s] = x]
      /\ signedIn' = TRUE /\ Unlocks(s)
      /\ UNCHANGED <<humans, auth, known, factors, added, typeLock, cmd, link, uses, resets>>
  BY Zenon DEF VerifyEnd
<1>2. RecordsOK(s) /\ RequestOK(s) /\ sess[s] \in Records /\ op[s] \in Operation
  BY OneSession
<1>3. rowLock = s /\ sess[s].challenge # Nil /\ sess[s].challenge.auth = op[s].auth
  BY <1>1, <1>2, Zenon DEF RequestOK
<1>4. op[s].auth \in Nat /\ sess[s].challenge.login \in Nat
  BY <1>2, <1>3, Zenon DEF Records, Operation
<1>5. factors \subseteq Factor /\ added \in 0 .. MaxFactor
  BY Zenon DEF AccessInv, AccessTypeOK
<1>6. x \in Records /\ x.challenge = Nil /\ x.proof = p
  <2>1. p \in [auth : Nat, factors : SUBSET Factor, login : Nat]
    BY <1>4, <1>5, Zenon
  <2> HIDE DEF p
  <2> QED  BY <2>1, Zenon DEF Nobody, Records
<1>7. Fresh(p.auth, p.login)
  BY <1>2, <1>3, Zenon DEF RecordsOK
<1>8. OwnLock(s) /\ signedIn' \in BOOLEAN
  BY <1>1, UnlocksOwn, Zenon
<1> QED  BY <1>1, <1>3, <1>5, <1>6, <1>7, <1>8, RequestEnds, Zenon

\* A method was added: a verified session keeps its proof, one that enrolled signs in again.
LEMMA AddEndKeeps ==
  ASSUME AccessInv, NEW s \in Session, AddEnd(s) PROVE AccessInv'
<1>1. /\ op' = [op EXCEPT ![s] = Idle] /\ op[s].kind = "add" /\ Unlocks(s)
      /\ added < MaxFactor /\ added' = added + 1 /\ factors' = factors \cup {added + 1}
      /\ UNCHANGED <<humans, auth, known, signedIn, typeLock, cmd, link, uses, resets>>
  BY Zenon DEF AddEnd
<1>2. RecordsOK(s) /\ RequestOK(s) /\ sess[s] \in Records
  BY OneSession, Zenon
<1>3. rowLock = s /\ (op[s].verified => sess[s].proof # Nil)
  BY <1>1, <1>2, Zenon DEF RequestOK, Verified
<1>4. factors' \subseteq Factor /\ added' \in 0 .. MaxFactor
  BY <1>1, FactorsCounted DEF AccessInv, AccessTypeOK, Factor
<1>5. PICK x \in Records : /\ sess' = [sess EXCEPT ![s] = x]
                           /\ x.challenge # Nil => Fresh(x.challenge.auth, x.challenge.login)
                           /\ x.proof # Nil => Fresh(x.proof.auth, x.proof.login)
  <2>1. CASE ~ op[s].verified
    <3>1. sess' = [sess EXCEPT ![s] = Nobody]
      BY <2>1, Zenon DEF AddEnd
    <3>2. Nobody \in Records /\ Nobody.challenge = Nil /\ Nobody.proof = Nil
      BY Zenon DEF Nobody, Records
    <3> QED  BY <3>1, <3>2, Zenon
  <2>2. CASE op[s].verified
    <3> DEFINE p == [sess[s].proof EXCEPT !.factors = factors']
               x == [sess[s] EXCEPT !.proof = p]
    <3>1. sess' = [sess EXCEPT ![s] = x]
      BY <2>2, Zenon DEF AddEnd, AccessInv, AccessTypeOK
    <3>2. sess[s].proof \in [auth : Nat, factors : SUBSET Factor, login : Nat]
      BY <1>2, <1>3, <2>2, Zenon DEF Records
    <3>3. /\ p \in [auth : Nat, factors : SUBSET Factor, login : Nat]
          /\ p.auth = sess[s].proof.auth /\ p.login = sess[s].proof.login
      BY <1>4, <3>2, Zenon
    <3>4. x \in Records /\ x.challenge = sess[s].challenge /\ x.proof = p
      <4> HIDE DEF p
      <4> QED  BY <1>2, <3>3, Zenon DEF Records
    <3>5. Fresh(p.auth, p.login)
      BY <1>2, <1>3, <2>2, <3>3, Zenon DEF RecordsOK
    <3> QED  BY <1>2, <3>1, <3>4, <3>5, Zenon DEF RecordsOK
  <2> QED  BY <2>1, <2>2, Zenon
<1>6. OwnLock(s) /\ signedIn' \in BOOLEAN
  BY <1>1, UnlocksOwn, Zenon DEF AccessInv, AccessTypeOK
<1> QED  BY <1>1, <1>3, <1>4, <1>5, <1>6, RequestEnds, Zenon

\* A method was deleted: the session that did it stays verified.
LEMMA DeleteEndKeeps ==
  ASSUME AccessInv, NEW s \in Session, NEW f \in Factor, DeleteEnd(s, f) PROVE AccessInv'
<1> DEFINE p == [sess[s].proof EXCEPT !.factors = factors']
           x == [sess[s] EXCEPT !.proof = p]
<1>1. /\ op' = [op EXCEPT ![s] = Idle] /\ op[s].kind = "delete" /\ Unlocks(s)
      /\ factors' = factors \ {f}
      /\ UNCHANGED <<humans, auth, known, signedIn, added, typeLock, cmd, link, uses, resets>>
  BY Zenon DEF DeleteEnd
<1>2. RecordsOK(s) /\ RequestOK(s) /\ sess[s] \in Records
  BY OneSession, Zenon
<1>3. rowLock = s /\ sess[s].proof # Nil
  BY <1>1, <1>2, Zenon DEF RequestOK, Verified
<1>4. factors' \subseteq Factor /\ added' \in 0 .. MaxFactor
  BY <1>1, Zenon DEF AccessInv, AccessTypeOK
<1>5. sess' = [sess EXCEPT ![s] = x]
  BY Zenon DEF DeleteEnd, AccessInv, AccessTypeOK
<1>6. sess[s].proof \in [auth : Nat, factors : SUBSET Factor, login : Nat]
  BY <1>2, <1>3, Zenon DEF Records
<1>7. /\ p \in [auth : Nat, factors : SUBSET Factor, login : Nat]
      /\ p.auth = sess[s].proof.auth /\ p.login = sess[s].proof.login
  BY <1>4, <1>6, Zenon
<1>8. x \in Records /\ x.challenge = sess[s].challenge /\ x.proof = p
  <2> HIDE DEF p
  <2> QED  BY <1>2, <1>7, Zenon DEF Records
<1>9. /\ Fresh(x.proof.auth, x.proof.login)
      /\ x.challenge # Nil => Fresh(x.challenge.auth, x.challenge.login)
  BY <1>2, <1>3, <1>7, <1>8, Zenon DEF RecordsOK
<1>10. OwnLock(s) /\ signedIn' \in BOOLEAN
  BY <1>1, UnlocksOwn, Zenon DEF AccessInv, AccessTypeOK
<1> QED  BY <1>1, <1>3, <1>4, <1>5, <1>8, <1>9, <1>10, RequestEnds, Zenon

\* A request fails, or a record is forgotten.
LEMMA FailOrForgetKeeps ==
  ASSUME AccessInv, NEW s \in Session, RequestFails(s) \/ Forget(s) PROVE AccessInv'
<1>1. /\ op' = [op EXCEPT ![s] = Idle] /\ OwnLock(s)
      /\ UNCHANGED <<humans, auth, known, signedIn, factors, added, typeLock, cmd, link, uses, resets>>
  BY UnlocksOwn, Zenon DEF RequestFails, Forget, Busy, OwnLock, account, AccessInv, AccessTypeOK
<1>2. RecordsOK(s) /\ sess[s] \in Records
  BY OneSession, Zenon
<1>3. factors' \subseteq Factor /\ added' \in 0 .. MaxFactor /\ signedIn' \in BOOLEAN
  BY <1>1, Zenon DEF AccessInv, AccessTypeOK
<1>4. PICK x \in Records : /\ sess' = [sess EXCEPT ![s] = x]
                           /\ x.challenge \in {Nil, sess[s].challenge}
                           /\ x.proof \in {Nil, sess[s].proof}
  <2>1. CASE RequestFails(s)
    <3>1. sess' = [sess EXCEPT ![s] = sess[s]]
      BY <2>1, Zenon DEF RequestFails, AccessInv, AccessTypeOK
    <3> QED  BY <1>2, <3>1, Zenon
  <2>2. CASE Forget(s)
    <3>1. PICK r \in {"enroll", "challenge", "proof"} : sess' = [sess EXCEPT ![s][r] = Nil]
      BY <2>2, Zenon DEF Forget
    <3> DEFINE x == [sess[s] EXCEPT ![r] = Nil]
    <3>2. sess' = [sess EXCEPT ![s] = x]
      BY <3>1, Zenon
    <3>3. x \in Records /\ x.challenge \in {Nil, sess[s].challenge} /\ x.proof \in {Nil, sess[s].proof}
      <4>1. CASE r = "enroll"
        BY <1>2, <4>1, Zenon DEF Records
      <4>2. CASE r = "challenge"
        BY <1>2, <4>2, Zenon DEF Records
      <4>3. CASE r = "proof"
        BY <1>2, <4>3, Zenon DEF Records
      <4> QED  BY <4>1, <4>2, <4>3, Zenon
    <3> QED  BY <3>2, <3>3, Zenon
  <2> QED  BY <2>1, <2>2, Zenon
<1>5. /\ x.challenge # Nil => Fresh(x.challenge.auth, x.challenge.login)
      /\ x.proof # Nil => Fresh(x.proof.auth, x.proof.login)
  BY <1>2, <1>4, Zenon DEF RecordsOK
<1> QED  BY <1>1, <1>3, <1>4, <1>5, RequestEnds, Zenon

\* A link stays as good as it was unless the hash moves on.
LEMMA OtherCommand ==
  ASSUME AccessInv, NEW c \in Command, cmd'[c] = cmd[c], link'[c] = link[c], uses'[c] = uses[c],
         typeLock = c => typeLock' = c, rowLock = c => rowLock' = c,
         typeLock = c => humans' = humans,
         auth' \in Nat, resets' \in Nat,
         \/ auth' = auth /\ resets' = resets
         \/ auth' > auth /\ resets' >= resets
  PROVE  CommandOK(c)' /\ LinkOK(c)'
<1>1. /\ CommandOK(c) /\ LinkOK(c) /\ uses[c] \in Nat /\ auth \in Nat /\ resets \in Nat
      /\ link[c] # Nil => link[c].auth \in Nat /\ link[c].reset \in Nat
  BY OneCommand, Zenon DEF AccessInv, AccessTypeOK, Link
<1>2. CommandOK(c)'
  BY <1>1, Zenon DEF CommandOK
<1>3. LinkOK(c)'
  BY <1>1 DEF LinkOK
<1> QED  BY <1>2, <1>3, Zenon

\* The new password is set through a link: it was the link of the hash in force, so
\* of the latest reset.
LEMMA ConfirmEndKeeps ==
  ASSUME AccessInv, NEW s \in Session, ConfirmEnd(s) PROVE AccessInv'
<1>0. PICK k \in Command : k = op[s].link /\ rowLock = s /\ op[s].auth = auth
  BY OneSession, Zenon DEF ConfirmEnd, RequestOK
<1>1. /\ op[s].kind = "confirm" /\ link[k] # Nil /\ link[k].auth = op[s].auth
      /\ auth' = auth + 1 /\ known' = TRUE /\ uses' = [uses EXCEPT ![k] = @ + 1]
      /\ op' = [op EXCEPT ![s] = Idle] /\ Unlocks(s)
      /\ UNCHANGED <<humans, signedIn, factors, added, typeLock, sess, cmd, link, resets>>
  BY <1>0, Zenon DEF ConfirmEnd
<1>2. RecordsOK(s) /\ RequestOK(s) /\ sess[s] \in Records
  BY OneSession, Zenon
<1>3. k \in Command /\ rowLock = s /\ op[s].auth = auth
  BY <1>0, Zenon
<1>4. /\ LinkOK(k) /\ CommandOK(k) /\ uses[k] \in Nat /\ link[k] \in Link
      /\ auth \in Nat /\ resets \in Nat
  BY <1>1, <1>3, OneCommand, Zenon DEF AccessInv, AccessTypeOK
<1>5. link[k].reset = resets /\ uses[k] = 0 /\ link[k].auth = auth
  BY <1>1, <1>3, <1>4 DEF LinkOK, Link
<1>6. /\ op' \in [Session -> Operation] /\ op'[s] = Idle /\ Idle.kind = "idle"
      /\ \A t \in Session \ {s} : op'[t] = op[t]
  BY <1>1, Zenon DEF AccessInv, AccessTypeOK, Idle, Operation
<1>7. /\ uses' \in [Command -> Nat] /\ uses'[k] = 1
      /\ \A c \in Command \ {k} : uses'[c] = uses[c]
  BY <1>1, <1>3, <1>5 DEF AccessInv, AccessTypeOK
<1>8. rowLock' = Nil
  BY <1>1, <1>3, Zenon DEF Unlocks
<1>9. AccessTypeOK'
  BY <1>1, <1>4, <1>6, <1>7, <1>8, SMTT(60) DEF AccessInv, AccessTypeOK
<1>10. ASSUME NEW t \in Session \ {s} PROVE SessionOK(t)'
  <2>1. rowLock # t /\ auth' >= auth /\ auth' # auth /\ auth' \in Nat
    BY <1>1, <1>3, <1>4
  <2> QED  BY <1>1, <1>6, <2>1, OtherSession, Zenon
<1>11. SessionOK(s)'
  <2>1. /\ sess[s].challenge # Nil => sess[s].challenge.auth \in Nat
        /\ sess[s].proof # Nil => sess[s].proof.auth \in Nat
    BY <1>2, Zenon DEF Records
  <2>2. RecordsOK(s)'
    <3>1. ASSUME NEW a \in Nat, NEW l, Fresh(a, l) PROVE Fresh(a, l)'
      BY <1>1, <1>4, <3>1 DEF Fresh
    <3>2. sess' = sess
      BY <1>1, Zenon
    <3> QED  BY <1>2, <2>1, <3>1, <3>2, Zenon DEF RecordsOK
  <2>3. RequestOK(s)'
    BY <1>6, Zenon DEF RequestOK
  <2> QED  BY <2>2, <2>3, Zenon DEF SessionOK
<1>12. ASSUME NEW c \in Command \ {k} PROVE CommandOK(c)' /\ LinkOK(c)'
  <2>1. rowLock # c
    BY <1>3, PartiesDistinct, Zenon
  <2>2. auth' > auth /\ auth' \in Nat /\ resets' = resets /\ resets' >= resets
    BY <1>1, <1>4
  <2> QED  BY <1>1, <1>4, <1>7, <2>1, <2>2, OtherCommand, Zenon
<1>13. CommandOK(k)' /\ LinkOK(k)'
  <2>1. CommandOK(k)'
    BY <1>1, <1>3, <1>4, PartiesDistinct, Zenon DEF CommandOK
  <2>2. LinkOK(k)'
    BY <1>1, <1>4, <1>5, <1>7, SMTT(60) DEF LinkOK
  <2> QED  BY <2>1, <2>2, Zenon
<1>14. humans' <= 1
  BY <1>1, Zenon DEF AccessInv
<1> QED  BY <1>9, <1>10, <1>11, <1>12, <1>13, <1>14, Zenon DEF AccessInv

\* A step of one command that leaves the account alone.
LEMMA CommandMoves ==
  ASSUME AccessInv, NEW c \in Command, NEW m \in CommandState, cmd' = [cmd EXCEPT ![c] = m],
         UNCHANGED <<account, sess, op, uses, link, resets>>, OwnLock(c),
         \/ typeLock' = typeLock
         \/ typeLock = Nil /\ typeLock' = c
         \/ typeLock = c /\ typeLock' = Nil,
         cmd'[c] = m => CommandOK(c)'
  PROVE  AccessInv'
<1>1. UNCHANGED <<humans, auth, known, signedIn, factors, added>> /\ auth \in Nat /\ resets \in Nat
  BY Zenon DEF account, AccessInv, AccessTypeOK
<1>2. /\ cmd' \in [Command -> CommandState] /\ cmd'[c] = m
      /\ \A d \in Command \ {c} : cmd'[d] = cmd[d]
  BY Zenon DEF AccessInv, AccessTypeOK
<1>3. AccessTypeOK'
  BY <1>1, <1>2, Zenon DEF AccessInv, AccessTypeOK, OwnLock
<1>4. ASSUME NEW t \in Session PROVE SessionOK(t)'
  <2>1. rowLock = t => rowLock' = t
    BY PartiesDistinct, Zenon DEF OwnLock
  <2> QED  BY <1>1, <2>1, OtherSession, Zenon
<1>5. ASSUME NEW d \in Command \ {c} PROVE CommandOK(d)' /\ LinkOK(d)'
  <2>1. (rowLock = d => rowLock' = d) /\ (typeLock = d => typeLock' = d)
    BY <1>5, PartiesDistinct, Zenon DEF OwnLock
  <2> QED  BY <1>1, <1>2, <2>1, OtherCommand, Zenon
<1>6. LinkOK(c)'
  BY <1>1, OneCommand, Zenon DEF LinkOK
<1>7. humans' <= 1
  BY <1>1, Zenon DEF AccessInv
<1> QED  BY <1>2, <1>3, <1>4, <1>5, <1>6, <1>7, Zenon DEF AccessInv

\* The command up to its commit, and after it.
LEMMA CommandStepsKeep ==
  ASSUME AccessInv, NEW c \in Command,
         \/ \E mode \in {"bootstrap", "recover"} : Reserve(c, mode)
         \/ LockType(c) \/ CheckTarget(c) \/ Write(c) \/ CommandFails(c)
  PROVE  AccessInv'
<1>1. UNCHANGED <<account, sess, op, uses, link, resets>>
  BY Zenon DEF Reserve, LockType, CheckTarget, Write, CommandFails
<1>2. humans' = humans /\ humans \in Nat
  BY <1>1, Zenon DEF account, AccessInv, AccessTypeOK
<1>3. CommandOK(c) /\ cmd[c] \in CommandState
  BY OneCommand, Zenon
<1>4. cmd[c].mode \in {"bootstrap", "recover"} /\ \A g : [cmd[c] EXCEPT !.stage = g].mode = cmd[c].mode
  BY <1>3, Zenon DEF CommandState
<1>5. \A g : [cmd[c] EXCEPT !.stage = g].stage = g
  BY <1>3, Zenon DEF CommandState
<1>6. \A g \in {"typed", "checked", "written", "failed"} : [cmd[c] EXCEPT !.stage = g] \in CommandState
  BY <1>3, Zenon DEF CommandState
<1>7. ASSUME NEW mode \in {"bootstrap", "recover"}, Reserve(c, mode) PROVE AccessInv'
  <2> DEFINE m == [mode |-> mode, stage |-> "reserved"]
  <2>1. cmd' = [cmd EXCEPT ![c] = m] /\ rowLock' = rowLock /\ typeLock' = typeLock
        /\ cmd[c].stage = "idle"
    BY <1>7, Zenon DEF Reserve
  <2>2. m \in CommandState /\ m.stage = "reserved"
    BY Zenon DEF CommandState
  <2>3. ASSUME cmd'[c] = m PROVE CommandOK(c)'
    BY <1>1, <1>3, <2>1, <2>2, <2>3, Zenon DEF CommandOK
  <2> QED  BY <1>1, <2>1, <2>2, <2>3, CommandMoves, Zenon DEF OwnLock
<1>8. CASE LockType(c)
  <2> DEFINE m == [cmd[c] EXCEPT !.stage = "typed"]
  <2>1. /\ cmd' = [cmd EXCEPT ![c] = m] /\ rowLock' = rowLock /\ typeLock = Nil /\ typeLock' = c
        /\ cmd[c].stage = "reserved"
    BY <1>8, Zenon DEF LockType, To
  <2>2. m \in CommandState /\ m.stage = "typed"
    BY <1>5, <1>6, Zenon
  <2>3. ASSUME cmd'[c] = m PROVE CommandOK(c)'
    BY <1>1, <1>3, <2>1, <2>2, <2>3, Zenon DEF CommandOK
  <2> QED  BY <1>1, <2>1, <2>2, <2>3, CommandMoves, Zenon DEF OwnLock
<1>9. CASE CheckTarget(c)
  <2> DEFINE m == [cmd[c] EXCEPT !.stage = "checked"]
  <2>1. /\ cmd' = [cmd EXCEPT ![c] = m] /\ typeLock' = typeLock /\ cmd[c].stage = "typed"
        /\ IF cmd[c].mode = "bootstrap" THEN humans = 0 /\ rowLock' = rowLock
                                        ELSE rowLock = Nil /\ rowLock' = c
    BY <1>9, Zenon DEF CheckTarget, To
  <2>2. m \in CommandState /\ m.stage = "checked" /\ m.mode = cmd[c].mode
    BY <1>4, <1>5, <1>6, Zenon
  <2>3. ASSUME cmd'[c] = m PROVE CommandOK(c)'
    <3>1. cmd'[c].stage = "checked" /\ cmd'[c].mode = cmd[c].mode
      BY <2>2, <2>3, Zenon
    <3> QED  BY <1>1, <1>2, <1>3, <2>1, <3>1, Zenon DEF CommandOK
  <2>4. OwnLock(c)
    BY <2>1, Zenon DEF OwnLock
  <2> QED  BY <1>1, <2>1, <2>2, <2>3, <2>4, CommandMoves, Zenon
<1>10. CASE Write(c)
  <2> DEFINE m == [cmd[c] EXCEPT !.stage = "written"]
  <2>1. cmd' = [cmd EXCEPT ![c] = m] /\ rowLock' = rowLock /\ typeLock' = typeLock
    BY <1>10, Zenon DEF Write, To
  <2>2. m \in CommandState /\ m.stage = "written"
    BY <1>5, <1>6, Zenon
  <2>3. ASSUME cmd'[c] = m PROVE CommandOK(c)'
    BY <2>2, <2>3, Zenon DEF CommandOK
  <2> QED  BY <1>1, <2>1, <2>2, <2>3, CommandMoves, Zenon DEF OwnLock
<1>11. CASE CommandFails(c)
  <2> DEFINE m == [cmd[c] EXCEPT !.stage = "failed"]
  <2>1. cmd' = [cmd EXCEPT ![c] = m] /\ OwnLock(c)
        /\ (typeLock' = typeLock \/ (typeLock = c /\ typeLock' = Nil))
    BY <1>11, UnlocksOwn, Zenon DEF CommandFails
  <2>2. m \in CommandState /\ m.stage = "failed"
    BY <1>5, <1>6, Zenon
  <2>3. ASSUME cmd'[c] = m PROVE CommandOK(c)'
    BY <2>2, <2>3, Zenon DEF CommandOK
  <2> QED  BY <1>1, <2>1, <2>2, <2>3, CommandMoves, Zenon
<1> QED  BY <1>7, <1>8, <1>9, <1>10, <1>11, Zenon

\* The commit: a new hash, no factors, and the link for it.  A bootstrap has no account
\* beside it and a recovery holds the row, so no request is in the way.
LEMMA CommitKeeps ==
  ASSUME AccessInv, NEW c \in Command, Commit(c) PROVE AccessInv'
<1> DEFINE m == [cmd[c] EXCEPT !.stage = "committed"]
           l == [auth |-> auth + 1, reset |-> resets + 1]
<1>1. /\ cmd[c].stage = "checked" /\ cmd' = [cmd EXCEPT ![c] = m]
      /\ humans' = IF cmd[c].mode = "bootstrap" THEN humans + 1 ELSE humans
      /\ auth' = auth + 1 /\ known' = FALSE /\ signedIn' = FALSE
      /\ factors' = {} /\ resets' = resets + 1
      /\ link' = [link EXCEPT ![c] = l] /\ Unlocks(c) /\ typeLock' = Nil
      /\ UNCHANGED <<added, sess, op, uses>>
  BY Zenon DEF Commit, To
<1>2. CommandOK(c) /\ LinkOK(c) /\ cmd[c] \in CommandState
  BY OneCommand, Zenon
<1>3. auth \in Nat /\ resets \in Nat /\ humans \in Nat /\ humans <= 1
  BY Zenon DEF AccessInv, AccessTypeOK
<1>4. /\ typeLock = c /\ uses[c] = 0
      /\ IF cmd[c].mode = "bootstrap" THEN humans = 0 ELSE rowLock = c
  BY <1>1, <1>2, Zenon DEF CommandOK
<1>5. humans' \in Nat /\ humans' <= 1 /\ (humans > 0 => humans' > 0)
  BY <1>1, <1>3, <1>4
<1>6. /\ m \in CommandState /\ cmd' \in [Command -> CommandState] /\ cmd'[c].stage = "committed"
      /\ \A d \in Command \ {c} : cmd'[d] = cmd[d]
  <2>1. m \in CommandState /\ m.stage = "committed"
    BY <1>2, Zenon DEF CommandState
  <2> HIDE DEF m
  <2> QED  BY <1>1, <2>1, Zenon DEF AccessInv, AccessTypeOK
<1>7. /\ link' \in [Command -> Link \cup {Nil}] /\ link'[c] = l
      /\ \A d \in Command \ {c} : link'[d] = link[d]
  <2>1. l \in Link
    BY <1>3 DEF Link
  <2> HIDE DEF l
  <2> QED  BY <1>1, <2>1, Zenon DEF AccessInv, AccessTypeOK
<1>8. OwnLock(c)
  BY <1>1, UnlocksOwn, Zenon
<1>9. AccessTypeOK'
  <2>1. /\ auth' \in Nat /\ resets' \in Nat /\ factors' \subseteq Factor
        /\ known' \in BOOLEAN /\ signedIn' \in BOOLEAN
    <3>1. auth' \in Nat /\ resets' \in Nat /\ factors' \subseteq Factor
      BY <1>1, <1>3
    <3>2. known' \in BOOLEAN /\ signedIn' \in BOOLEAN
      BY <1>1, Zenon
    <3> QED  BY <3>1, <3>2, Zenon
  <2>2. rowLock' \in Session \cup Command \cup {Nil} /\ typeLock' \in Command \cup {Nil}
    BY <1>1, <1>8, Zenon DEF AccessInv, AccessTypeOK, OwnLock
  <2>3. added' = added /\ sess' = sess /\ op' = op /\ uses' = uses
    BY <1>1, Zenon
  <2> QED  BY <1>5, <1>6, <1>7, <2>1, <2>2, <2>3, Zenon DEF AccessInv, AccessTypeOK
<1>10. ASSUME NEW t \in Session PROVE SessionOK(t)'
  <2>1. (rowLock # t \/ humans = 0) /\ auth' >= auth /\ auth' # auth /\ auth' \in Nat
    BY <1>1, <1>3, <1>4, PartiesDistinct
  <2> QED  BY <1>1, <1>5, <2>1, OtherSession, Zenon
<1>11. ASSUME NEW d \in Command \ {c} PROVE CommandOK(d)' /\ LinkOK(d)'
  <2>1. typeLock # d /\ (rowLock = d => rowLock' = d)
    BY <1>4, <1>8, <1>11, PartiesDistinct, Zenon DEF OwnLock
  <2>2. auth' > auth /\ resets' >= resets /\ auth' \in Nat /\ resets' \in Nat
    BY <1>1, <1>3
  <2> QED  BY <1>1, <1>6, <1>7, <2>1, <2>2, OtherCommand, Zenon
<1>12. CommandOK(c)'
  BY <1>6, Zenon DEF CommandOK
<1>13. LinkOK(c)'
  <2>1. link'[c].auth = auth' /\ link'[c].reset = resets' /\ uses'[c] = 0 /\ auth' \in Nat /\ resets' \in Nat
    BY <1>1, <1>3, <1>4, <1>7
  <2> QED  BY <2>1 DEF LinkOK
<1> QED  BY <1>5, <1>9, <1>10, <1>11, <1>12, <1>13, Zenon DEF AccessInv

\* A link expires.
LEMMA LinkExpiresKeeps ==
  ASSUME AccessInv, NEW c \in Command, LinkExpires(c) PROVE AccessInv'
<1>1. /\ link' = [link EXCEPT ![c] = Nil]
      /\ UNCHANGED <<humans, auth, known, signedIn, factors, added, rowLock, typeLock, sess, op, cmd, uses, resets>>
  BY Zenon DEF LinkExpires, account
<1>2. /\ link' \in [Command -> Link \cup {Nil}] /\ link'[c] = Nil
      /\ \A d \in Command \ {c} : link'[d] = link[d]
  BY <1>1, Zenon DEF AccessInv, AccessTypeOK
<1>3. AccessTypeOK' /\ auth \in Nat /\ resets \in Nat
  BY <1>1, <1>2, Zenon DEF AccessInv, AccessTypeOK
<1>4. ASSUME NEW t \in Session PROVE SessionOK(t)'
  BY <1>1, <1>3, OtherSession, Zenon
<1>5. ASSUME NEW d \in Command \ {c} PROVE CommandOK(d)' /\ LinkOK(d)'
  BY <1>1, <1>2, <1>3, OtherCommand, Zenon
<1>6. CommandOK(c)' /\ LinkOK(c)'
  BY <1>1, <1>2, OneCommand, Zenon DEF CommandOK, LinkOK
<1>7. humans' <= 1
  BY <1>1, Zenon DEF AccessInv
<1> QED  BY <1>3, <1>4, <1>5, <1>6, <1>7, Zenon DEF AccessInv

INSTANCE FiniteSetTheorems

\* A set that has a member and no single element has two.
LEMMA TwoMembers ==
  ASSUME NEW S, S # {}, Cardinality(S) > 1
  PROVE  \E f, g \in S : f # g
<1>1. PICK f \in S : TRUE
  BY Zenon
<1>2. ASSUME S = {f} PROVE FALSE
  <2>1. Cardinality({f}) = 1
    BY FS_Singleton, Zenon
  <2>2. Cardinality(S) = Cardinality({f})
    BY <1>2, Zenon
  <2> QED  BY <2>1, <2>2
<1> QED  BY <1>1, <1>2, Zenon

\* The delete view runs under the row lock, and never for the last method.
LEMMA DeleteBeginKeeps ==
  ASSUME AccessInv, NEW s \in Session, DeleteBegin(s) PROVE AccessInv'
<1> DEFINE o == [Idle EXCEPT !.kind = "delete", !.factors = factors, !.verified = TRUE]
<1>1. /\ op' = [op EXCEPT ![s] = o] /\ humans > 0 /\ rowLock = Nil /\ rowLock' = s
      /\ Verified(s) /\ Cardinality(factors) > 1
      /\ UNCHANGED <<account, typeLock, sess, cmd, link, uses, resets>>
  BY Zenon DEF DeleteBegin, Begins, Locks
<1>2. factors \subseteq Factor /\ factors # {}
  BY <1>1, Zenon DEF AccessInv, AccessTypeOK, Verified
<1>3. \E f, g \in factors : f # g
  BY <1>1, <1>2, TwoMembers, Zenon
<1>4. o \in Operation /\ o.kind = "delete"
  BY <1>2, Zenon DEF Idle, Operation
<1>5. ASSUME op'[s] = o PROVE RequestOK(s)'
  <2>1. op'[s].kind = "delete"
    BY <1>4, <1>5, Zenon
  <2>2. humans' > 0 /\ Verified(s)' /\ factors' = factors
    BY <1>1, Zenon DEF account, Verified
  <2> QED  BY <1>1, <1>3, <2>1, <2>2, Zenon DEF RequestOK
<1>6. OwnLock(s)
  BY <1>1, Zenon DEF OwnLock
<1> QED  BY <1>1, <1>4, <1>5, <1>6, RequestMoves, Zenon

\* Every step keeps the invariant.
LEMMA AccessStep == AccessInv /\ [AccessNext]_accessVars => AccessInv'
<1> SUFFICES ASSUME AccessInv, [AccessNext]_accessVars PROVE AccessInv'
  BY Zenon
<1>1. ASSUME NEW s \in Session, Browser(s) PROVE AccessInv'
  <2>1. CASE LoginViewBegin(s) \/ LoginEnd(s) \/ VerifyEnd(s) \/ AddBegin(s) \/ AddEnd(s) \/ DeleteBegin(s)
    BY <2>1, LoginBeginKeeps, LoginEndKeeps, VerifyEndKeeps, AddBeginKeeps, AddEndKeeps,
       DeleteBeginKeeps, Zenon
  <2>2. CASE ConfirmLock(s) \/ ConfirmEnd(s) \/ RequestFails(s) \/ Forget(s)
    BY <2>2, ConfirmLockKeeps, ConfirmEndKeeps, FailOrForgetKeeps, Zenon
  <2>3. CASE \E f \in Factor : VerifyBegin(s, f) \/ DeleteEnd(s, f)
    BY <2>3, VerifyBeginKeeps, DeleteEndKeeps, Zenon
  <2>4. CASE \E c \in Command : ConfirmOpen(s, c)
    BY <2>4, ConfirmOpenKeeps, Zenon
  <2> QED  BY <1>1, <2>1, <2>2, <2>3, <2>4, Zenon DEF Browser
<1>2. ASSUME NEW c \in Command, Management(c) PROVE AccessInv'
  BY <1>2, CommandStepsKeep, CommitKeeps, LinkExpiresKeeps, Zenon DEF Management
<1>3. CASE UNCHANGED accessVars
  <2>1. UNCHANGED <<humans, auth, known, signedIn, factors, added, rowLock, typeLock, sess, op,
                    cmd, link, uses, resets>>
    BY <1>3, Zenon DEF accessVars, account
  <2>2. AccessTypeOK'
    BY <2>1, Zenon DEF AccessInv, AccessTypeOK
  <2>3. ASSUME NEW t \in Session PROVE SessionOK(t)'
    BY <2>1, OneSession, Zenon DEF SessionOK, RecordsOK, RequestOK, Fresh, Verified
  <2>4. ASSUME NEW d \in Command PROVE CommandOK(d)' /\ LinkOK(d)'
    BY <2>1, OneCommand, Zenon DEF CommandOK, LinkOK
  <2> QED  BY <2>1, <2>2, <2>3, <2>4, Zenon DEF AccessInv
<1> QED  BY <1>1, <1>2, <1>3, Zenon DEF AccessNext

-----------------------------------------------------------------------------
\* The invariant holds in every behaviour.
LEMMA AlwaysAccessInv == AccessSpec => []AccessInv
<1>1. AccessInit => AccessInv
  <2> SUFFICES ASSUME AccessInit PROVE AccessInv
    BY Zenon
  <2>1. Nobody \in Records /\ Idle \in Operation /\ Idle.kind = "idle"
        /\ Nobody.challenge = Nil /\ Nobody.proof = Nil
    BY Zenon DEF Nobody, Records, Idle, Operation
  <2>2. [mode |-> "bootstrap", stage |-> "idle"] \in CommandState
    BY Zenon DEF CommandState
  <2>3. AccessTypeOK
    <3>1. /\ humans \in Nat /\ auth \in Nat /\ resets \in Nat
          /\ factors \subseteq Factor /\ added \in 0 .. MaxFactor
      BY FactorsCounted DEF AccessInit
    <3>2. known \in BOOLEAN /\ signedIn \in BOOLEAN /\ rowLock = Nil /\ typeLock = Nil
      BY Zenon DEF AccessInit
    <3>3. sess \in [Session -> Records] /\ op \in [Session -> Operation]
      BY <2>1, Zenon DEF AccessInit
    <3>4. /\ cmd \in [Command -> CommandState] /\ link \in [Command -> Link \cup {Nil}]
          /\ uses \in [Command -> Nat]
      BY <2>2, Zenon DEF AccessInit
    <3> QED  BY <3>1, <3>2, <3>3, <3>4, Zenon DEF AccessTypeOK
  <2>4. ASSUME NEW s \in Session PROVE SessionOK(s)
    <3>1. sess[s] = Nobody /\ op[s] = Idle
      BY Zenon DEF AccessInit
    <3> QED  BY <2>1, <3>1, Zenon DEF SessionOK, RecordsOK, RequestOK
  <2>5. ASSUME NEW c \in Command PROVE CommandOK(c) /\ LinkOK(c)
    <3>1. cmd[c].stage = "idle" /\ link[c] = Nil /\ uses[c] = 0
      BY Zenon DEF AccessInit
    <3> QED  BY <3>1 DEF CommandOK, LinkOK
  <2>6. humans <= 1
    BY DEF AccessInit
  <2> QED  BY <2>3, <2>4, <2>5, <2>6, Zenon DEF AccessInv
<1> QED  BY <1>1, AccessStep, PTL DEF AccessSpec

\* The account, its sessions, links and locks keep the values of their schema.
THEOREM AccessAlwaysTyped == AccessSpec => []AccessTypeOK
<1>1. AccessInv => AccessTypeOK
  BY Zenon DEF AccessInv
<1> QED  BY <1>1, AlwaysAccessInv, PTL

\* However many bootstraps run at once, apply_access creates one human: the count is
\* taken and the user created under the ContentType lock.
THEOREM AlwaysOneHuman == AccessSpec => []OneHuman
<1>1. AccessInv => OneHuman
  BY Zenon DEF AccessInv, OneHuman
<1> QED  BY <1>1, AlwaysAccessInv, PTL

\* A setup link sets a password at most once, whichever sessions open it at the same
\* time (get_user refetches the user under the row lock).
THEOREM LinkAlwaysUsedOnce == AccessSpec => []LinkUsedOnce
<1>1. AccessInv => LinkUsedOnce
  BY Zenon DEF AccessInv, LinkOK, LinkUsedOnce
<1> QED  BY <1>1, AlwaysAccessInv, PTL

\* Only ConfirmEnd uses a link, and it holds the row: what it read is current.
LEMMA UseStep ==
  ASSUME AccessInv, AccessNext, NEW c \in Command, uses'[c] # uses[c]
  PROVE  link[c] # Nil /\ link[c].reset = resets /\ ~ signedIn
<1>1. PICK s \in Session : ConfirmEnd(s)
  <2>1. ASSUME NEW s \in Session, Browser(s) PROVE ConfirmEnd(s)
    BY <2>1, Zenon DEF Browser, LoginViewBegin, LoginEnd, VerifyBegin, VerifyEnd, AddBegin, AddEnd,
       DeleteBegin, DeleteEnd, ConfirmOpen, ConfirmLock, RequestFails, Forget
  <2>2. ASSUME NEW d \in Command, Management(d) PROVE FALSE
    BY <2>2, Zenon DEF Management, Reserve, LockType, CheckTarget, Commit, Write, CommandFails, LinkExpires
  <2> QED  BY <2>1, <2>2, Zenon DEF AccessNext
<1>2. /\ op[s].kind = "confirm" /\ link[op[s].link] # Nil /\ link[op[s].link].auth = op[s].auth
      /\ ~ op[s].signedIn /\ uses' = [uses EXCEPT ![op[s].link] = @ + 1]
  BY <1>1, Zenon DEF ConfirmEnd
<1>3. op[s].auth = auth /\ op[s].signedIn = signedIn
  BY <1>2, OneSession, Zenon DEF RequestOK
<1>4. c = op[s].link
  BY <1>2, Zenon DEF AccessInv, AccessTypeOK
<1>5. LinkOK(c) /\ link[c] \in Link /\ auth \in Nat /\ resets \in Nat
  BY <1>2, <1>4, OneCommand, Zenon DEF AccessInv, AccessTypeOK
<1>6. link[c].reset = resets
  BY <1>2, <1>3, <1>4, <1>5 DEF LinkOK, Link
<1> QED  BY <1>2, <1>3, <1>4, <1>6, Zenon

\* A password is set only through the link of the latest reset, while nobody has signed
\* in since it: a recovery cancels every earlier link, also one already being opened.
THEOREM AlwaysLinkOfLatestReset == AccessSpec => LinkOfLatestReset
<1> DEFINE A == \A c \in Command : uses'[c] # uses[c] =>
                   link[c] # Nil /\ link[c].reset = resets /\ ~ signedIn
<1>1. ASSUME AccessInv, [AccessNext]_accessVars PROVE [A]_accessVars
  BY <1>1, UseStep, Zenon
<1> QED  BY <1>1, AlwaysAccessInv, PTL DEF AccessSpec, LinkOfLatestReset

\* A verified session entered its password after the latest reset: no challenge or
\* proof of an earlier password survives a recovery.
THEOREM AlwaysVerifiedAfterReset == AccessSpec => []VerifiedAfterReset
<1>1. AccessInv => VerifiedAfterReset
  BY OneSession, Zenon DEF RecordsOK, Fresh, Verified, VerifiedAfterReset
<1> QED  BY <1>1, AlwaysAccessInv, PTL

\* A step that changes the factors adds one under the lock, deletes one of several, or
\* replaces the password with them.
LEMMA FactorsStep ==
  ASSUME AccessInv, AccessNext PROVE LastFactorKept /\ AddedByVerified
<1>1. CASE factors' = factors
  BY <1>1, Zenon DEF LastFactorKept, AddedByVerified
<1>2. ASSUME NEW s \in Session, AddEnd(s) PROVE LastFactorKept /\ AddedByVerified
  <2>1. op[s].kind = "add" /\ factors' = factors \cup {added + 1} /\ op'[s] = Idle
    BY <1>2, Zenon DEF AddEnd, AccessInv, AccessTypeOK
  <2>2. factors # {} => Verified(s)
    BY <2>1, OneSession, Zenon DEF RequestOK
  <2> QED  BY <2>1, <2>2, Zenon DEF LastFactorKept, AddedByVerified
<1>3. ASSUME NEW s \in Session, NEW f \in Factor, DeleteEnd(s, f) PROVE LastFactorKept /\ AddedByVerified
  <2>1. op[s].kind = "delete" /\ factors' = factors \ {f}
    BY <1>3, Zenon DEF DeleteEnd
  <2>2. \E g, h \in factors : g # h
    BY <2>1, OneSession, Zenon DEF RequestOK
  <2> QED  BY <2>1, <2>2 DEF LastFactorKept, AddedByVerified
<1>4. ASSUME NEW c \in Command, Commit(c) PROVE LastFactorKept /\ AddedByVerified
  <2>1. auth' = auth + 1 /\ factors' = {} /\ auth \in Nat
    BY <1>4, Zenon DEF Commit, AccessInv, AccessTypeOK
  <2> QED  BY <2>1 DEF LastFactorKept, AddedByVerified
<1>5. ASSUME NEW s \in Session, Browser(s), factors' # factors
      PROVE  AddEnd(s) \/ \E f \in Factor : DeleteEnd(s, f)
  BY <1>5, Zenon DEF Browser, LoginViewBegin, LoginEnd, VerifyBegin, VerifyEnd, AddBegin, DeleteBegin,
     ConfirmOpen, ConfirmLock, ConfirmEnd, RequestFails, Forget, account
<1>6. ASSUME NEW c \in Command, Management(c), factors' # factors PROVE Commit(c)
  BY <1>6, Zenon DEF Management, Reserve, LockType, CheckTarget, Write, CommandFails, LinkExpires, account
<1> QED  BY <1>1, <1>2, <1>3, <1>4, <1>5, <1>6, Zenon DEF AccessNext

\* The last verification method goes only with the password, and one is added beside
\* others only by a verified session, whatever sessions do at once.
THEOREM FactorsAlwaysGuarded == AccessSpec => FactorsGuarded
<1>1. ASSUME AccessInv, [AccessNext]_accessVars PROVE [LastFactorKept /\ AddedByVerified]_accessVars
  BY <1>1, FactorsStep, Zenon
<1> QED  BY <1>1, AlwaysAccessInv, PTL DEF AccessSpec, FactorsGuarded
=============================================================================
