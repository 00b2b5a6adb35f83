--------------------------- MODULE OperatorAccess ---------------------------
(***************************************************************************)
(* The local operator account: sign-in, verification methods and recovery, *)
(* as in experiments/server/operator_mfa.py (the middleware and its        *)
(* session records) and operator_recovery.py (the management command and   *)
(* the password-reset view).  Web requests and commands run side by side;  *)
(* what keeps them apart is the lock on the user row, the lock on the      *)
(* ContentType row, and stamps of the account's auth hash.  A setup link   *)
(* is a Django reset token: it is bound to the password hash and to        *)
(* last_login, which every completed sign-in replaces.                     *)
(***************************************************************************)
EXTENDS Integers, FiniteSets

CONSTANTS
  Session,     \* browser sessions
  Command,     \* runs of the operator-access command, each with its own output
  MaxFactor,   \* bound: factors ever added
  Nil          \* no record, no lock holder

\* A lock is held by a session, by a command or by nobody.
ASSUME PartiesDistinct == Session \cap Command = {} /\ Nil \notin Session \cup Command
ASSUME FactorsCounted == MaxFactor \in Nat

VARIABLES
  humans,    \* number of human accounts
  auth,      \* session auth hash: a number that every set_password replaces
  known,     \* somebody knows the password
  signedIn,  \* last_login was replaced since the latest reset
  factors,   \* verification devices of the account
  added,     \* devices added so far; a device keeps its primary key
  rowLock,   \* holder of the user row
  typeLock,  \* holder of the ContentType row
  sess,      \* the records of each session
  op,        \* the request each session is in the middle of
  cmd,       \* each command
  link,      \* the auth hash each setup link is made for, and which reset made it
  uses,      \* passwords set through each link
  resets     \* commands that committed

account == <<humans, auth, known, signedIn, factors, added>>
accessVars == <<account, rowLock, typeLock, sess, op, cmd, link, uses, resets>>

Factor == 1 .. MaxFactor
Nobody == [enroll |-> Nil, challenge |-> Nil, proof |-> Nil]

\* An operation at the account: the user and the factors as the request read them.
Idle == [kind |-> "idle", auth |-> 0, signedIn |-> FALSE, factors |-> {}, login |-> 0,
         verified |-> FALSE, link |-> Nil, device |-> 0]

\* What a session record, a request, a command and a link hold.
Records == [enroll : Nat \cup {Nil}, challenge : [auth : Nat, login : Nat] \cup {Nil},
            proof : [auth : Nat, factors : SUBSET Factor, login : Nat] \cup {Nil}]
Operation == [kind : {"idle", "login", "verify", "add", "delete", "open", "confirm"},
              auth : Nat, signedIn : BOOLEAN, factors : SUBSET Factor, login : Nat,
              verified : BOOLEAN, link : Command \cup {Nil}, device : Factor \cup {0}]
CommandState == [mode : {"bootstrap", "recover"},
                 stage : {"idle", "reserved", "typed", "checked", "committed", "written", "failed"}]
Link == [auth : Nat, reset : Nat]

\* The account, its sessions, links and locks have the values of their schema.
AccessTypeOK ==
  /\ humans \in Nat /\ auth \in Nat /\ resets \in Nat
  /\ known \in BOOLEAN /\ signedIn \in BOOLEAN
  /\ factors \subseteq Factor /\ added \in 0 .. MaxFactor
  /\ rowLock \in Session \cup Command \cup {Nil}
  /\ typeLock \in Command \cup {Nil}
  /\ sess \in [Session -> Records]
  /\ op \in [Session -> Operation]
  /\ cmd \in [Command -> CommandState]
  /\ link \in [Command -> Link \cup {Nil}]
  /\ uses \in [Command -> Nat]

AccessInit ==
  /\ humans = 0 /\ auth = 0 /\ known = FALSE /\ signedIn = FALSE
  /\ factors = {} /\ added = 0
  /\ rowLock = Nil /\ typeLock = Nil
  /\ sess = [s \in Session |-> Nobody]
  /\ op = [s \in Session |-> Idle]
  /\ cmd = [c \in Command |-> [mode |-> "bootstrap", stage |-> "idle"]]
  /\ link = [c \in Command |-> Nil]
  /\ uses = [c \in Command |-> 0]
  /\ resets = 0

Busy(s) == op[s] # Idle
Begins(s, o) == ~Busy(s) /\ humans > 0 /\ op' = [op EXCEPT ![s] = o]

\* select_for_update on the user row, and the end of the transaction.
Locks(h) == rowLock = Nil /\ rowLock' = h
Unlocks(h) == rowLock' = IF rowLock = h THEN Nil ELSE rowLock

\* _proof and the enrolment record, against the account as it is now.
Verified(s) ==
  /\ factors # {} /\ sess[s].proof # Nil
  /\ sess[s].proof.auth = auth /\ sess[s].proof.factors = factors
Enrolling(s) == factors = {} /\ sess[s].enroll = auth

-----------------------------------------------------------------------------
(* Sign-in.                                                                *)

\* The login view: the password is right for the user it loads.
LoginViewBegin(s) ==
  /\ known
  /\ Begins(s, [Idle EXCEPT !.kind = "login", !.auth = auth, !.login = resets])
  /\ UNCHANGED <<account, rowLock, typeLock, sess, cmd, link, uses, resets>>

\* Without factors auth_login, whose update of last_login waits for the user row, and
\* begin_enrollment; with some a signed challenge.
LoginEnd(s) ==
  /\ op[s].kind = "login"
  /\ IF factors = {}
     THEN /\ rowLock = Nil /\ signedIn' = TRUE
          /\ sess' = [sess EXCEPT ![s] = [Nobody EXCEPT !.enroll = op[s].auth]]
     ELSE /\ UNCHANGED signedIn
          /\ sess' = [sess EXCEPT ![s].challenge = [auth |-> op[s].auth, login |-> op[s].login]]
  /\ op' = [op EXCEPT ![s] = Idle]
  /\ UNCHANGED <<humans, auth, known, factors, added, rowLock, typeLock, cmd, link, uses, resets>>

\* Mutant of VerifyBegin: a challenge of an earlier password is accepted.
VerifyBeginAnyChallenge(s, f) ==
  /\ f \in factors
  /\ sess[s].challenge # Nil
  /\ Begins(s, [Idle EXCEPT !.kind = "verify", !.auth = auth, !.device = f])
  /\ Locks(s)
  /\ UNCHANGED <<account, typeLock, sess, cmd, link, uses, resets>>

\* _challenge; the form locks the user row before the device is verified, and
\* prepare_mfa loads the user.
VerifyBegin(s, f) ==
  /\ f \in factors
  /\ sess[s].challenge # Nil /\ sess[s].challenge.auth = auth
  /\ Begins(s, [Idle EXCEPT !.kind = "verify", !.auth = auth, !.device = f])
  /\ Locks(s)
  /\ UNCHANGED <<account, typeLock, sess, cmd, link, uses, resets>>

\* prepare_mfa, auth_login and complete_mfa: the proof holds the user and factors as read.
VerifyEnd(s) ==
  /\ op[s].kind = "verify"
  /\ op[s].device \in factors
  /\ sess' = [sess EXCEPT ![s] = [Nobody EXCEPT !.proof =
       [auth |-> op[s].auth, factors |-> factors, login |-> sess[s].challenge.login]]]
  /\ signedIn' = TRUE
  /\ op' = [op EXCEPT ![s] = Idle]
  /\ Unlocks(s)
  /\ UNCHANGED <<humans, auth, known, factors, added, typeLock, cmd, link, uses, resets>>

-----------------------------------------------------------------------------
(* Verification methods: RequireOperatorMFA around the setup and delete views. *)

AddBegin(s) ==
  /\ Verified(s) \/ Enrolling(s)
  /\ Begins(s, [Idle EXCEPT !.kind = "add", !.factors = factors, !.verified = Verified(s)])
  /\ Locks(s)
  /\ UNCHANGED <<account, typeLock, sess, cmd, link, uses, resets>>

\* A session that enrolled signs in again; one that was verified keeps its proof.
AddEnd(s) ==
  /\ op[s].kind = "add"
  /\ added < MaxFactor
  /\ added' = added + 1
  /\ factors' = factors \cup {added + 1}
  /\ sess' = [sess EXCEPT ![s] = IF op[s].verified
                                 THEN [sess[s] EXCEPT !.proof.factors = factors']
                                 ELSE Nobody]
  /\ op' = [op EXCEPT ![s] = Idle]
  /\ Unlocks(s)
  /\ UNCHANGED <<humans, auth, known, signedIn, typeLock, cmd, link, uses, resets>>

\* Mutant of DeleteBegin: the count is read before the row is locked.
DeleteBeginUnlocked(s) ==
  /\ Verified(s)
  /\ Cardinality(factors) > 1
  /\ Begins(s, [Idle EXCEPT !.kind = "delete", !.factors = factors, !.verified = TRUE])
  /\ UNCHANGED <<account, rowLock, typeLock, sess, cmd, link, uses, resets>>

DeleteBegin(s) ==
  /\ Verified(s)
  /\ Cardinality(factors) > 1
  /\ Begins(s, [Idle EXCEPT !.kind = "delete", !.factors = factors, !.verified = TRUE])
  /\ Locks(s)
  /\ UNCHANGED <<account, typeLock, sess, cmd, link, uses, resets>>

DeleteEnd(s, f) ==
  /\ op[s].kind = "delete"
  /\ f \in factors
  /\ factors' = factors \ {f}
  /\ sess' = [sess EXCEPT ![s].proof.factors = factors']
  /\ op' = [op EXCEPT ![s] = Idle]
  /\ Unlocks(s)
  /\ UNCHANGED <<humans, auth, known, signedIn, added, typeLock, cmd, link, uses, resets>>

\* A request is refused, fails or dies: its transaction is rolled back.
RequestFails(s) ==
  /\ Busy(s)
  /\ op' = [op EXCEPT ![s] = Idle]
  /\ Unlocks(s)
  /\ UNCHANGED <<account, typeLock, sess, cmd, link, uses, resets>>

\* A logout, a refusal by the middleware, or a record past its time.
Forget(s) ==
  /\ ~Busy(s)
  /\ \E r \in {"enroll", "challenge", "proof"} : sess' = [sess EXCEPT ![s][r] = Nil]
  /\ UNCHANGED <<account, rowLock, typeLock, op, cmd, link, uses, resets>>

-----------------------------------------------------------------------------
(* Recovery: apply_access.                                                 *)

To(c, from, to) == cmd[c].stage = from /\ cmd' = [cmd EXCEPT ![c].stage = to]

\* reserve_output creates the output exclusively.
Reserve(c, mode) ==
  /\ cmd[c].stage = "idle"
  /\ cmd' = [cmd EXCEPT ![c] = [mode |-> mode, stage |-> "reserved"]]
  /\ UNCHANGED <<account, rowLock, typeLock, sess, op, link, uses, resets>>

\* Mutant of LockType: two commands may be in the transaction.
LockTypeShared(c) ==
  /\ To(c, "reserved", "typed")
  /\ UNCHANGED <<account, rowLock, typeLock, sess, op, link, uses, resets>>

LockType(c) ==
  /\ To(c, "reserved", "typed")
  /\ typeLock = Nil /\ typeLock' = c
  /\ UNCHANGED <<account, rowLock, sess, op, link, uses, resets>>

\* No human for a bootstrap; the exact user, locked, for a recovery.
CheckTarget(c) ==
  /\ To(c, "typed", "checked")
  /\ IF cmd[c].mode = "bootstrap"
     THEN humans = 0 /\ UNCHANGED rowLock
     ELSE humans > 0 /\ rowLock = Nil /\ rowLock' = c
  /\ UNCHANGED <<account, typeLock, sess, op, link, uses, resets>>

\* Mutant of Commit: the factors are removed and a link is made, the password is kept.
CommitKeepsPassword(c) ==
  /\ To(c, "checked", "committed")
  /\ humans' = IF cmd[c].mode = "bootstrap" THEN humans + 1 ELSE humans
  /\ factors' = {} /\ signedIn' = FALSE
  /\ resets' = resets + 1
  /\ link' = [link EXCEPT ![c] = [auth |-> auth, reset |-> resets']]
  /\ Unlocks(c) /\ typeLock' = Nil
  /\ UNCHANGED <<auth, known, added, sess, op, uses>>

\* An unknown password, no factors, and a link for the new hash and last_login.
Commit(c) ==
  /\ To(c, "checked", "committed")
  /\ humans' = IF cmd[c].mode = "bootstrap" THEN humans + 1 ELSE humans
  /\ auth' = auth + 1 /\ known' = FALSE /\ signedIn' = FALSE
  /\ factors' = {}
  /\ resets' = resets + 1
  /\ link' = [link EXCEPT ![c] = [auth |-> auth', reset |-> resets']]
  /\ Unlocks(c) /\ typeLock' = Nil
  /\ UNCHANGED <<added, sess, op, uses>>

Write(c) ==
  /\ To(c, "committed", "written")
  /\ UNCHANGED <<account, rowLock, typeLock, sess, op, link, uses, resets>>

\* A refusal, an error or a crash; after the commit the link is lost with it.
CommandFails(c) ==
  /\ cmd[c].stage \in {"reserved", "typed", "checked", "committed"}
  /\ cmd' = [cmd EXCEPT ![c].stage = "failed"]
  /\ Unlocks(c)
  /\ typeLock' = IF typeLock = c THEN Nil ELSE typeLock
  /\ UNCHANGED <<account, sess, op, link, uses, resets>>

-----------------------------------------------------------------------------
(* The setup link: LockedResetConfirmView.                                 *)

\* The base view reads the user without a lock.
ConfirmOpen(s, c) ==
  /\ cmd[c].stage = "written"
  /\ Begins(s, [Idle EXCEPT !.kind = "open", !.link = c, !.auth = auth,
                              !.signedIn = signedIn])
  /\ UNCHANGED <<account, rowLock, typeLock, sess, cmd, link, uses, resets>>

\* Mutant of ConfirmLock: the instance read before the lock is kept.
ConfirmLockStale(s) ==
  /\ op[s].kind = "open"
  /\ rowLock = Nil /\ rowLock' = s
  /\ op' = [op EXCEPT ![s].kind = "confirm"]
  /\ UNCHANGED <<account, typeLock, sess, cmd, link, uses, resets>>

\* get_user refetches under the row lock.
ConfirmLock(s) ==
  /\ op[s].kind = "open"
  /\ rowLock = Nil /\ rowLock' = s
  /\ op' = [op EXCEPT ![s].kind = "confirm", ![s].auth = auth, ![s].signedIn = signedIn]
  /\ UNCHANGED <<account, typeLock, sess, cmd, link, uses, resets>>

\* The token is for the hash and the last_login that were read: the new password is
\* set, and nobody is signed in (post_reset_login).
ConfirmEnd(s) ==
  /\ op[s].kind = "confirm"
  /\ link[op[s].link] # Nil /\ link[op[s].link].auth = op[s].auth
  /\ ~op[s].signedIn
  /\ auth' = auth + 1 /\ known' = TRUE
  /\ uses' = [uses EXCEPT ![op[s].link] = @ + 1]
  /\ op' = [op EXCEPT ![s] = Idle]
  /\ Unlocks(s)
  /\ UNCHANGED <<humans, signedIn, factors, added, typeLock, sess, cmd, link, resets>>

\* Ten minutes have passed.
LinkExpires(c) ==
  /\ link[c] # Nil
  /\ link' = [link EXCEPT ![c] = Nil]
  /\ UNCHANGED <<account, rowLock, typeLock, sess, op, cmd, uses, resets>>

-----------------------------------------------------------------------------
Browser(s) ==
  \/ LoginViewBegin(s) \/ LoginEnd(s)
  \/ \E f \in Factor : VerifyBegin(s, f) \/ DeleteEnd(s, f)
  \/ VerifyEnd(s)
  \/ AddBegin(s) \/ AddEnd(s) \/ DeleteBegin(s)
  \/ \E c \in Command : ConfirmOpen(s, c)
  \/ ConfirmLock(s) \/ ConfirmEnd(s)
  \/ RequestFails(s) \/ Forget(s)

Management(c) ==
  \/ \E mode \in {"bootstrap", "recover"} : Reserve(c, mode)
  \/ LockType(c) \/ CheckTarget(c) \/ Commit(c) \/ Write(c)
  \/ CommandFails(c) \/ LinkExpires(c)

AccessNext == (\E s \in Session : Browser(s)) \/ (\E c \in Command : Management(c))

AccessSpec == AccessInit /\ [][AccessNext]_accessVars

-----------------------------------------------------------------------------
(* Properties.                                                             *)

\* Concurrent bootstraps create one human (the ContentType lock in apply_access).
OneHuman == humans <= 1

\* A setup link sets a password at most once (the refetch in get_user).
LinkUsedOnce == \A c \in Command : uses[c] <= 1

\* A password is set only through the link of the latest reset, and only while nobody
\* has signed in since: a recovery cancels the links made before it, also one that is
\* being opened (set_password in apply_access, the row lock in get_user).
LinkOfLatestReset ==
  [][\A c \in Command : uses'[c] # uses[c] =>
       link[c] # Nil /\ link[c].reset = resets /\ ~signedIn]_accessVars

\* A session counts as verified only if its password was entered after the latest
\* reset: recovery shuts out every earlier session and challenge.
VerifiedAfterReset == \A s \in Session : Verified(s) => sess[s].proof.login = resets

\* The last verification method disappears only together with the password
\* (the middleware refuses to delete it, only recovery removes it).
LastFactorKept == factors # {} /\ factors' = {} => auth' # auth

\* A verification method is added beside others only by a verified session: of two
\* enrolments at most the first succeeds.
AddedByVerified ==
  \A f \in factors' \ factors :
    factors # {} => \E s \in Session : Verified(s) /\ op[s].kind = "add" /\ op'[s] = Idle

\* What no step of a session or of a command does to the verification methods.
FactorsGuarded == [][LastFactorKept /\ AddedByVerified]_accessVars
=============================================================================
