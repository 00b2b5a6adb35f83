---------------------------- MODULE SetupProofs -----------------------------
(***************************************************************************)
(* Theorems about what is set up on the host.  Operator setup, for any     *)
(* number of requests, host scripts, runs of a script, restarts and        *)
(* container replacements (SetupTransport).  The staging of fresh projects,*)
(* for any number of stagers, destinations and projects (FreshStaging).    *)
(***************************************************************************)
EXTENDS SetupTransport, FreshStaging, TLAPS

-----------------------------------------------------------------------------
(* The transport of operator setup.                                        *)

\* The steps of a create between the reservation of its folder and docker exec.
Early == {"request", "attempt", "exec"}

\* What a confirmed create has left behind.
Done(c) ==
    /\ folder[c]["exit"] = "full" /\ command[c] = "done"
    /\ artifact[c] = "full" /\ commits[c] = 1

\* What a script knows of its context and of the container it attested.
ScriptInv(s) ==
    /\ script[s].pc # "free" =>
         /\ script[s].ctx \in Context
         /\ <<script[s].op, "submitted">> \in local[script[s].ctx]
    /\ script[s].pc \in {"reserve"} \cup Early =>
         /\ script[s].op = "create" /\ Accepted(script[s].ctx)
         /\ script[s].id <= web.id
         /\ script[s].id = web.id => web.bound = TRUE
    /\ script[s].pc \in Early =>
         folder[script[s].ctx]["folder"] = "full" /\ begun[script[s].ctx] = 0
    /\ script[s].pc \in {"attempt", "exec"} => folder[script[s].ctx]["request"] = "full"
    /\ script[s].pc = "exec" => folder[script[s].ctx]["attempt"] = "full"
    /\ script[s].pc \in {"compare", "sealed"} => folder[script[s].ctx]["exit"] = "full"
    /\ script[s].pc \in {"check", "read", "cross"} => script[s].op = "readback"
    /\ script[s].pc = "sealed" => Done(script[s].ctx)
    /\ script[s].pc = "reply" /\ script[s].op = "create" => Done(script[s].ctx)
    /\ script[s].pc \in {"cross", "sealed", "reply"} => artifact[script[s].ctx] = "full"

\* How the folder, the command, its commit and its artifact go together.
ContextInv(c) ==
    /\ begun[c] <= 1
    /\ folder[c]["folder"] = "absent" => begun[c] = 0
    /\ begun[c] = 0 => command[c] = "idle"
    /\ begun[c] > 0 =>
         /\ <<"create", "submitted">> \in local[c]
         /\ folder[c]["request"] = "full" /\ folder[c]["attempt"] = "full"
    /\ command[c] \in {"idle", "running", "reserved"} => commits[c] = 0
    /\ command[c] \in {"committed", "written", "done"} => commits[c] = 1
    /\ commits[c] <= 1
    /\ artifact[c] = "full" => commits[c] = 1
    /\ caller[c] = "received" \/ c \in delivered => artifact[c] = "full"
    /\ folder[c]["sealed"] # "absent" \/ <<"create", "terminal">> \in local[c] => Done(c)

\* The folder is the lock: one script at a time is on its way to docker exec.
Exclusive ==
    \A s, t \in Script :
        s # t /\ script[s].pc \in Early /\ script[t].pc \in Early =>
            script[s].ctx # script[t].ctx

IInv ==
    /\ TypeOK
    /\ \A c \in Context : ContextInv(c)
    /\ \A s \in Script : ScriptInv(s)
    /\ Exclusive

\* A script's state.
Row == [pc : {"free", "attest", "reserve", "request", "attempt", "exec", "wait", "exit",
              "compare", "sealed", "check", "read", "cross", "reply"},
        ctx : Context \cup {None}, op : Op, id : Nat, filling : BOOLEAN]

\* What is durable for a context stays: checkpoints, files, the whole artifact
\* and a finished command.
Stays(c) ==
    /\ local[c] \subseteq local'[c]
    /\ \A f \in File : folder[c][f] = "full" => folder'[c][f] = "full"
    /\ artifact[c] = "full" => artifact'[c] = "full"
    /\ Done(c) => Done(c)'

\* A container that replaces another has a new ID.
NewIdentity == web' = web \/ (web'.id \in Nat /\ web'.id > web.id)

-----------------------------------------------------------------------------
(* Scripts that do not move.                                               *)

\* What the invariant says of one script and of one context.
LEMMA OneScript ==
  ASSUME IInv, NEW s \in Script
  PROVE  ScriptInv(s)
BY Zenon DEF IInv

LEMMA OneContext ==
  ASSUME IInv, NEW c \in Context
  PROVE  ContextInv(c)
BY Zenon DEF IInv

\* A script whose own state is unchanged still knows what it knew, as long as
\* what is durable stays and nobody else starts the command it is about to start.
LEMMA Undisturbed ==
  ASSUME NEW t \in Script, TypeOK, ScriptInv(t), script'[t] = script[t], NewIdentity,
         \A c \in Context : Stays(c),
         script[t].pc \in Early => begun'[script[t].ctx] = begun[script[t].ctx]
  PROVE  ScriptInv(t)'
<1> USE DEF ScriptInv
<1>1. script[t] \in Row
  BY Zenon DEF TypeOK, Row
<1>2. CASE script[t].pc = "free"
  BY <1>2, Zenon DEF Early
<1>3. CASE script[t].pc # "free"
  <2> DEFINE c == script[t].ctx
  <2>1. c \in Context /\ Stays(c)
    BY <1>3, Zenon
  <2>2. <<script[t].op, "submitted">> \in local'[c]
    BY <1>3, <2>1, Zenon DEF Stays
  <2>3. \A f \in File : folder[c][f] = "full" => folder'[c][f] = "full"
    BY <2>1, Zenon DEF Stays
  <2>4. {"folder", "request", "attempt", "exit"} \subseteq File
    BY Zenon DEF File
  <2>5. script[t].pc \in {"reserve"} \cup Early =>
          /\ script[t].op = "create" /\ Accepted(c)'
          /\ script[t].id <= web'.id
          /\ script[t].id = web'.id => web'.bound = TRUE
    BY <1>1 DEF NewIdentity, Row, TypeOK, Accepted
  <2>6. script[t].pc \in {"cross", "sealed", "reply"} => artifact'[c] = "full"
    BY <2>1, Zenon DEF Stays
  <2>7. Done(c) => Done(c)'
    BY <2>1, Zenon DEF Stays
  <2> QED  BY <1>3, <2>1, <2>2, <2>3, <2>4, <2>5, <2>6, <2>7 DEF Early
<1> QED  BY <1>2, <1>3, Zenon

\* Steps in which no script moves and no command is started.
LEMMA Frame ==
  ASSUME IInv, TypeOK', \A d \in Context : ContextInv(d)', \A d \in Context : Stays(d),
         NewIdentity, script' = script, begun' = begun
  PROVE  IInv'
<1>1. \A t \in Script : ScriptInv(t)'
  BY Undisturbed, Zenon DEF IInv
<1>2. Exclusive'
  BY Zenon DEF IInv, Exclusive
<1> QED  BY <1>1, <1>2, Zenon DEF IInv

-----------------------------------------------------------------------------
(* Every step keeps the invariant.                                         *)

\* The caller of a context, its checkpoints and what it delivers.
LEMMA CallerKeeps ==
  ASSUME IInv, NEW c \in Context, CallerStep(c)
  PROVE  IInv'
<1> USE SetupAssumption DEF IInv
<1>1. CASE \E o \in Op : Submit(c, o)
  <2>1. TypeOK'
    BY <1>1 DEF Submit, Op, callerVars, hostVars, commandVars, TypeOK
  <2>2. ASSUME NEW d \in Context PROVE ContextInv(d)'
    BY <1>1 DEF Submit, Op, callerVars, hostVars, commandVars, TypeOK, ContextInv, Done
  <2>3. ASSUME NEW d \in Context PROVE Stays(d)
    BY <1>1 DEF Submit, Op, callerVars, hostVars, commandVars, TypeOK, Stays, Done, ContextInv
  <2> QED  BY <1>1, <2>1, <2>2, <2>3, Frame, Zenon DEF Submit, Op, callerVars, hostVars, commandVars, NewIdentity
<1>2. CASE Unknown(c)
  <2>1. TypeOK'
    BY <1>2, Zenon DEF Unknown, Op, callerVars, hostVars, commandVars, TypeOK
  <2>2. ASSUME NEW d \in Context PROVE ContextInv(d)'
    BY <1>2 DEF Unknown, Op, callerVars, hostVars, commandVars, TypeOK, ContextInv, Done
  <2>3. ASSUME NEW d \in Context PROVE Stays(d)
    BY <1>2, Zenon DEF Unknown, Op, callerVars, hostVars, commandVars, TypeOK, Stays, Done, ContextInv
  <2> QED  BY <1>2, <2>1, <2>2, <2>3, Frame, Zenon DEF Unknown, Op, callerVars, hostVars, commandVars, NewIdentity
<1>3. CASE Stop(c)
  <2>1. TypeOK'
    BY <1>3, Zenon DEF Stop, callerVars, hostVars, commandVars, TypeOK
  <2>2. ASSUME NEW d \in Context PROVE ContextInv(d)'
    BY <1>3 DEF Stop, callerVars, hostVars, commandVars, TypeOK, ContextInv, Done
  <2>3. ASSUME NEW d \in Context PROVE Stays(d)
    BY <1>3, Zenon DEF Stop, callerVars, hostVars, commandVars, TypeOK, Stays, Done, ContextInv
  <2> QED  BY <1>3, <2>1, <2>2, <2>3, Frame, Zenon DEF Stop, callerVars, hostVars, commandVars, NewIdentity
<1>4. CASE Receive(c)
  <2>1. TypeOK'
    BY <1>4, Zenon DEF Receive, callerVars, hostVars, commandVars, TypeOK
  <2>2. ASSUME NEW d \in Context PROVE ContextInv(d)'
    BY <1>4 DEF Receive, callerVars, hostVars, commandVars, TypeOK, ContextInv, Done
  <2>3. ASSUME NEW d \in Context PROVE Stays(d)
    BY <1>4, Zenon DEF Receive, callerVars, hostVars, commandVars, TypeOK, Stays, Done, ContextInv
  <2> QED  BY <1>4, <2>1, <2>2, <2>3, Frame, Zenon DEF Receive, callerVars, hostVars, commandVars, NewIdentity
<1> QED  BY <1>1, <1>2, <1>3, <1>4, Zenon DEF CallerStep

\* The steps of operator_access.
LEMMA CommandKeeps ==
  ASSUME IInv, NEW c \in Context, CommandStep(c)
  PROVE  IInv'
<1> USE SetupAssumption DEF IInv
<1>1. CASE ReserveOutput(c)
  <2>1. TypeOK'
    BY <1>1, Zenon DEF ReserveOutput, Live, callerVars, hostVars, commandVars, TypeOK
  <2>2. ASSUME NEW d \in Context PROVE ContextInv(d)'
    BY <1>1 DEF ReserveOutput, Live, callerVars, hostVars, commandVars, TypeOK, ContextInv, Done
  <2>3. ASSUME NEW d \in Context PROVE Stays(d)
    BY <1>1 DEF ReserveOutput, Live, callerVars, hostVars, commandVars, TypeOK, Stays, Done, ContextInv
  <2> QED  BY <1>1, <2>1, <2>2, <2>3, Frame, Zenon DEF ReserveOutput, Live, callerVars, hostVars, commandVars, NewIdentity
<1>2. CASE Commit(c)
  <2>1. TypeOK'
    BY <1>2 DEF Commit, Live, callerVars, hostVars, commandVars, TypeOK
  <2>2. ASSUME NEW d \in Context PROVE ContextInv(d)'
    BY <1>2 DEF Commit, Live, callerVars, hostVars, commandVars, TypeOK, ContextInv, Done
  <2>3. ASSUME NEW d \in Context PROVE Stays(d)
    BY <1>2 DEF Commit, Live, callerVars, hostVars, commandVars, TypeOK, Stays, Done, ContextInv
  <2> QED  BY <1>2, <2>1, <2>2, <2>3, Frame, Zenon DEF Commit, Live, callerVars, hostVars, commandVars, NewIdentity
<1>3. CASE WriteArtifact(c)
  <2>1. TypeOK'
    BY <1>3, Zenon DEF WriteArtifact, Live, callerVars, hostVars, commandVars, TypeOK
  <2>2. ASSUME NEW d \in Context PROVE ContextInv(d)'
    BY <1>3 DEF WriteArtifact, Live, callerVars, hostVars, commandVars, TypeOK, ContextInv, Done
  <2>3. ASSUME NEW d \in Context PROVE Stays(d)
    BY <1>3 DEF WriteArtifact, Live, callerVars, hostVars, commandVars, TypeOK, Stays, Done, ContextInv
  <2> QED  BY <1>3, <2>1, <2>2, <2>3, Frame, Zenon DEF WriteArtifact, Live, callerVars, hostVars, commandVars, NewIdentity
<1>4. CASE Finish(c)
  <2>1. TypeOK'
    BY <1>4, Zenon DEF Finish, Live, callerVars, hostVars, commandVars, TypeOK
  <2>2. ASSUME NEW d \in Context PROVE ContextInv(d)'
    BY <1>4 DEF Finish, Live, callerVars, hostVars, commandVars, TypeOK, ContextInv, Done
  <2>3. ASSUME NEW d \in Context PROVE Stays(d)
    BY <1>4 DEF Finish, Live, callerVars, hostVars, commandVars, TypeOK, Stays, Done, ContextInv
  <2> QED  BY <1>4, <2>1, <2>2, <2>3, Frame, Zenon DEF Finish, Live, callerVars, hostVars, commandVars, NewIdentity
<1>5. CASE Fail(c)
  <2>1. TypeOK'
    BY <1>5, Zenon DEF Fail, Live, callerVars, hostVars, commandVars, TypeOK
  <2>2. ASSUME NEW d \in Context PROVE ContextInv(d)'
    BY <1>5 DEF Fail, Live, callerVars, hostVars, commandVars, TypeOK, ContextInv, Done
  <2>3. ASSUME NEW d \in Context PROVE Stays(d)
    BY <1>5 DEF Fail, Live, callerVars, hostVars, commandVars, TypeOK, Stays, Done, ContextInv
  <2> QED  BY <1>5, <2>1, <2>2, <2>3, Frame, Zenon DEF Fail, Live, callerVars, hostVars, commandVars, NewIdentity
<1> QED  BY <1>1, <1>2, <1>3, <1>4, <1>5, Zenon DEF CommandStep

\* The web container is replaced.
LEMMA ReplaceKeeps ==
  ASSUME IInv, ReplaceWeb
  PROVE  IInv'
<1> USE SetupAssumption DEF IInv
<1>1. TypeOK'
  BY DEF ReplaceWeb, Killed, Live, callerVars, hostVars, commandVars, TypeOK
<1>2. ASSUME NEW d \in Context PROVE ContextInv(d)'
  BY Zenon DEF ReplaceWeb, Killed, Live, callerVars, TypeOK, ContextInv, Done
<1>3. ASSUME NEW d \in Context PROVE Stays(d)
  BY Zenon DEF ReplaceWeb, Killed, Live, callerVars, TypeOK, Stays, Done
<1>4. NewIdentity
  BY DEF ReplaceWeb, NewIdentity, TypeOK
<1> QED  BY <1>1, <1>2, <1>3, <1>4, Frame, Zenon DEF ReplaceWeb

\* The host restarts: no script is left.
LEMMA RestartKeeps ==
  ASSUME IInv, Restart
  PROVE  IInv'
<1> USE SetupAssumption DEF IInv
<1>1. TypeOK'
  BY DEF Restart, Killed, Live, NoScript, Op, callerVars, TypeOK
<1>2. ASSUME NEW d \in Context PROVE ContextInv(d)'
  BY Zenon DEF Restart, Killed, Live, callerVars, TypeOK, ContextInv, Done
<1>3. \A t \in Script : script'[t].pc = "free"
  BY Zenon DEF Restart, NoScript
<1>4. \A t \in Script : ScriptInv(t)'
  BY <1>3, Zenon DEF ScriptInv, Early
<1>5. Exclusive'
  BY <1>3, Zenon DEF Exclusive, Early
<1> QED  BY <1>1, <1>2, <1>4, <1>5, Zenon

-----------------------------------------------------------------------------
(* Steps of one script.                                                    *)

\* When script s moves, its own knowledge and its claim on a context are all
\* there is to show.
LEMMA Mover ==
  ASSUME IInv, NEW s \in Script, TypeOK', \A d \in Context : ContextInv(d)',
         \A d \in Context : Stays(d), web' = web, ScriptInv(s)',
         \A t \in Script \ {s} :
            /\ script'[t] = script[t]
            /\ script[t].pc \in Early =>
                 /\ begun'[script[t].ctx] = begun[script[t].ctx]
                 /\ script'[s].pc \in Early => script[t].ctx # script'[s].ctx
  PROVE  IInv'
<1>1. ASSUME NEW t \in Script PROVE ScriptInv(t)'
  <2>1. CASE t = s
    BY <2>1, Zenon
  <2>2. CASE t # s
    BY <2>2, Undisturbed, Zenon DEF IInv, NewIdentity
  <2> QED  BY <2>1, <2>2, Zenon
<1>2. Exclusive'
  BY DEF IInv, Exclusive
<1> QED  BY <1>1, <1>2, Zenon DEF IInv

\* A step that only changes where script s is.
LEMMA Moves ==
  ASSUME TypeOK, NEW s \in Script, NEW p \in {"request", "wait", "exit", "sealed", "read", "cross", "reply"},
         script' = Set(s, p)
  PROVE  /\ script'[s] = [pc |-> p, ctx |-> script[s].ctx, op |-> script[s].op,
                          id |-> script[s].id, filling |-> script[s].filling]
         /\ \A t \in Script \ {s} : script'[t] = script[t]
         /\ script' \in [Script -> Row]
<1>1. script \in [Script -> Row]
  BY Zenon DEF TypeOK, Row
<1>2. /\ script'[s] = [script[s] EXCEPT !.pc = p]
      /\ \A t \in Script \ {s} : script'[t] = script[t]
      /\ script' = [t \in Script |-> script'[t]]
  BY <1>1, Zenon DEF Set
<1>3. /\ script'[s] = [pc |-> p, ctx |-> script[s].ctx, op |-> script[s].op,
                       id |-> script[s].id, filling |-> script[s].filling]
      /\ script'[s] \in Row
  BY <1>1, <1>2, Zenon DEF Row
<1> QED  BY <1>1, <1>2, <1>3, Zenon

\* Such a step outside the way to docker exec, with nothing else changed.
LEMMA Passes ==
  ASSUME IInv, NEW s \in Script, NEW p \in {"exit", "sealed", "read", "cross", "reply"},
         script' = Set(s, p), UNCHANGED <<callerVars, runs, hostVars, commandVars>>,
         ScriptInv(s)'
  PROVE  IInv'
<1> USE DEF IInv, callerVars, hostVars, commandVars
<1>1. /\ script'[s] = [pc |-> p, ctx |-> script[s].ctx, op |-> script[s].op,
                       id |-> script[s].id, filling |-> script[s].filling]
      /\ \A t \in Script \ {s} : script'[t] = script[t]
      /\ script' \in [Script -> Row]
  BY Moves, ZenonT(60)
<1>3. TypeOK'
  BY <1>1, Zenon DEF TypeOK, Row
<1>4. \A d \in Context : ContextInv(d)'
  BY SMTT(60) DEF ContextInv, Done
<1>5. \A d \in Context : Stays(d)
  BY Zenon DEF Stays, Done
<1>6. script'[s].pc \notin Early
  BY <1>1 DEF Early
<1> QED  BY <1>1, <1>3, <1>4, <1>5, <1>6, Mover, Zenon

\* The exit code is there to be recorded.
LEMMA ExitedKeeps ==
  ASSUME IInv, NEW s \in Script, Exited(s)
  PROVE  IInv'
<1>1. script' = Set(s, "exit") /\ UNCHANGED <<callerVars, runs, hostVars, commandVars>>
  BY Zenon DEF Exited
<1>2. /\ script'[s] = [pc |-> "exit", ctx |-> script[s].ctx, op |-> script[s].op,
                       id |-> script[s].id, filling |-> script[s].filling]
      /\ \A t \in Script \ {s} : script'[t] = script[t]
      /\ script' \in [Script -> Row]
  BY <1>1, Moves, Zenon DEF IInv
<1>3. ScriptInv(s) /\ script[s].pc # "free"
  BY OneScript, Zenon DEF Exited
<1>4. script[s].ctx \in Context /\ ContextInv(script[s].ctx)
  BY <1>3, Zenon DEF IInv, ScriptInv
<1>5. ScriptInv(s)'
  <2>1. script'[s].pc = "exit" /\ script'[s].ctx = script[s].ctx /\ script'[s].op = script[s].op
    BY <1>2
  <2>2. local' = local
    BY <1>1, Zenon DEF callerVars
  <2>3. script[s].ctx \in Context /\ <<script[s].op, "submitted">> \in local[script[s].ctx]
    BY <1>3, Zenon DEF ScriptInv
  <2> QED  BY <2>1, <2>2, <2>3, Zenon DEF ScriptInv, Early
<1> QED  BY <1>1, <1>5, Passes, Zenon

\* A command that exited with 0 and its envelope are confirmed.
LEMMA CompareKeeps ==
  ASSUME IInv, NEW s \in Script, Compare(s)
  PROVE  IInv'
<1>1. script' = Set(s, "sealed") /\ UNCHANGED <<callerVars, runs, hostVars, commandVars>>
  BY Zenon DEF Compare, Envelope
<1>2. /\ script'[s] = [pc |-> "sealed", ctx |-> script[s].ctx, op |-> script[s].op,
                       id |-> script[s].id, filling |-> script[s].filling]
      /\ \A t \in Script \ {s} : script'[t] = script[t]
      /\ script' \in [Script -> Row]
  BY <1>1, Moves, Zenon DEF IInv
<1>3. ScriptInv(s) /\ script[s].pc # "free"
  BY OneScript, Zenon DEF Compare
<1>4. script[s].ctx \in Context /\ ContextInv(script[s].ctx)
  BY <1>3 DEF IInv, ScriptInv
<1>5. ScriptInv(s)'
  <2>1. /\ script'[s].pc = "sealed" /\ script'[s].ctx = script[s].ctx
        /\ script'[s].op = script[s].op
    BY <1>2
  <2>2. UNCHANGED <<local, folder, command, artifact, commits>>
    BY <1>1, Zenon DEF callerVars, hostVars, commandVars
  <2>3. /\ <<script[s].op, "submitted">> \in local[script[s].ctx]
        /\ folder[script[s].ctx]["exit"] = "full"
    BY <1>3, <1>4, Zenon DEF Compare, ScriptInv
  <2>4. Done(script[s].ctx)
    BY <1>4, <2>3, Zenon DEF Compare, Envelope, ContextInv, Done
  <2> QED  BY <1>4, <2>1, <2>2, <2>3, <2>4, Zenon DEF ScriptInv, Early, Done
<1> QED  BY <1>1, <1>5, Passes, Zenon

\* Readback finds that the request was attempted here.
LEMMA CheckAttemptKeeps ==
  ASSUME IInv, NEW s \in Script, CheckAttempt(s)
  PROVE  IInv'
<1>1. script' = Set(s, "read") /\ UNCHANGED <<callerVars, runs, hostVars, commandVars>>
  BY Zenon DEF CheckAttempt
<1>2. /\ script'[s] = [pc |-> "read", ctx |-> script[s].ctx, op |-> script[s].op,
                       id |-> script[s].id, filling |-> script[s].filling]
      /\ \A t \in Script \ {s} : script'[t] = script[t]
      /\ script' \in [Script -> Row]
  BY <1>1, Moves, Zenon DEF IInv
<1>3. ScriptInv(s) /\ script[s].pc # "free"
  BY OneScript, Zenon DEF CheckAttempt
<1>4. script[s].ctx \in Context /\ ContextInv(script[s].ctx)
  BY <1>3 DEF IInv, ScriptInv
<1>5. ScriptInv(s)'
  <2>1. script'[s].pc = "read" /\ script'[s].ctx = script[s].ctx /\ script'[s].op = script[s].op
    BY <1>2
  <2>2. script[s].pc = "check" /\ local' = local
    BY <1>1, Zenon DEF CheckAttempt, callerVars
  <2>3. script[s].op = "readback" /\ <<script[s].op, "submitted">> \in local[script[s].ctx]
    BY <1>3, <2>2, Zenon DEF ScriptInv
  <2> QED BY <1>4, <2>1, <2>2, <2>3, Zenon DEF ScriptInv, Early
<1> QED  BY <1>1, <1>5, Passes, Zenon

\* Readback finds the whole artifact.
LEMMA ReadArtifactKeeps ==
  ASSUME IInv, NEW s \in Script, ReadArtifact(s)
  PROVE  IInv'
<1>1. script' = Set(s, "cross") /\ UNCHANGED <<callerVars, runs, hostVars, commandVars>>
  BY Zenon DEF ReadArtifact, Envelope
<1>2. /\ script'[s] = [pc |-> "cross", ctx |-> script[s].ctx, op |-> script[s].op,
                       id |-> script[s].id, filling |-> script[s].filling]
      /\ \A t \in Script \ {s} : script'[t] = script[t]
      /\ script' \in [Script -> Row]
  BY <1>1, Moves, Zenon DEF IInv
<1>3. ScriptInv(s) /\ script[s].pc # "free"
  BY OneScript, Zenon DEF ReadArtifact
<1>4. script[s].ctx \in Context /\ ContextInv(script[s].ctx)
  BY <1>3 DEF IInv, ScriptInv
<1>5. script[s].op = "readback" /\ <<script[s].op, "submitted">> \in local[script[s].ctx]
      /\ artifact[script[s].ctx] = "full"
  BY <1>3, Zenon DEF ReadArtifact, Envelope, ScriptInv
<1>6. local' = local /\ artifact' = artifact
  BY <1>1, Zenon DEF callerVars, hostVars, commandVars
<1>7. ScriptInv(s)'
  BY <1>2, <1>4, <1>5, <1>6 DEF ScriptInv, Early
<1> QED  BY <1>1, <1>7, Passes, Zenon

\* Readback finds nothing that contradicts the artifact.
LEMMA CrossCheckKeeps ==
  ASSUME IInv, NEW s \in Script, CrossCheck(s)
  PROVE  IInv'
<1>1. script' = Set(s, "reply") /\ UNCHANGED <<callerVars, runs, hostVars, commandVars>>
  BY Zenon DEF CrossCheck
<1>2. /\ script'[s] = [pc |-> "reply", ctx |-> script[s].ctx, op |-> script[s].op,
                       id |-> script[s].id, filling |-> script[s].filling]
      /\ \A t \in Script \ {s} : script'[t] = script[t]
      /\ script' \in [Script -> Row]
  BY <1>1, Moves, Zenon DEF IInv
<1>3. /\ script[s].ctx \in Context /\ <<script[s].op, "submitted">> \in local[script[s].ctx]
      /\ script[s].op = "readback" /\ artifact[script[s].ctx] = "full"
  BY Zenon DEF IInv, CrossCheck, ScriptInv
<1>4. local' = local /\ artifact' = artifact
  BY <1>1, Zenon DEF callerVars, hostVars, commandVars
<1>5. ScriptInv(s)'
  BY <1>2, <1>3, <1>4, SMTT(60) DEF ScriptInv, Early
<1> QED  BY <1>1, <1>5, Passes, Zenon

\* A script that ends, having answered or not, knows nothing.
LEMMA Ends ==
  ASSUME IInv, NEW s \in Script, script' = [script EXCEPT ![s] = NoScript],
         UNCHANGED <<runs, hostVars, commandVars>>, TypeOK',
         \A d \in Context : ContextInv(d)', \A d \in Context : Stays(d)
  PROVE  IInv'
<1>1. script'[s] = NoScript /\ \A t \in Script \ {s} : script'[t] = script[t]
  BY SMTT(60) DEF IInv, TypeOK
<1>2. ScriptInv(s)' /\ script'[s].pc \notin Early
  <2>1. script'[s].pc = "free"
    BY <1>1 DEF NoScript
  <2> QED  BY <2>1, Zenon DEF ScriptInv, Early
<1> QED  BY <1>1, <1>2, Mover, Zenon DEF hostVars, commandVars

\* A refusal, a killed client, or the alarm.
LEMMA AbortKeeps ==
  ASSUME IInv, NEW s \in Script, Abort(s)
  PROVE  IInv'
<1> USE DEF Abort, callerVars, hostVars, commandVars
<1>1. TypeOK'
  BY Zenon DEF IInv, TypeOK, NoScript, Op
<1>2. \A d \in Context : ContextInv(d)'
  BY SMTT(60) DEF IInv, ContextInv, Done
<1>3. \A d \in Context : Stays(d)
  BY Zenon DEF Stays, Done
<1> QED  BY <1>1, <1>2, <1>3, Ends, Zenon

\* The answer: a caller that waits for it learns of a whole artifact.
LEMMA ReplyKeeps ==
  ASSUME IInv, NEW s \in Script, Reply(s)
  PROVE  IInv'
<1> DEFINE c == script[s].ctx
           o == script[s].op
<1>1. ScriptInv(s) /\ script[s].pc = "reply" /\ o \in Op
  BY Zenon DEF IInv, Reply, TypeOK
<1>2. c \in Context /\ artifact[c] = "full" /\ (o = "create" => Done(c))
  BY <1>1, Zenon DEF ScriptInv
<1>3. /\ script' = [script EXCEPT ![s] = NoScript]
      /\ UNCHANGED <<delivered, runs, hostVars, commandVars>>
      /\ \/ /\ caller' = [caller EXCEPT ![c] = "received"]
            /\ local' = [local EXCEPT ![c] = @ \cup {<<o, "terminal">>}]
         \/ UNCHANGED <<caller, local>>
  BY Zenon DEF Reply
<1> HIDE DEF c, o
<1>4. TypeOK'
  <2>1. <<o, "terminal">> \in Op \X {"submitted", "terminal"}
    BY <1>1, Zenon
  <2>2. local' \in [Context -> SUBSET (Op \X {"submitted", "terminal"})]
    BY <1>3, <2>1 DEF IInv, TypeOK
  <2>3. caller' \in [Context -> {"new", "create", "readback", "unknown", "received", "stopped"}]
    BY <1>3, Zenon DEF IInv, TypeOK
  <2>4. script' \in [Script -> Row]
    BY <1>3, Zenon DEF IInv, TypeOK, NoScript, Row, Op
  <2> QED  BY <1>3, <2>2, <2>3, <2>4, Zenon DEF IInv, TypeOK, Row, hostVars, commandVars
<1>5. ASSUME NEW d \in Context PROVE ContextInv(d)' /\ Stays(d)
  <2>1. ContextInv(d)
    BY Zenon DEF IInv
  <2>2. /\ caller'[d] = caller[d] \/ (d = c /\ caller'[d] = "received")
        /\ local'[d] = local[d] \/ (d = c /\ local'[d] = local[d] \cup {<<o, "terminal">>})
    BY <1>2, <1>3 DEF IInv, TypeOK
  <2> QED  BY <1>1, <1>2, <1>3, <2>1, <2>2, Zenon DEF ContextInv, Stays, Done, Op, hostVars, commandVars
<1> QED  BY <1>3, <1>4, <1>5, Ends, Zenon

\* A submitted operation reaches the VM, for the first time or again.
LEMMA LaunchKeeps ==
  ASSUME IInv, NEW s \in Script, NEW c \in Context, NEW o \in Op, Launch(s, c, o)
  PROVE  IInv'
<1> USE DEF Launch, callerVars, hostVars, commandVars
<1>1. /\ script'[s] = [pc |-> "attest", ctx |-> c, op |-> o, id |-> 0, filling |-> FALSE]
      /\ \A t \in Script \ {s} : script'[t] = script[t]
      /\ script' \in [Script -> Row]
  BY Zenon DEF IInv, TypeOK, NoScript, Row
<1>2. TypeOK'
  BY <1>1, SetupAssumption DEF IInv, TypeOK, Row
<1>3. \A d \in Context : ContextInv(d)'
  BY DEF IInv, ContextInv, Done
<1>4. \A d \in Context : Stays(d)
  BY Zenon DEF Stays, Done
<1>5. ScriptInv(s)' /\ script'[s].pc \notin Early
  BY <1>1 DEF ScriptInv, Early
<1> QED  BY <1>1, <1>2, <1>3, <1>4, <1>5, Mover, Zenon

\* The script attests the VM and the containers, and remembers the web container.
LEMMA AttestKeeps ==
  ASSUME IInv, NEW s \in Script, Attest(s)
  PROVE  IInv'
<1> DEFINE p == IF script[s].op = "create" THEN "reserve" ELSE "check"
<1> USE DEF callerVars, hostVars, commandVars
<1>1. script[s] \in Row /\ script \in [Script -> Row] /\ web.id \in Nat
  BY Zenon DEF IInv, TypeOK, Row
<1>2. /\ script'[s] = [script[s] EXCEPT !.pc = p, !.id = web.id]
      /\ \A t \in Script \ {s} : script'[t] = script[t]
      /\ script' = [t \in Script |-> script'[t]]
  BY <1>1, Zenon DEF Attest
<1>3. /\ script'[s] = [pc |-> p, ctx |-> script[s].ctx, op |-> script[s].op,
                       id |-> web.id, filling |-> script[s].filling]
      /\ \A t \in Script \ {s} : script'[t] = script[t]
      /\ script' \in [Script -> Row]
  <2>1. p \in {"reserve", "check"}
    BY Zenon
  <2> HIDE DEF p
  <2>2. script'[s] = [pc |-> p, ctx |-> script[s].ctx, op |-> script[s].op,
                      id |-> web.id, filling |-> script[s].filling]
    BY <1>1, <1>2, Zenon DEF Row
  <2>3. /\ script[s].ctx \in Context \cup {None} /\ script[s].op \in Op
        /\ script[s].filling \in BOOLEAN
    BY <1>1, Zenon DEF Row
  <2>4. script'[s] \in Row
    BY <1>1, <2>1, <2>2, <2>3 DEF Row
  <2> QED  BY <1>1, <1>2, <2>2, <2>4, Zenon
<1>4. TypeOK'
  BY <1>3, Zenon DEF IInv, TypeOK, Row, Attest
<1>5. \A d \in Context : ContextInv(d)'
  BY DEF IInv, ContextInv, Done, Attest
<1>6. \A d \in Context : Stays(d)
  BY Zenon DEF Stays, Done, Attest
<1>7. ScriptInv(s) /\ script[s].pc = "attest" /\ script[s].op \in Op
  BY <1>1, Zenon DEF IInv, Attest, Row
<1>8. web.bound = TRUE /\ Accepted(script[s].ctx)
  <2>1. web.bound /\ web.bound \in BOOLEAN
    BY Zenon DEF Attest, IInv, TypeOK
  <2> QED  BY <2>1, Zenon DEF Attest
<1>9. ScriptInv(s)' /\ script'[s].pc \notin Early
  BY <1>1, <1>3, <1>7, <1>8 DEF ScriptInv, Early, Attest, Accepted, Op
<1> QED  BY <1>3, <1>4, <1>5, <1>6, <1>9, Mover, Zenon DEF Attest

\* mkdir: the first script to get here is the only one.
LEMMA ReserveKeeps ==
  ASSUME IInv, NEW s \in Script, Reserve(s)
  PROVE  IInv'
<1> DEFINE c == script[s].ctx
<1> USE DEF callerVars, commandVars
<1>1. ScriptInv(s) /\ script[s].pc = "reserve"
  BY OneScript, Zenon DEF Reserve
<1>2. c \in Context /\ ContextInv(c) /\ folder[c]["folder"] = "absent" /\ begun[c] = 0
  <2>1. c \in Context
    BY <1>1, Zenon DEF ScriptInv
  <2>2. ContextInv(c)
    BY <2>1, OneContext, Zenon
  <2>3. folder[c]["folder"] = "absent"
    BY Zenon DEF Reserve, Mine
  <2> QED  BY <2>1, <2>2, <2>3, Zenon DEF ContextInv
<1>3. /\ script'[s] = [pc |-> "request", ctx |-> c, op |-> script[s].op,
                       id |-> script[s].id, filling |-> script[s].filling]
      /\ \A t \in Script \ {s} : script'[t] = script[t]
      /\ script' \in [Script -> Row]
  BY Moves, Zenon DEF IInv, Reserve
<1>4. /\ folder' = [folder EXCEPT ![c]["folder"] = "full"]
      /\ UNCHANGED <<callerVars, runs, web, restarts, commandVars>>
  BY Zenon DEF Reserve
<1> HIDE DEF c
<1>5. TypeOK'
  BY <1>3, <1>4, ZenonT(60) DEF IInv, TypeOK, Row
<1>6. ASSUME NEW d \in Context
      PROVE  /\ folder'[d]["folder"] = IF d = c THEN "full" ELSE folder[d]["folder"]
             /\ \A f \in File \ {"folder"} : folder'[d][f] = folder[d][f]
  BY <1>2, <1>4, SMTT(60) DEF IInv, TypeOK, File
<1>7. ASSUME NEW d \in Context PROVE ContextInv(d)' /\ Stays(d)
  <2>1. ContextInv(d)
    BY DEF IInv
  <2> QED  BY <1>2, <1>4, <1>6, <2>1, SMTT(60) DEF ContextInv, Stays, Done, File
<1>8. ScriptInv(s)'
  BY <1>1, <1>2, <1>3, <1>4, <1>6, SMTT(60) DEF ScriptInv, Early, Accepted, File, c
<1>9. ASSUME NEW t \in Script \ {s}, script[t].pc \in Early PROVE script[t].ctx # c
  <2>1. ScriptInv(t)
    BY OneScript, Zenon
  <2> QED  BY <1>2, <1>9, <2>1, Zenon DEF ScriptInv
<1> QED  BY <1>3, <1>4, <1>5, <1>7, <1>8, <1>9, Mover

\* docker exec: the command starts, and only because it had not.
LEMMA ExecKeeps ==
  ASSUME IInv, NEW s \in Script, Exec(s)
  PROVE  IInv'
<1> DEFINE c == script[s].ctx
<1> USE DEF callerVars, hostVars
<1>1. ScriptInv(s) /\ script[s].pc = "exec"
  BY OneScript, Zenon DEF Exec
<1>2. /\ c \in Context /\ ContextInv(c) /\ begun[c] = 0 /\ script[s].op = "create"
      /\ <<"create", "submitted">> \in local[c]
      /\ folder[c]["folder"] = "full"
      /\ folder[c]["request"] = "full" /\ folder[c]["attempt"] = "full"
  <2>1. c \in Context
    BY <1>1, Zenon DEF ScriptInv
  <2>2. ContextInv(c)
    BY <2>1, OneContext, Zenon
  <2>3. script[s].op = "create" /\ <<script[s].op, "submitted">> \in local[c]
    BY <1>1, Zenon DEF ScriptInv, Early
  <2>4. begun[c] = 0 /\ folder[c]["folder"] = "full"
    BY <1>1, Zenon DEF ScriptInv, Early
  <2>5. folder[c]["request"] = "full" /\ folder[c]["attempt"] = "full"
    BY <1>1, Zenon DEF ScriptInv
  <2> QED  BY <2>1, <2>2, <2>3, <2>4, <2>5, Zenon
<1>3. /\ script'[s] = [pc |-> "wait", ctx |-> c, op |-> script[s].op,
                       id |-> script[s].id, filling |-> script[s].filling]
      /\ \A t \in Script \ {s} : script'[t] = script[t]
      /\ script' \in [Script -> Row]
  BY Moves, ZenonT(60) DEF IInv, Exec
<1>4. /\ command' = [command EXCEPT ![c] = "running"]
      /\ begun' = [begun EXCEPT ![c] = @ + 1]
      /\ UNCHANGED <<callerVars, runs, hostVars, artifact, commits>>
  BY Zenon DEF Exec
<1> HIDE DEF c
<1>5. TypeOK'
  <2>1. begun' \in [Context -> Nat]
    BY <1>2, <1>4 DEF IInv, TypeOK
  <2>2. command' \in [Context -> Live \cup {"idle", "done", "failed", "killed"}]
    BY <1>4, ZenonT(60) DEF IInv, TypeOK, Live
  <2> QED  BY <1>3, <1>4, <2>1, <2>2, Zenon DEF IInv, TypeOK, Row
<1>6. ASSUME NEW d \in Context
      PROVE  /\ command'[d] = IF d = c THEN "running" ELSE command[d]
             /\ begun'[d] = IF d = c THEN 1 ELSE begun[d]
  BY <1>2, <1>4 DEF IInv, TypeOK
<1>7. ASSUME NEW d \in Context PROVE ContextInv(d)' /\ Stays(d)
  <2>1. ContextInv(d)
    BY DEF IInv
  <2>2. CASE d = c
    <3>1. command[c] = "idle" /\ ~ Done(c) /\ commits[c] = 0
      BY <1>2, Zenon DEF ContextInv, Done
    <3>2. command'[c] = "running" /\ begun'[c] = 1
      BY <1>2, <1>6, Zenon
    <3> QED  BY <1>2, <1>4, <2>2, <3>1, <3>2 DEF ContextInv, Stays, Done
  <2>3. CASE d # c
    <3>1. command'[d] = command[d] /\ begun'[d] = begun[d]
      BY <1>6, <2>3, ZenonT(60)
    <3> QED  BY <1>4, <2>1, <3>1, Zenon DEF ContextInv, Stays, Done
  <2> QED  BY <2>2, <2>3, Zenon
<1>8. ScriptInv(s)' /\ script'[s].pc \notin Early
  <2>1. script'[s].pc = "wait" /\ script'[s].ctx = c /\ script'[s].op = script[s].op
    <3>1. script'[s] = [pc |-> "wait", ctx |-> c, op |-> script[s].op,
                        id |-> script[s].id, filling |-> script[s].filling]
      BY <1>3, Zenon
    <3> QED  BY <3>1
  <2>3. script[s].op = "create" /\ <<"create", "submitted">> \in local[c]
    BY <1>2, Zenon
  <2>2. local' = local
    BY <1>4, Zenon
  <2> QED  BY <1>2, <2>1, <2>2, <2>3, ZenonT(60) DEF ScriptInv, Early
<1>9. ASSUME NEW t \in Script \ {s}, script[t].pc \in Early
      PROVE  begun'[script[t].ctx] = begun[script[t].ctx]
  <2>1. script[t].ctx # c
    BY <1>1, <1>9, Zenon DEF IInv, Exclusive, Early, c
  <2>2. script[t].ctx \in Context
    BY <1>9, Zenon DEF IInv, ScriptInv, Early
  <2> QED  BY <1>6, <2>1, <2>2, Zenon
<1> QED  BY <1>3, <1>4, <1>5, <1>7, <1>8, <1>9, Mover, Zenon

\* write_new: a file is created or completed, never changed once it is full.
LEMMA WriteNewKeeps ==
  ASSUME IInv, NEW s \in Script, WriteNew(s)
  PROVE  IInv'
<1> DEFINE f == script[s].pc
           v == IF script[s].filling THEN "full" ELSE "partial"
           p == IF script[s].filling THEN AfterWrite[f] ELSE f
<1> USE DEF callerVars, commandVars
<1>1. /\ ScriptInv(s) /\ f \in {"request", "attempt", "exit", "sealed"}
      /\ script \in [Script -> Row] /\ script[s] \in Row
      /\ (f = "request" => p \in {"request", "attempt"})
      /\ (f = "attempt" => p \in {"attempt", "exec"})
      /\ (f = "exit" => p \in {"exit", "compare"})
      /\ (f = "sealed" => p \in {"sealed", "reply"})
      /\ p # f => v = "full"
  BY SMTT(60) DEF IInv, WriteNew, AfterWrite, TypeOK, Row
<1>2. PICK c \in Context : c = script[s].ctx
  BY <1>1, OneScript, Zenon DEF ScriptInv
<1>0. /\ <<script[s].op, "submitted">> \in local[c]
      /\ f \in Early =>
           /\ script[s].op = "create" /\ Accepted(c) /\ script[s].id <= web.id
           /\ script[s].id = web.id => web.bound = TRUE
           /\ folder[c]["folder"] = "full" /\ begun[c] = 0
      /\ f = "attempt" => folder[c]["request"] = "full"
      /\ f = "sealed" => folder[c]["exit"] = "full" /\ Done(c) /\ artifact[c] = "full"
  BY <1>1, <1>2, Zenon DEF ScriptInv
<1>3. /\ script'[s] = [script[s] EXCEPT !.filling = ~ script[s].filling, !.pc = p]
      /\ \A t \in Script \ {s} : script'[t] = script[t]
      /\ script' = [t \in Script |-> script'[t]]
  BY <1>1, Zenon DEF WriteNew, AfterWrite
<1>4. /\ folder' = [folder EXCEPT ![c][f] = v]
      /\ folder[c][f] # "full" /\ v \in {"partial", "full"}
      /\ UNCHANGED <<callerVars, runs, web, restarts, commandVars>>
  BY <1>2, Zenon DEF WriteNew, Mine
<1>5. /\ script'[s].pc = p /\ script'[s].ctx = c
      /\ script'[s].op = script[s].op /\ script'[s].id = script[s].id
      /\ script'[s] \in Row
  <2> HIDE DEF p
  <2>1. p \in {"request", "attempt", "exec", "exit", "compare", "sealed", "reply"}
    BY <1>1, Zenon
  <2>2. (~ script[s].filling) \in BOOLEAN
    BY Zenon
  <2> QED  BY <1>1, <1>2, <1>3, <2>1, <2>2, Zenon DEF Row
<1> HIDE DEF f, v, p
<1>6. TypeOK'
  <2>1. script' \in [Script -> Row]
    BY <1>1, <1>3, <1>5, Zenon
  <2>2. folder' \in [Context -> [File -> {"absent", "partial", "full"}]]
    BY <1>1, <1>2, <1>4, Zenon DEF IInv, TypeOK, File
  <2> QED  BY <1>4, <2>1, <2>2, Zenon DEF IInv, TypeOK, Row
<1>7. ASSUME NEW d \in Context, NEW g \in File
      PROVE  folder'[d][g] = IF d = c /\ g = f THEN v ELSE folder[d][g]
  BY <1>1, <1>2, <1>4, Zenon DEF IInv, TypeOK, File
<1>8. {"folder", "request", "attempt", "exit", "sealed"} \subseteq File /\ f # "folder"
  BY <1>1, Zenon DEF File
<1>9. ASSUME NEW d \in Context PROVE Stays(d)
  BY <1>4, <1>7, <1>8 DEF Stays, Done
<1>10. ASSUME NEW d \in Context PROVE ContextInv(d)'
  <2>1. ContextInv(d)
    BY Zenon DEF IInv
  <2>2. CASE d # c
    <3>1. \A g \in File : folder'[d][g] = folder[d][g]
      BY <1>7, <2>2, Zenon
    <3> QED  BY <1>4, <1>8, <2>1, <3>1, Zenon DEF ContextInv, Done
  <2>3. CASE d = c /\ f \in {"request", "attempt"}
    <3>1. begun[c] = 0
      BY <1>1, <1>2, <2>3, Zenon DEF ScriptInv, Early, f
    <3>2. \A g \in File \ {"request", "attempt"} : folder'[d][g] = folder[d][g]
      BY <1>7, <2>3, Zenon
    <3> QED  BY <1>4, <1>8, <2>1, <2>3, <3>1, <3>2, Zenon DEF ContextInv, Done
  <2>4. CASE d = c /\ f = "exit"
    <3>1. \A g \in File \ {"exit"} : folder'[d][g] = folder[d][g]
      BY <1>7, <2>4, Zenon
    <3>2. ~ Done(c)
      BY <1>4, <2>4, Zenon DEF Done
    <3> QED  BY <1>4, <1>8, <2>1, <2>4, <3>1, <3>2, Zenon DEF ContextInv
  <2>5. CASE d = c /\ f = "sealed"
    <3>1. \A g \in File \ {"sealed"} : folder'[d][g] = folder[d][g]
      BY <1>7, <2>5, Zenon
    <3>2. Done(c)
      BY <1>0, <2>5, Zenon
    <3> QED  BY <1>4, <1>8, <2>1, <2>5, <3>1, <3>2, Zenon DEF ContextInv, Done
  <2> QED  BY <1>1, <2>2, <2>3, <2>4, <2>5, Zenon
<1>11. ScriptInv(s)'
  <2>1. \A g \in File : folder[c][g] = "full" => folder'[c][g] = "full"
    BY <1>2, <1>4, <1>7, Zenon
  <2>2. p # f => folder'[c][f] = "full"
    BY <1>1, <1>2, <1>7, <1>8, Zenon
  <2>3. Done(c) => Done(c)'
    BY <1>2, <1>9, Zenon DEF Stays
  <2>4. f \in Early => p \in Early
    BY <1>1, Zenon DEF Early
  <2>5. p \in {"reserve"} \cup Early => f \in Early
    BY <1>1, Zenon DEF Early
  <2>6. p \in Early => folder'[c]["folder"] = "full" /\ begun'[c] = 0
    BY <1>0, <1>4, <1>8, <2>1, <2>5, Zenon
  <2>7. /\ p \in {"attempt", "exec"} => folder'[c]["request"] = "full"
        /\ p = "exec" => folder'[c]["attempt"] = "full"
        /\ p \in {"compare", "sealed"} => folder'[c]["exit"] = "full"
    <3> DEFINE Kept(g) == folder[c][g] = "full" \/ (f = g /\ p # f)
    <3>1. /\ p \in {"attempt", "exec"} => Kept("request")
          /\ p = "exec" => Kept("attempt")
          /\ p \in {"compare", "sealed"} => Kept("exit")
      <4>1. /\ p \in {"attempt", "exec"} => f = "attempt" \/ (f = "request" /\ p # f)
            /\ p = "exec" => f = "attempt" /\ p # f
            /\ p \in {"compare", "sealed"} => f = "sealed" \/ (f = "exit" /\ p # f)
        BY <1>1, Zenon
      <4> QED  BY <1>0, <4>1, Zenon
    <3>2. \A g \in {"request", "attempt", "exit"} : Kept(g) => folder'[c][g] = "full"
      BY <1>8, <2>1, <2>2, Zenon
    <3> HIDE DEF Kept
    <3> QED  BY <3>1, <3>2, Zenon
  <2>8. p \in {"sealed", "reply"} => Done(c)' /\ artifact'[c] = "full"
    <3>1. p \in {"sealed", "reply"} => f = "sealed"
      BY <1>1, Zenon
    <3> QED  BY <1>0, <1>4, <2>3, <3>1, Zenon
  <2>9. p \notin {"check", "read", "cross", "free"} /\ f # "free"
    BY <1>1, Zenon
  <2>10. p \in {"reserve"} \cup Early =>
          /\ script[s].op = "create" /\ Accepted(c)
          /\ script[s].id <= web.id
          /\ script[s].id = web.id => web.bound = TRUE
    BY <1>0, <2>5, Zenon
  <2>11. <<script[s].op, "submitted">> \in local'[c]
    BY <1>0, <1>4, Zenon
  <2> QED  BY <1>2, <1>4, <1>5, <2>6, <2>7, <2>8, <2>9, <2>10, <2>11, Zenon DEF ScriptInv, Accepted
<1>12. ASSUME NEW t \in Script \ {s}, script[t].pc \in Early, script'[s].pc \in Early
       PROVE  script[t].ctx # script'[s].ctx
  BY <1>1, <1>2, <1>5, <1>12, Zenon DEF IInv, Exclusive, Early, f
<1> QED  BY <1>3, <1>4, <1>6, <1>9, <1>10, <1>11, <1>12, Mover, Zenon

-----------------------------------------------------------------------------
(* The theorems.                                                           *)

\* Host scripts, whichever step they take.
LEMMA ScriptKeeps ==
  ASSUME IInv, NEW s \in Script, ScriptStep(s)
  PROVE  IInv'
BY AttestKeeps, ReserveKeeps, WriteNewKeeps, ExecKeeps, ExitedKeeps, CompareKeeps,
   CheckAttemptKeeps, ReadArtifactKeeps, CrossCheckKeeps, ReplyKeeps, AbortKeeps, Zenon DEF ScriptStep

\* The invariant holds at first.
LEMMA InitHolds == Init => IInv
BY SetupAssumption DEF Init, IInv, TypeOK, ContextInv, ScriptInv, Exclusive, Done, Early, NoScript,
   Op, File, Live

\* Every step and every stutter keeps the invariant.
LEMMA NextKeeps == IInv /\ [Next]_vars => IInv'
<1> SUFFICES ASSUME IInv, [Next]_vars PROVE IInv'
  BY Zenon
<1>1. CASE Next
  BY <1>1, CallerKeeps, CommandKeeps, ScriptKeeps, LaunchKeeps, ReplaceKeeps, RestartKeeps, Zenon DEF Next
<1>2. CASE UNCHANGED vars
  <2> USE <1>2 DEF vars, callerVars, hostVars, commandVars
  <2>1. TypeOK'
    BY Zenon DEF IInv, TypeOK
  <2>2. \A d \in Context : ContextInv(d)' /\ Stays(d)
    BY ZenonT(60) DEF IInv, ContextInv, Done, Stays
  <2> QED  BY <2>1, <2>2, Frame, Zenon DEF NewIdentity
<1> QED  BY <1>1, <1>2, Zenon

\* The invariant holds always.
THEOREM AlwaysIInv == Spec => []IInv
BY InitHolds, NextKeeps, PTL DEF Spec

\* operator_access is attempted at most once for a context, whatever is
\* delivered late, twice or after a restart (operator_setup_host.run).
THEOREM AttemptsOnce == Spec => []OneAttempt
<1>1. IInv => OneAttempt
  BY Zenon DEF IInv, ContextInv, OneAttempt
<1> QED  BY <1>1, AlwaysIInv, PTL

\* Before the account can change, the caller's checkpoint, the request and the
\* attempt record are durable (write_new before docker exec).
THEOREM AlwaysRecordedFirst == Spec => []RecordedFirst
<1>1. IInv => RecordedFirst
  BY ZenonT(60) DEF IInv, ContextInv, RecordedFirst
<1> QED  BY <1>1, AlwaysIInv, PTL

\* A confirmed create means an exit with 0, one commit and a whole artifact.
THEOREM ConfirmationsHold == Spec => []ConfirmedMeansDone
<1>1. IInv => ConfirmedMeansDone
  BY Zenon DEF IInv, ContextInv, ConfirmedMeansDone, Done
<1> QED  BY <1>1, AlwaysIInv, PTL

\* Every attempt is the only one of its context, recorded before it runs and
\* confirmed only when done (operator_setup_host.run and its caller).
THEOREM AttemptsAlwaysAccounted == Spec => []AttemptsAccounted
BY AttemptsOnce, AlwaysRecordedFirst, ConfirmationsHold, PTL DEF AttemptsAccounted

\* operator_access starts only in the bound container and for an accepted
\* request, even when the container is replaced after its attestation.
THEOREM StartsWhereAttested == Spec => RunsWhereAttested
<1>1. ASSUME IInv, [Next]_vars
      PROVE  [\A c \in Context : begun'[c] # begun[c] => web.bound /\ Accepted(c)]_vars
  <2>1. ASSUME NEW s \in Script, Exec(s), NEW c \in Context, begun'[c] # begun[c]
        PROVE  web.bound /\ Accepted(c)
    <3>1. c = script[s].ctx
      BY <1>1, <2>1, Zenon DEF Exec, IInv, TypeOK
    <3>2. ScriptInv(s) /\ script[s].pc = "exec" /\ script[s].id = web.id
      BY <1>1, <2>1, ZenonT(60) DEF Exec, IInv, Reached
    <3> QED  BY <3>1, <3>2, Zenon DEF ScriptInv, Early
  <2>2. CASE \E s \in Script : Exec(s)
    BY <2>1, <2>2, Zenon
  <2>3. CASE ~ \E s \in Script : Exec(s)
    <3>1. begun' = begun
      BY <1>1, <2>3, Zenon DEF Next, CallerStep, Submit, Unknown, Stop, Receive, CommandStep, ReserveOutput,
         Commit, WriteArtifact, Finish, Fail, ScriptStep, Attest, Reserve, WriteNew, Exited, Compare,
         CheckAttempt, ReadArtifact, CrossCheck, Reply, Abort, Launch, ReplaceWeb, Restart, vars, commandVars
    <3> QED  BY <3>1, Zenon
  <2> QED  BY <2>2, <2>3, Zenon
<1> QED  BY <1>1, AlwaysIInv, PTL DEF Spec, RunsWhereAttested

\* The transport implements the promise: at most one reset for a request, and
\* no delivery before it, for any loss, repetition, replacement or restart.
THEOREM KeepsPromiseAlways == Spec => KeepsPromise
<1>1. Init => Promise!Init
  BY Zenon DEF Init, Promise!Init
<1>2. ASSUME IInv, [Next]_vars PROVE [Promise!Next]_(Promise!vars)
  <2>1. ASSUME NEW c \in Context, Commit(c) PROVE Promise!Next
    <3>1. commits[c] = 0
      BY <1>2, <2>1, Zenon DEF Commit, IInv, ContextInv
    <3>2. commits[c] = 0 /\ commits' = [commits EXCEPT ![c] = 1] /\ UNCHANGED delivered
      BY <2>1, <3>1 DEF Commit, callerVars
    <3> QED  BY <3>2, Zenon DEF Promise!Next, Promise!Commit
  <2>2. ASSUME NEW c \in Context, Receive(c) PROVE Promise!Next
    <3>1. commits[c] = 1 /\ delivered' = delivered \cup {c} /\ UNCHANGED commits
      BY <1>2, <2>2, Zenon DEF Receive, IInv, ContextInv, TypeOK, commandVars
    <3> QED  BY <3>1, Zenon DEF Promise!Next, Promise!Deliver
  <2>3. CASE ~ \E c \in Context : Commit(c) \/ Receive(c)
    <3>1. UNCHANGED <<commits, delivered>>
      BY <1>2, <2>3, Zenon DEF Next, CallerStep, Submit, Unknown, Stop, CommandStep, ReserveOutput,
         WriteArtifact, Finish, Fail, ScriptStep, Attest, Reserve, WriteNew, Exec, Exited, Compare,
         CheckAttempt, ReadArtifact, CrossCheck, Reply, Abort, Launch, ReplaceWeb, Restart, vars,
         callerVars, commandVars
    <3> QED  BY <3>1, Zenon DEF Promise!vars
  <2> QED  BY <2>1, <2>2, <2>3, Zenon
<1> QED  BY <1>1, <1>2, AlwaysIInv, PTL DEF Spec, KeepsPromise, Promise!Spec

-----------------------------------------------------------------------------
(* The staging of fresh projects.                                          *)

\* The steps of a stager that has made its destination, and those in which its
\* initializer has been started.
Launched == {"initialize", "checks", "done", "inspect"}
Prepared == {"fill", "namespace", "dependencies", "wait", "launch"} \cup Launched

\* A stager has a project exactly when it has made its destination, no two share one,
\* and a destination nobody has made is empty.
PlaceInv ==
  /\ \A s \in Stager : stager[s].pc = "start" => stager[s].dest = Nil
  /\ \A s \in Stager : stager[s].pc # "start" => stager[s].dest \in Destination
  /\ \A s \in Stager : stager[s].pc \in {"start", "reserve"} => stager[s].project = Nil
  /\ \A s \in Stager : stager[s].pc \in Prepared => stager[s].project # Nil
  /\ \A s, t \in Stager : stager[s].project = stager[t].project /\ stager[s].project # Nil => s = t
  /\ \A d \in Destination, s \in Stager :
       owner[d] = s <=> stager[s].dest = d /\ stager[s].project # Nil
  /\ \A d \in Destination : owner[d] = Nil => staged[d] = {}

\* How far the project of a stager is: nothing runs before the volumes are its own.
StageInv(s) ==
  LET p == stager[s].project
  IN p # Nil =>
       /\ launches[p] = 0 \/ (launches[p] = 1 /\ backing[p] = {s})
       /\ stager[s].pc \in {"fill", "namespace", "dependencies", "wait", "launch"} => launches[p] = 0
       /\ stager[s].pc = "dependencies" => backing[p] = {}
       /\ stager[s].pc \in {"wait", "launch"} => backing[p] = {s}
       /\ stager[s].pc \in Launched => launches[p] = 1
       /\ stager[s].pc \in {"checks", "done"} => job[p] = "ok"
       /\ stager[s].pc = "failed" => job[p] # "running"
       /\ stager[s].pc \notin {"fill", "failed", "killed"} => "compose" \in staged[stager[s].dest]
       /\ stager[s].pc \in {"launch"} \cup Launched => "binding" \in staged[stager[s].dest]
       /\ "receipt" \in staged[stager[s].dest] => stager[s].pc = "done"

\* An initializer runs, or has run, only in the project of some stager.
JobInv ==
  \A p \in Project :
    /\ launches[p] = 0 => job[p] = "none" /\ p \notin complete
    /\ launches[p] > 0 => \E s \in Stager : stager[s].project = p
    /\ job[p] = "ok" => p \in complete

StagingInv ==
  StagingTypeOK /\ PlaceInv /\ JobInv /\ \A s \in Stager : StageInv(s)

StagerSteps ==
  {"done", "failed", "inspect", "killed", "start", "reserve", "fill", "namespace", "dependencies",
   "wait", "launch", "initialize", "checks"}

StagerState ==
  [pc : StagerSteps, dest : Destination \cup {Nil}, project : Project \cup {Nil}]

StagingTypes ==
  /\ stager \in [Stager -> StagerState]
  /\ staged \in [Destination -> SUBSET {"compose", "binding", "receipt"}]
  /\ owner \in [Destination -> Stager \cup {Nil}]
  /\ backing \in [Project -> SUBSET (Stager \cup {Old})]
  /\ job \in [Project -> {"none", "running", "ok", "failed"}]
  /\ launches \in [Project -> Nat]
  /\ complete \subseteq Project

\* The types of the state, with the steps spelt out.
LEMMA StagingTyped == StagingInv => StagingTypes
<1>1. StagerState = [pc : StageEnded \cup {"start", "reserve", "fill", "namespace", "dependencies",
                                              "wait", "launch", "initialize", "checks"},
                     dest : Destination \cup {Nil}, project : Project \cup {Nil}]
  BY Zenon DEF StagerState, StagerSteps, StageEnded
<1> QED
  BY <1>1, Zenon DEF StagingInv, StagingTypes, StagingTypeOK

\* The same, after a step.
LEMMA TypedStaging == StagingTypes' => StagingTypeOK'
<1>1. StagerState = [pc : StageEnded \cup {"start", "reserve", "fill", "namespace", "dependencies",
                                              "wait", "launch", "initialize", "checks"},
                     dest : Destination \cup {Nil}, project : Project \cup {Nil}]
  <2>1. StagerSteps = StageEnded \cup {"start", "reserve", "fill", "namespace", "dependencies",
                                       "wait", "launch", "initialize", "checks"}
    BY ZenonT(60) DEF StagerSteps, StageEnded
  <2> QED
    BY <2>1, Zenon DEF StagerState
<1> QED
  BY <1>1, Zenon DEF StagingTypes, StagingTypeOK

\* A stager that works has its place and its project in their sets.
LEMMA PlacedTypes ==
  ASSUME StagingInv, NEW s \in Stager
  PROVE  /\ stager[s].pc # "start" => stager[s].dest \in Destination
         /\ stager[s].pc \in Prepared => stager[s].project \in Project
BY StagingTyped DEF StagingInv, PlaceInv, StagingTypes, StagerState

\* Two stagers with projects have different projects and different destinations.
LEMMA OthersApart ==
  ASSUME StagingInv, NEW s \in Stager, NEW t \in Stager, s # t,
         stager[s].project # Nil, stager[t].project # Nil
  PROVE  stager[s].project # stager[t].project /\ stager[s].dest # stager[t].dest
BY StagingTyped, SMTT(60) DEF StagingInv, PlaceInv, StagingTypes, StagerState, Prepared

\* The project and the destination of a stager are as they were.
StageFrame(t) ==
  LET p == stager[t].project
  IN /\ launches'[p] = launches[p] /\ backing'[p] = backing[p] /\ job'[p] = job[p]
     /\ staged'[stager[t].dest] = staged[stager[t].dest]

\* What a step does elsewhere leaves a stager's own invariant.
LEMMA StageKept ==
  ASSUME NEW t \in Stager, StageInv(t), stager[t].project # Nil => StageFrame(t),
         stager'[t].pc = stager[t].pc, stager'[t].dest = stager[t].dest,
         stager'[t].project = stager[t].project
  PROVE  StageInv(t)'
BY Zenon DEF StageInv, StageFrame

\* A stager that found its destination absent has not made it yet.
LEMMA StagingCheck ==
  ASSUME StagingInv, NEW s \in Stager, NEW d \in Destination, CheckDestination(s, d)
  PROVE  StagingInv'
<1>1. /\ stager[s].pc = "start" /\ owner[d] = Nil
      /\ stager' = [stager EXCEPT ![s] = [@ EXCEPT !.pc = "reserve", !.dest = d]]
      /\ UNCHANGED <<staged, owner, backing, job, launches, complete>>
  BY Zenon DEF CheckDestination, StagerAt
<1>2. StagingTypes /\ PlaceInv /\ JobInv /\ StageInv(s)
  BY StagingTyped, Zenon DEF StagingInv
<1>3. stager[s].project = Nil
  BY <1>1, <1>2, PlacedTypes, Zenon DEF PlaceInv, Prepared, Launched
<1>4. StagingTypes'
  <2>0. stager[s] \in StagerState
    BY <1>2, Zenon DEF StagingTypes
  <2>1. stager' \in [Stager -> StagerState]
    <3>1. stager'[s] \in StagerState
      BY <1>1, <1>2, <2>0, Zenon DEF StagingTypes, StagerState, StagerSteps
    <3> QED
      BY <1>1, <1>2, <3>1, Zenon DEF StagingTypes
  <2> QED
    BY <1>1, <1>2, <1>3, <2>1, Zenon DEF StagingTypes
<1>5. \A t \in Stager :
        /\ stager'[t].pc = IF t = s THEN "reserve" ELSE stager[t].pc
        /\ stager'[t].dest = IF t = s THEN d ELSE stager[t].dest
        /\ stager'[t].project = stager[t].project
  BY <1>1, <1>2 DEF StagingTypes, StagerState
<1>6. PlaceInv'
  BY <1>1, <1>2, <1>3, <1>5, NobodyDistinct, SMTT(60) DEF PlaceInv, StagingTypes, Prepared, Launched
<1>7. ASSUME NEW t \in Stager, t # s PROVE StageInv(t)'
  <2>1. ASSUME stager[t].project # Nil PROVE StageFrame(t)
    BY <1>1, <1>2, <1>3, <1>7, <2>1, OthersApart, Zenon DEF StageFrame, StagingTypes
  <2> QED
    BY <1>5, <1>7, <2>1, StageKept, Zenon DEF StagingInv
<1>8. StageInv(s)'
  BY <1>1, <1>2, <1>3, <1>5, Zenon DEF StageInv, StagingTypes, Launched
<1>9. JobInv'
  BY <1>1, <1>2, <1>3, <1>5, NobodyDistinct, SMTT(60) DEF JobInv, StagingTypes
<1> QED
  BY <1>4, <1>6, <1>7, <1>8, <1>9, TypedStaging, Zenon DEF StagingInv

\* The exclusive mkdir gives the destination and a new project to one stager.
LEMMA StagingReserve ==
  ASSUME StagingInv, NEW s \in Stager, NEW p \in Project, ReserveDestination(s, p)
  PROVE  StagingInv'
<1>1. /\ stager[s].pc = "reserve" /\ owner[stager[s].dest] = Nil
      /\ \A t \in Stager : stager[t].project # p
      /\ owner' = [owner EXCEPT ![stager[s].dest] = s]
      /\ stager' = [stager EXCEPT ![s] = [@ EXCEPT !.pc = "fill", !.project = p]]
      /\ UNCHANGED <<staged, backing, job, launches, complete>>
  BY Zenon DEF ReserveDestination, StagerAt
<1>2. StagingTypes /\ PlaceInv /\ JobInv /\ StageInv(s)
  BY StagingTyped DEF StagingInv
<1>3. stager[s].dest \in Destination /\ stager[s].project = Nil
  BY <1>1, <1>2, PlacedTypes, Zenon DEF PlaceInv, Prepared, Launched
<1>4. StagingTypes'
  <2>0. stager[s] \in StagerState
    BY <1>2, Zenon DEF StagingTypes
  <2>1. stager' \in [Stager -> StagerState]
    <3>1. stager'[s] \in StagerState
      BY <1>1, <1>2, <2>0, Zenon DEF StagingTypes, StagerState, StagerSteps
    <3> QED
      BY <1>1, <1>2, <3>1, Zenon DEF StagingTypes
  <2> QED
    BY <1>1, <1>2, <1>3, <2>1, Zenon DEF StagingTypes
<1>5. \A t \in Stager :
        /\ stager'[t].pc = IF t = s THEN "fill" ELSE stager[t].pc
        /\ stager'[t].dest = stager[t].dest
        /\ stager'[t].project = IF t = s THEN p ELSE stager[t].project
  BY <1>1, <1>2 DEF StagingTypes, StagerState
<1>6. PlaceInv'
  BY <1>1, <1>2, <1>3, <1>5, NobodyDistinct, SMTT(60) DEF PlaceInv, StagingTypes, Prepared, Launched
<1>7. ASSUME NEW t \in Stager, t # s PROVE StageInv(t)'
  <2>1. ASSUME stager[t].project # Nil PROVE StageFrame(t)
    BY <1>1, <1>2, <1>3, <1>7, <2>1, OthersApart, Zenon DEF StageFrame, StagingTypes
  <2> QED
    BY <1>5, <1>7, <2>1, StageKept, Zenon DEF StagingInv
<1>8. StageInv(s)'
  BY <1>1, <1>2, <1>3, <1>5, NobodyDistinct DEF StageInv, StagingTypes, Launched, JobInv, PlaceInv
<1>9. JobInv'
  BY <1>1, <1>2, <1>3, <1>5, NobodyDistinct DEF JobInv, StagingTypes
<1> QED
  BY <1>4, <1>6, <1>7, <1>8, <1>9, TypedStaging DEF StagingInv

\* A step of one stager changes where that stager is.
LEMMA StagerStep ==
  ASSUME StagingInv, NEW s \in Stager, NEW step \in StagerSteps,
         stager' = [stager EXCEPT ![s].pc = step]
  PROVE  /\ stager' \in [Stager -> StagerState]
         /\ stager'[s].pc = step
         /\ \A t \in Stager : t # s => stager'[t] = stager[t]
         /\ \A t \in Stager : stager'[t].dest = stager[t].dest /\ stager'[t].project = stager[t].project
<1>1. stager \in [Stager -> StagerState] /\ stager[s] \in StagerState
  BY StagingTyped, Zenon DEF StagingTypes
<1>2. /\ [stager[s] EXCEPT !.pc = step] \in StagerState
      /\ [stager[s] EXCEPT !.pc = step].pc = step
      /\ [stager[s] EXCEPT !.pc = step].dest = stager[s].dest
      /\ [stager[s] EXCEPT !.pc = step].project = stager[s].project
  BY <1>1, Zenon DEF StagerState
<1> QED
  BY <1>1, <1>2, Zenon

\* A stager works in its own destination and its own project, so that a step of one
\* leaves the invariant of the others.
LEMMA StagerMoves ==
  ASSUME StagingInv, NEW s \in Stager, NEW step \in StagerSteps \ {"start", "reserve"},
         stager' = [stager EXCEPT ![s].pc = step],
         stager[s].pc # "start", step \in Prepared => stager[s].project # Nil,
         owner' = owner, complete' = complete,
         staged' \in [Destination -> SUBSET {"compose", "binding", "receipt"}],
         backing' \in [Project -> SUBSET (Stager \cup {Old})],
         job' \in [Project -> {"none", "running", "ok", "failed"}],
         launches' \in [Project -> Nat],
         stager[s].project = Nil => staged' = staged,
         \A d \in Destination : d # stager[s].dest => staged'[d] = staged[d],
         \A p \in Project : p # stager[s].project =>
           launches'[p] = launches[p] /\ backing'[p] = backing[p] /\ job'[p] = job[p],
         StageInv(s)', JobInv'
  PROVE  StagingInv'
<1>1. StagingTypes /\ PlaceInv
  BY StagingTyped, Zenon DEF StagingInv
<1>2. /\ stager' \in [Stager -> StagerState]
      /\ stager'[s].pc = step
      /\ \A t \in Stager : t # s => stager'[t] = stager[t]
      /\ \A t \in Stager : stager'[t].dest = stager[t].dest /\ stager'[t].project = stager[t].project
  BY StagerStep, ZenonT(60)
<1>3. StagingTypes'
  BY <1>1, <1>2, Zenon DEF StagingTypes
<1>4. \A d \in Destination : owner[d] = Nil => staged'[d] = staged[d]
  BY <1>1, NobodyDistinct DEF PlaceInv, StagingTypes, StagerState
<1>5. PlaceInv'
  BY <1>1, <1>2, <1>4 DEF PlaceInv
<1>6. ASSUME NEW t \in Stager, t # s PROVE StageInv(t)'
  <2>1. ASSUME stager[t].project # Nil PROVE StageFrame(t)
    <3>1. stager[t].project \in Project /\ stager[t].dest \in Destination
      BY <1>1, <2>1 DEF PlaceInv, StagingTypes, StagerState
    <3>2. stager[t].project # stager[s].project
      BY <1>6, <2>1, OthersApart, Zenon
    <3>3. stager[s].project # Nil => stager[t].dest # stager[s].dest
      BY <1>6, <2>1, OthersApart, Zenon
    <3> QED
      BY <3>1, <3>2, <3>3, Zenon DEF StageFrame
  <2> QED
    BY <1>2, <1>6, <2>1, StageKept, Zenon DEF StagingInv
<1> QED
  BY <1>3, <1>5, <1>6, TypedStaging, Zenon DEF StagingInv

\* What is known of a stager that has made its destination.
LEMMA StagerFacts ==
  ASSUME StagingInv, NEW s \in Stager
  PROVE  /\ StagingTypes /\ StageInv(s) /\ JobInv
         /\ stager[s].pc \in Prepared =>
              stager[s].dest \in Destination /\ stager[s].project \in Project /\ stager[s].project # Nil
<1>1. StagingTypes /\ StageInv(s) /\ JobInv /\ PlaceInv
  BY StagingTyped, Zenon DEF StagingInv
<1> QED
  BY <1>1, PlacedTypes, Zenon DEF PlaceInv, Prepared, Launched

\* What prepare writes goes into the destination the stager made.
LEMMA StagingFill ==
  ASSUME StagingInv, NEW s \in Stager, Fill(s)
  PROVE  StagingInv'
<1>1. /\ stager[s].pc = "fill"
      /\ stager' = [stager EXCEPT ![s].pc = "namespace"]
      /\ staged' = [staged EXCEPT ![stager[s].dest] = @ \cup {"compose"}]
      /\ UNCHANGED <<owner, backing, job, launches, complete>>
  BY Zenon DEF Fill, StagerAt, StagerGoto, Save
<1>2. /\ StagingTypes /\ StageInv(s) /\ JobInv
      /\ stager[s].dest \in Destination /\ stager[s].project \in Project /\ stager[s].project # Nil
  BY <1>1, StagerFacts, Zenon DEF Prepared, Launched
<1>3. "namespace" \in StagerSteps \ {"start", "reserve"}
  BY Zenon DEF StagerSteps
<1>4. /\ stager'[s].pc = "namespace"
      /\ \A t \in Stager : stager'[t].dest = stager[t].dest /\ stager'[t].project = stager[t].project
  BY <1>1, <1>3, StagerStep, Zenon
<1>5. /\ staged' \in [Destination -> SUBSET {"compose", "binding", "receipt"}]
      /\ backing' \in [Project -> SUBSET (Stager \cup {Old})]
      /\ job' \in [Project -> {"none", "running", "ok", "failed"}]
      /\ launches' \in [Project -> Nat]
      /\ \A d \in Destination : d # stager[s].dest => staged'[d] = staged[d]
      /\ \A p \in Project : p # stager[s].project =>
           launches'[p] = launches[p] /\ backing'[p] = backing[p] /\ job'[p] = job[p]
  BY <1>1, <1>2, Zenon DEF StagingTypes
<1>6. StageInv(s)'
  BY <1>1, <1>2, <1>4 DEF StageInv, Launched, JobInv, StagingTypes
<1>7. JobInv'
  BY <1>1, <1>2, <1>4 DEF JobInv, StagingTypes, StageInv, Launched
<1> QED
  BY <1>1, <1>2, <1>3, <1>5, <1>6, <1>7, StagerMoves, Zenon

\* A stager goes on only with a project that has no volumes.
LEMMA StagingNamespace ==
  ASSUME StagingInv, NEW s \in Stager, Namespace(s)
  PROVE  StagingInv'
<1>1. /\ stager[s].pc = "namespace"
      /\ stager' = [stager EXCEPT ![s].pc = "dependencies"]
      /\ backing[stager[s].project] = {}
      /\ UNCHANGED <<staged, owner, backing, job, launches, complete>>
  BY Zenon DEF Namespace, StagerAt, StagerGoto
<1>2. /\ StagingTypes /\ StageInv(s) /\ JobInv
      /\ stager[s].dest \in Destination /\ stager[s].project \in Project /\ stager[s].project # Nil
  BY <1>1, StagerFacts, Zenon DEF Prepared, Launched
<1>3. "dependencies" \in StagerSteps \ {"start", "reserve"}
  BY Zenon DEF StagerSteps
<1>4. /\ stager'[s].pc = "dependencies"
      /\ \A t \in Stager : stager'[t].dest = stager[t].dest /\ stager'[t].project = stager[t].project
  BY <1>1, <1>3, StagerStep, Zenon
<1>5. /\ staged' \in [Destination -> SUBSET {"compose", "binding", "receipt"}]
      /\ backing' \in [Project -> SUBSET (Stager \cup {Old})]
      /\ job' \in [Project -> {"none", "running", "ok", "failed"}]
      /\ launches' \in [Project -> Nat]
      /\ \A d \in Destination : d # stager[s].dest => staged'[d] = staged[d]
      /\ \A p \in Project : p # stager[s].project =>
           launches'[p] = launches[p] /\ backing'[p] = backing[p] /\ job'[p] = job[p]
  BY <1>1, <1>2, Zenon DEF StagingTypes
<1>6. StageInv(s)'
  BY <1>1, <1>2, <1>4, Zenon DEF StageInv, Launched, JobInv, StagingTypes
<1>7. JobInv'
  BY <1>1, <1>2, <1>4 DEF JobInv, StagingTypes, StageInv, Launched
<1> QED
  BY <1>1, <1>2, <1>3, <1>5, <1>6, <1>7, StagerMoves, Zenon

\* The volumes of the project are then its own.
LEMMA StagingDependencies ==
  ASSUME StagingInv, NEW s \in Stager, Dependencies(s)
  PROVE  StagingInv'
<1>1. /\ stager[s].pc = "dependencies"
      /\ stager' = [stager EXCEPT ![s].pc = "wait"]
      /\ backing' = [backing EXCEPT ![stager[s].project] = IF @ = {} THEN {s} ELSE @]
      /\ UNCHANGED <<staged, owner, job, launches, complete>>
  BY Zenon DEF Dependencies, StagerAt, StagerGoto
<1>2. /\ StagingTypes /\ StageInv(s) /\ JobInv
      /\ stager[s].dest \in Destination /\ stager[s].project \in Project /\ stager[s].project # Nil
  BY <1>1, StagerFacts, Zenon DEF Prepared, Launched
<1>3. "wait" \in StagerSteps \ {"start", "reserve"}
  BY Zenon DEF StagerSteps
<1>4. /\ stager'[s].pc = "wait"
      /\ \A t \in Stager : stager'[t].dest = stager[t].dest /\ stager'[t].project = stager[t].project
  BY <1>1, <1>3, StagerStep, Zenon
<1>5. /\ staged' \in [Destination -> SUBSET {"compose", "binding", "receipt"}]
      /\ backing' \in [Project -> SUBSET (Stager \cup {Old})]
      /\ job' \in [Project -> {"none", "running", "ok", "failed"}]
      /\ launches' \in [Project -> Nat]
      /\ \A d \in Destination : d # stager[s].dest => staged'[d] = staged[d]
      /\ \A p \in Project : p # stager[s].project =>
           launches'[p] = launches[p] /\ backing'[p] = backing[p] /\ job'[p] = job[p]
  BY <1>1, <1>2, Zenon DEF StagingTypes
<1>6. StageInv(s)'
  BY <1>1, <1>2, <1>4 DEF StageInv, Launched, JobInv, StagingTypes
<1>7. JobInv'
  BY <1>1, <1>2, <1>4 DEF JobInv, StagingTypes, StageInv, Launched
<1> QED
  BY <1>1, <1>2, <1>3, <1>5, <1>6, <1>7, StagerMoves, Zenon

\* The binding is retained before the initializer is launched.
LEMMA StagingBind ==
  ASSUME StagingInv, NEW s \in Stager, Bind(s)
  PROVE  StagingInv'
<1>1. /\ stager[s].pc = "wait"
      /\ stager' = [stager EXCEPT ![s].pc = "launch"]
      /\ staged' = [staged EXCEPT ![stager[s].dest] = @ \cup {"binding"}]
      /\ UNCHANGED <<owner, backing, job, launches, complete>>
  BY Zenon DEF Bind, StagerAt, StagerGoto, Save
<1>2. /\ StagingTypes /\ StageInv(s) /\ JobInv
      /\ stager[s].dest \in Destination /\ stager[s].project \in Project /\ stager[s].project # Nil
  BY <1>1, StagerFacts, Zenon DEF Prepared, Launched
<1>3. "launch" \in StagerSteps \ {"start", "reserve"}
  BY Zenon DEF StagerSteps
<1>4. /\ stager'[s].pc = "launch"
      /\ \A t \in Stager : stager'[t].dest = stager[t].dest /\ stager'[t].project = stager[t].project
  BY <1>1, <1>3, StagerStep, Zenon
<1>5. /\ staged' \in [Destination -> SUBSET {"compose", "binding", "receipt"}]
      /\ backing' \in [Project -> SUBSET (Stager \cup {Old})]
      /\ job' \in [Project -> {"none", "running", "ok", "failed"}]
      /\ launches' \in [Project -> Nat]
      /\ \A d \in Destination : d # stager[s].dest => staged'[d] = staged[d]
      /\ \A p \in Project : p # stager[s].project =>
           launches'[p] = launches[p] /\ backing'[p] = backing[p] /\ job'[p] = job[p]
  BY <1>1, <1>2, Zenon DEF StagingTypes
<1>6. StageInv(s)'
  BY <1>1, <1>2, <1>4, SMTT(60) DEF StageInv, Launched, JobInv, StagingTypes
<1>7. JobInv'
  BY <1>1, <1>2, <1>4 DEF JobInv, StagingTypes, StageInv, Launched
<1> QED
  BY <1>1, <1>2, <1>3, <1>5, <1>6, <1>7, StagerMoves, Zenon

\* The initializer is launched once, over the volumes of its stager.
LEMMA StagingLaunch ==
  ASSUME StagingInv, NEW s \in Stager, LaunchInitializer(s)
  PROVE  StagingInv'
<1>1. /\ stager[s].pc = "launch"
      /\ stager' = [stager EXCEPT ![s].pc = "initialize"]
      /\ job' = [job EXCEPT ![stager[s].project] = "running"]
      /\ launches' = [launches EXCEPT ![stager[s].project] = @ + 1]
      /\ UNCHANGED <<staged, owner, backing, complete>>
  BY Zenon DEF LaunchInitializer, StagerAt, StagerGoto
<1>2. /\ StagingTypes /\ StageInv(s) /\ JobInv
      /\ stager[s].dest \in Destination /\ stager[s].project \in Project /\ stager[s].project # Nil
  BY <1>1, StagerFacts, Zenon DEF Prepared, Launched
<1>3. "initialize" \in StagerSteps \ {"start", "reserve"}
  BY Zenon DEF StagerSteps
<1>4. /\ stager'[s].pc = "initialize"
      /\ \A t \in Stager : stager'[t].dest = stager[t].dest /\ stager'[t].project = stager[t].project
  BY <1>1, <1>3, StagerStep, Zenon
<1>5. /\ staged' \in [Destination -> SUBSET {"compose", "binding", "receipt"}]
      /\ backing' \in [Project -> SUBSET (Stager \cup {Old})]
      /\ job' \in [Project -> {"none", "running", "ok", "failed"}]
      /\ launches' \in [Project -> Nat]
      /\ \A d \in Destination : d # stager[s].dest => staged'[d] = staged[d]
      /\ \A p \in Project : p # stager[s].project =>
           launches'[p] = launches[p] /\ backing'[p] = backing[p] /\ job'[p] = job[p]
  BY <1>1, <1>2 DEF StagingTypes
<1>6. StageInv(s)'
  BY <1>1, <1>2, <1>4 DEF StageInv, Launched, JobInv, StagingTypes
<1>7. JobInv'
  BY <1>1, <1>2, <1>4 DEF JobInv, StagingTypes, StageInv, Launched
<1> QED
  BY <1>1, <1>2, <1>3, <1>5, <1>6, <1>7, StagerMoves, Zenon

\* The stager goes on with an initializer that has ended and left its receipt.
LEMMA StagingInitialized ==
  ASSUME StagingInv, NEW s \in Stager, Initialized(s)
  PROVE  StagingInv'
<1>1. /\ stager[s].pc = "initialize"
      /\ stager' = [stager EXCEPT ![s].pc = "checks"]
      /\ job[stager[s].project] = "ok"
      /\ UNCHANGED <<staged, owner, backing, job, launches, complete>>
  BY Zenon DEF Initialized, StagerAt, StagerGoto
<1>2. /\ StagingTypes /\ StageInv(s) /\ JobInv
      /\ stager[s].dest \in Destination /\ stager[s].project \in Project /\ stager[s].project # Nil
  BY <1>1, StagerFacts, Zenon DEF Prepared, Launched
<1>3. "checks" \in StagerSteps \ {"start", "reserve"}
  BY Zenon DEF StagerSteps
<1>4. /\ stager'[s].pc = "checks"
      /\ \A t \in Stager : stager'[t].dest = stager[t].dest /\ stager'[t].project = stager[t].project
  BY <1>1, <1>3, StagerStep, ZenonT(60)
<1>5. /\ staged' \in [Destination -> SUBSET {"compose", "binding", "receipt"}]
      /\ backing' \in [Project -> SUBSET (Stager \cup {Old})]
      /\ job' \in [Project -> {"none", "running", "ok", "failed"}]
      /\ launches' \in [Project -> Nat]
      /\ \A d \in Destination : d # stager[s].dest => staged'[d] = staged[d]
      /\ \A p \in Project : p # stager[s].project =>
           launches'[p] = launches[p] /\ backing'[p] = backing[p] /\ job'[p] = job[p]
  BY <1>1, <1>2, Zenon DEF StagingTypes
<1>6. StageInv(s)'
  BY <1>1, <1>2, <1>4, Zenon DEF StageInv, Launched, JobInv, StagingTypes
<1>7. JobInv'
  BY <1>1, <1>2, <1>4 DEF JobInv, StagingTypes, StageInv, Launched
<1> QED
  BY <1>1, <1>2, <1>3, <1>5, <1>6, <1>7, StagerMoves, Zenon

\* The receipt is the last file.
LEMMA StagingReceipt ==
  ASSUME StagingInv, NEW s \in Stager, Receipt(s)
  PROVE  StagingInv'
<1>1. /\ stager[s].pc = "checks"
      /\ stager' = [stager EXCEPT ![s].pc = "done"]
      /\ staged' = [staged EXCEPT ![stager[s].dest] = @ \cup {"receipt"}]
      /\ UNCHANGED <<owner, backing, job, launches, complete>>
  BY Zenon DEF Receipt, StagerAt, StagerGoto, Save
<1>2. /\ StagingTypes /\ StageInv(s) /\ JobInv
      /\ stager[s].dest \in Destination /\ stager[s].project \in Project /\ stager[s].project # Nil
  BY <1>1, StagerFacts, Zenon DEF Prepared, Launched
<1>3. "done" \in StagerSteps \ {"start", "reserve"}
  BY Zenon DEF StagerSteps
<1>4. /\ stager'[s].pc = "done"
      /\ \A t \in Stager : stager'[t].dest = stager[t].dest /\ stager'[t].project = stager[t].project
  BY <1>1, <1>3, StagerStep, Zenon
<1>5. /\ staged' \in [Destination -> SUBSET {"compose", "binding", "receipt"}]
      /\ backing' \in [Project -> SUBSET (Stager \cup {Old})]
      /\ job' \in [Project -> {"none", "running", "ok", "failed"}]
      /\ launches' \in [Project -> Nat]
      /\ \A d \in Destination : d # stager[s].dest => staged'[d] = staged[d]
      /\ \A p \in Project : p # stager[s].project =>
           launches'[p] = launches[p] /\ backing'[p] = backing[p] /\ job'[p] = job[p]
  BY <1>1, <1>2, Zenon DEF StagingTypes
<1>6. StageInv(s)'
  BY <1>1, <1>2, <1>4, SMTT(60) DEF StageInv, Launched, JobInv, StagingTypes
<1>7. JobInv'
  BY <1>1, <1>2, <1>4 DEF JobInv, StagingTypes, StageInv, Launched
<1> QED
  BY <1>1, <1>2, <1>3, <1>5, <1>6, <1>7, StagerMoves, Zenon

\* A refusal leaves everything as it was; no initializer runs then.
LEMMA StagingRefuse ==
  ASSUME StagingInv, NEW s \in Stager, Refuse(s)
  PROVE  StagingInv'
<1>1. /\ stager' = [stager EXCEPT ![s].pc = "failed"]
      /\ UNCHANGED <<staged, owner, backing, job, launches, complete>>
  BY Zenon DEF Refuse, StagerGoto
<1>2. StagingTypes /\ StageInv(s) /\ JobInv /\ PlaceInv
  BY StagingTyped, Zenon DEF StagingInv
<1>3. /\ stager[s].pc \in {"reserve", "fill", "namespace", "dependencies", "wait", "launch", "checks"}
      /\ stager[s].project \in Project \cup {Nil}
  BY <1>2, Zenon DEF Refuse, StageEnded, StagingTypes, StagerState, StagerSteps
<1>4. "failed" \in StagerSteps \ {"start", "reserve"}
  BY Zenon DEF StagerSteps
<1>5. /\ stager'[s].pc = "failed"
      /\ \A t \in Stager : stager'[t].dest = stager[t].dest /\ stager'[t].project = stager[t].project
  BY <1>1, <1>4, StagerStep, Zenon
<1>6. StageInv(s)'
  BY <1>1, <1>2, <1>3, <1>5, Zenon DEF StageInv, Launched, JobInv, PlaceInv
<1>7. JobInv'
  BY <1>1, <1>2, <1>5, SMTT(60) DEF JobInv
<1>8. stager[s].pc # "start" /\ "failed" \notin Prepared
  BY <1>3, Zenon DEF Prepared, Launched
<1> QED
  BY <1>1, <1>2, <1>4, <1>6, <1>7, <1>8, StagerMoves, Zenon DEF StagingTypes

\* A killed stager leaves everything as it was.
LEMMA StagingKill ==
  ASSUME StagingInv, NEW s \in Stager, Kill(s)
  PROVE  StagingInv'
<1>1. /\ stager' = [stager EXCEPT ![s].pc = "killed"]
      /\ UNCHANGED <<staged, owner, backing, job, launches, complete>>
  BY Zenon DEF Kill, StagerGoto
<1>2. StagingTypes /\ StageInv(s) /\ JobInv /\ PlaceInv
  BY StagingTyped DEF StagingInv
<1>3. /\ stager[s].pc \in {"reserve", "fill", "namespace", "dependencies", "wait", "launch", "initialize", "checks"}
      /\ stager[s].project \in Project \cup {Nil}
  BY <1>2, Zenon DEF Kill, StageEnded, StagingTypes, StagerState, StagerSteps
<1>4. "killed" \in StagerSteps \ {"start", "reserve"}
  BY Zenon DEF StagerSteps
<1>5. /\ stager'[s].pc = "killed"
      /\ \A t \in Stager : stager'[t].dest = stager[t].dest /\ stager'[t].project = stager[t].project
  BY <1>1, <1>4, StagerStep, Zenon
<1>6. StageInv(s)'
  BY <1>1, <1>2, <1>3, <1>5, Zenon DEF StageInv, Launched, JobInv, PlaceInv
<1>7. JobInv'
  BY <1>1, <1>2, <1>5 DEF JobInv
<1>8. stager[s].pc # "start" /\ "killed" \notin Prepared
  BY <1>3, Zenon DEF Prepared, Launched
<1> QED
  BY <1>1, <1>2, <1>4, <1>6, <1>7, <1>8, StagerMoves, Zenon DEF StagingTypes

\* A stager that sees its initializer fail stops it.
LEMMA StagingStopped ==
  ASSUME StagingInv, NEW s \in Stager, stager[s].pc = "initialize",
         NEW step \in {"failed", "inspect"}, stager' = [stager EXCEPT ![s].pc = step],
         step = "failed" => job' = [job EXCEPT ![stager[s].project] = IF @ = "running" THEN "failed" ELSE @],
         step = "inspect" => job' = job,
         UNCHANGED <<staged, owner, backing, launches, complete>>
  PROVE  StagingInv'
<1>1. /\ StagingTypes /\ StageInv(s) /\ JobInv
      /\ stager[s].dest \in Destination /\ stager[s].project \in Project /\ stager[s].project # Nil
  BY StagerFacts, Zenon DEF Prepared, Launched
<1>2. step \in StagerSteps \ {"start", "reserve"}
  BY Zenon DEF StagerSteps
<1>3. /\ stager'[s].pc = step
      /\ \A t \in Stager : stager'[t].dest = stager[t].dest /\ stager'[t].project = stager[t].project
  BY <1>2, StagerStep, Zenon
<1>4. /\ job' \in [Project -> {"none", "running", "ok", "failed"}]
      /\ \A q \in Project : q # stager[s].project => job'[q] = job[q]
      /\ job'[stager[s].project] = "ok" => job[stager[s].project] = "ok"
      /\ step = "failed" => job'[stager[s].project] # "running"
  BY <1>1, Zenon DEF StagingTypes
<1>5. launches[stager[s].project] = 1
  BY <1>1, Zenon DEF StageInv, Launched
<1>6. StageInv(s)'
  BY <1>1, <1>3, <1>4, <1>5, Zenon DEF StageInv, Launched
<1>7. JobInv'
  BY <1>1, <1>3, <1>4, <1>5, SMTT(60) DEF JobInv
<1> QED
  BY <1>1, <1>2, <1>4, <1>6, <1>7, StagerMoves, Zenon DEF StagingTypes

\* Or leaves it for inspection.
LEMMA StagingNotInitialized ==
  ASSUME StagingInv, NEW s \in Stager, NotInitialized(s)
  PROVE  StagingInv'
BY StagingStopped, Zenon DEF NotInitialized, StagerAt, StagerGoto

\* What the initializer does, as long as it runs, after its stager too.
LEMMA StagingJobStep ==
  ASSUME StagingInv, NEW p \in Project, job[p] = "running",
         UNCHANGED <<stager, staged, owner, backing, launches>>,
         \/ job' = job /\ complete' = complete \cup {p}
         \/ p \in complete /\ job' = [job EXCEPT ![p] = "ok"] /\ complete' = complete
         \/ job' = [job EXCEPT ![p] = "failed"] /\ complete' = complete
  PROVE  StagingInv'
<1>2. StagingTypes /\ PlaceInv /\ JobInv
  BY StagingTyped, Zenon DEF StagingInv
<1>3. /\ job' \in [Project -> {"none", "running", "ok", "failed"}]
      /\ \A q \in Project : q # p => job'[q] = job[q]
      /\ complete \subseteq complete' /\ complete' \subseteq complete \cup {p}
      /\ job'[p] = "ok" => p \in complete'
  BY <1>2, Zenon DEF StagingTypes
<1>4. StagingTypes'
  BY <1>2, <1>3, Zenon DEF StagingTypes
<1>5. PlaceInv'
  BY <1>2, SMTT(60) DEF PlaceInv
<1>6. ASSUME NEW t \in Stager PROVE StageInv(t)'
  <2>1. StageInv(t) /\ (stager[t].project # Nil => stager[t].project \in Project)
    BY <1>2, Zenon DEF StagingInv, StagingTypes, StagerState
  <2>2. CASE stager[t].project = p
    BY <2>1, <2>2, Zenon DEF StageInv
  <2>3. CASE stager[t].project # p
    <3>1. stager[t].project # Nil => StageFrame(t)
      BY <1>3, <2>1, <2>3, Zenon DEF StageFrame
    <3> QED
      BY <2>1, <3>1, StageKept, Zenon
  <2> QED
    BY <2>2, <2>3, Zenon
<1>7. JobInv'
  <2>1. launches[p] # 0
    BY <1>2, Zenon DEF JobInv
  <2> QED
    BY <1>2, <1>3, <2>1, Zenon DEF JobInv
<1> QED
  BY <1>4, <1>5, <1>6, <1>7, TypedStaging, Zenon DEF StagingInv

\* It writes its receipt and ends.
LEMMA StagingJob ==
  ASSUME StagingInv, NEW p \in Project, InitializerWrites(p) \/ InitializerEnds(p)
  PROVE  StagingInv'
BY StagingJobStep, Zenon DEF InitializerWrites, InitializerEnds

\* Nothing changes.
LEMMA StagingStutter ==
  ASSUME StagingInv, UNCHANGED <<stager, staged, owner, backing, job, launches, complete>>
  PROVE  StagingInv'
<1>1. StagingTypes'
  BY StagingTyped, Zenon DEF StagingTypes
<1>2. PlaceInv' /\ JobInv'
  BY SMTT(60) DEF StagingInv, PlaceInv, JobInv
<1>3. \A s \in Stager : StageInv(s)'
  BY ZenonT(60) DEF StagingInv, StageInv
<1> QED
  BY <1>1, <1>2, <1>3, TypedStaging, Zenon DEF StagingInv

\* The inductive invariant of staging.
THEOREM StagingInvariant == StagingSpec => []StagingInv
<1>1. StagingInit => StagingInv
  <2> SUFFICES ASSUME StagingInit PROVE StagingInv
    BY Zenon
  <2>1. StagingTypeOK
    BY Zenon DEF StagingInit, StagingTypeOK, NoStager
  <2>2. /\ \A s \in Stager : stager[s].pc = "start" /\ stager[s].dest = Nil /\ stager[s].project = Nil
        /\ \A d \in Destination : owner[d] = Nil /\ staged[d] = {}
        /\ \A p \in Project : job[p] = "none" /\ launches[p] = 0
        /\ complete = {}
    BY Zenon DEF StagingInit, NoStager
  <2>3. PlaceInv
    BY <2>2, NobodyDistinct, Zenon DEF PlaceInv, Prepared, Launched
  <2>4. JobInv /\ \A s \in Stager : StageInv(s)
    BY <2>2 DEF JobInv, StageInv
  <2> QED
    BY <2>1, <2>3, <2>4, Zenon DEF StagingInv
<1>2. StagingInv /\ [StagingNext]_(stagingVars) => StagingInv'
  <2> SUFFICES ASSUME StagingInv, [StagingNext]_(stagingVars) PROVE StagingInv'
    OBVIOUS
  <2>1. ASSUME NEW s \in Stager, NEW d \in Destination, CheckDestination(s, d) PROVE StagingInv'
    BY <2>1, StagingCheck, Zenon
  <2>2. ASSUME NEW s \in Stager, NEW p \in Project, ReserveDestination(s, p) PROVE StagingInv'
    BY <2>2, StagingReserve, Zenon
  <2>3. ASSUME NEW s \in Stager,
               \/ Fill(s) \/ Namespace(s) \/ Dependencies(s)
               \/ Bind(s) \/ LaunchInitializer(s)
        PROVE  StagingInv'
    BY <2>3, StagingFill, StagingNamespace, StagingDependencies, StagingBind, StagingLaunch, Zenon
  <2>4. ASSUME NEW s \in Stager,
               \/ Initialized(s) \/ NotInitialized(s) \/ Receipt(s)
               \/ Refuse(s) \/ Kill(s)
        PROVE  StagingInv'
    BY <2>4, StagingInitialized, StagingNotInitialized, StagingReceipt, StagingRefuse, StagingKill, Zenon
  <2>5. ASSUME NEW p \in Project, InitializerWrites(p) \/ InitializerEnds(p) PROVE StagingInv'
    BY <2>5, StagingJob, Zenon
  <2>6. CASE UNCHANGED stagingVars
    <3>1. UNCHANGED <<stager, staged, owner, backing, job, launches, complete>>
      BY <2>6, Zenon DEF stagingVars
    <3> QED
      BY <3>1, StagingStutter, Zenon
  <2> QED
    BY <2>1, <2>2, <2>3, <2>4, <2>5, <2>6, Zenon DEF StagingNext
<1> QED
  BY <1>1, <1>2, PTL DEF StagingSpec

\* Two stagers never work in one destination, and the initializer runs once, over
\* volumes its own stager created (the namespace inventory of stage and prepare's mkdir).
THEOREM AlwaysInitializesOwnData == StagingSpec => []InitializesOwnData
<1>1. StagingInv => InitializesOwnData
  <2> SUFFICES ASSUME StagingInv PROVE InitializesOwnData
    BY Zenon
  <2>1. StagingTypes /\ PlaceInv /\ JobInv /\ \A s \in Stager : StageInv(s)
    BY StagingTyped, Zenon DEF StagingInv
  <2>2. OneStagerPerDestination
    BY <2>1, Zenon DEF OneStagerPerDestination, PlaceInv
  <2>3. ASSUME NEW p \in Project, launches[p] > 0
        PROVE  launches[p] = 1 /\ \E s \in Stager : backing[p] = {s} /\ stager[s].project = p
    <3>1. PICK s \in Stager : stager[s].project = p
      BY <2>1, <2>3, Zenon DEF JobInv
    <3>2. stager[s].project # Nil
      BY <3>1, NobodyDistinct, Zenon
    <3>3. launches[p] = 0 \/ (launches[p] = 1 /\ backing[p] = {s})
      BY <2>1, <3>1, <3>2, Zenon DEF StageInv
    <3> QED
      BY <2>3, <3>1, <3>3
  <2> QED
    BY <2>2, <2>3, Zenon DEF InitializesOwnData, InitializesOnce
<1> QED
  BY <1>1, StagingInvariant, PTL

\* With a receipt the initializer has finished; with a failure no initializer is left
\* running, unless the stage was killed or could not identify or stop the container.
THEOREM StageAlwaysReportsTrue == StagingSpec => []StageReportsTrue
<1>1. StagingInv => StageReportsTrue
  <2> SUFFICES ASSUME StagingInv PROVE StageReportsTrue
    OBVIOUS
  <2>1. StagingTypes /\ PlaceInv /\ JobInv /\ \A s \in Stager : StageInv(s)
    BY StagingTyped DEF StagingInv
  <2>2. FailureContained
    BY <2>1, Zenon DEF FailureContained, StagerAt, StageInv
  <2>3. ASSUME NEW s \in Stager,
               \/ stager[s].pc = "done"
               \/ /\ stager[s].dest # Nil /\ owner[stager[s].dest] = s
                  /\ "receipt" \in staged[stager[s].dest]
        PROVE  /\ job[stager[s].project] = "ok" /\ stager[s].project \in complete
               /\ {"compose", "binding"} \subseteq staged[stager[s].dest]
    <3>1. stager[s].project # Nil /\ stager[s].project \in Project
      BY <2>1, <2>3, SMTT(60) DEF PlaceInv, Prepared, Launched, StagingTypes, StagerState
    <3>2. stager[s].pc = "done"
      BY <2>1, <2>3, <3>1, Zenon DEF StageInv
    <3> QED
      BY <2>1, <3>1, <3>2, Zenon DEF StageInv, JobInv, Launched
  <2> QED
    BY <2>2, <2>3, Zenon DEF StageReportsTrue, ReceiptMeansInitialized, StagerAt, MyFiles
<1> QED
  BY <1>1, StagingInvariant, PTL
=============================================================================
