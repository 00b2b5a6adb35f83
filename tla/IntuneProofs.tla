---------------------------- MODULE IntuneProofs ----------------------------
(***************************************************************************)
(* For any number of runs, at once or not, any number of kills and any     *)
(* number of profiles: what the pilot device is required to install is     *)
(* installable (IntunePackage), a refused run of the profiles has changed  *)
(* nothing, and a run touches only its own profiles (IntuneProfiles).      *)
(* With one run at a time, receipts are exact and complete.                *)
(***************************************************************************)
EXTENDS IntunePackage, IntuneProfiles, TLAPS

\* A sequence with one element replaced, and with one more.
LEMMA Replaced ==
  ASSUME NEW S, NEW s \in Seq(S), NEW i \in 1 .. Len(s), NEW e \in S
  PROVE  [s EXCEPT ![i] = e] \in Seq(S) /\ Len([s EXCEPT ![i] = e]) = Len(s)
OBVIOUS

LEMMA Appended ==
  ASSUME NEW S, NEW s \in Seq(S), NEW e \in S
  PROVE  /\ Append(s, e) \in Seq(S) /\ Len(Append(s, e)) = Len(s) + 1
         /\ \A i \in 1 .. Len(s) : Append(s, e)[i] = s[i]
         /\ Append(s, e)[Len(s) + 1] = e
OBVIOUS

-----------------------------------------------------------------------------

AppRecord == [owned : BOOLEAN, contents : Nat, committed : Nat, published : BOOLEAN,
              pilot : Nat, other : BOOLEAN]
FileRecord == [app : Nat, content : Nat,
               state : {"none", "pending", "ready", "sent", "committing", "committed", "failed"}]

\* The file that Intune has accepted for the app's committed content version.
Accepted(a) ==
  \E q \in Run : /\ file[q].app = a /\ file[q].content = apps[a].committed
                 /\ file[q].state = "committed"

AppInv(a) ==
  /\ apps[a].committed # 0 => Accepted(a) /\ apps[a].owned = TRUE
  /\ apps[a].published = TRUE => apps[a].committed # 0
  /\ apps[a].pilot > 0 => apps[a].owned = TRUE /\ apps[a].published = TRUE

\* Where a run has no file yet, where it has taken its app, where it has a file,
\* and where its file is accepted.
Before == {"new", "look", "create", "app", "exact", "verify", "unassigned", "contents", "content",
           "nofiles", "file"}
Accepting == {"patch", "publish", "assign", "readback"}
Filed == {"uri", "send", "commit", "wait"} \cup Accepting
Numbered == {"nofiles", "file"} \cup Filed
Taken == {"exact", "verify", "unassigned", "contents", "content"} \cup Numbered

RunInv(r) ==
  /\ run[r].pc \in Before => file[r] = NoFile
  /\ run[r].pc \in Taken \cup {"app"} => run[r].app \in DOMAIN apps
  /\ run[r].pc \in Taken => apps[run[r].app].owned = TRUE
  /\ run[r].pc \in Numbered => run[r].content # 0
  /\ run[r].pc \in Filed => file[r].app = run[r].app /\ file[r].content = run[r].content
  /\ run[r].pc = "send" => file[r].state = "ready"
  /\ run[r].pc = "commit" => file[r].state = "sent"
  /\ run[r].pc \in Accepting => file[r].state = "committed"
  /\ run[r].pc \in {"assign", "readback"} => apps[run[r].app].published = TRUE

Typed ==
  /\ apps \in Seq(AppRecord)
  /\ file \in [Run -> FileRecord]
  /\ run \in [Run -> [pc : Steps, app : Nat, content : Nat]]

IInv ==
  /\ Typed
  /\ \A r \in Run : RunInv(r)
  /\ \A a \in DOMAIN apps : AppInv(a)

\* Apps are never removed, change hands or are withdrawn, and an accepted file stays.
Grows ==
  /\ DOMAIN apps \subseteq DOMAIN apps'
  /\ \A a \in DOMAIN apps : /\ apps'[a].owned = apps[a].owned
                            /\ apps[a].published = TRUE => apps'[a].published = TRUE
Kept == \A q \in Run : file[q].state = "committed" => file'[q] = file[q]

-----------------------------------------------------------------------------

\* A run that a step leaves alone keeps its facts while apps only grow.
LEMMA RunFrame ==
  ASSUME NEW r \in Run, RunInv(r), Grows, run'[r] = run[r], file'[r] = file[r]
  PROVE  RunInv(r)'
BY Zenon DEF RunInv, Grows, Before, Accepting, Filed, Numbered, Taken

\* An app that a step leaves alone keeps its facts while accepted files stay.
LEMMA AppFrame ==
  ASSUME NEW a \in DOMAIN apps, AppInv(a), Kept, apps'[a] = apps[a]
  PROVE  AppInv(a)'
BY Zenon DEF AppInv, Accepted, Kept

\* A step that changes no app and no file, and moves one run.
LEMMA MoveKeeps ==
  ASSUME IInv, NEW r \in Run, NEW new \in [pc : Steps, app : Nat, content : Nat],
         run' = [run EXCEPT ![r] = new], UNCHANGED <<apps, file>>, RunInv(r)'
  PROVE  IInv'
<1>1. Grows /\ Kept
  BY Zenon DEF Grows, Kept
<1>2. Typed'
  BY Zenon DEF IInv, Typed
<1>3. \A q \in Run : RunInv(q)'
  <2>. SUFFICES ASSUME NEW q \in Run, q # r PROVE RunInv(q)'
    BY Zenon
  <2>. QED BY <1>1, RunFrame, Zenon DEF IInv, Typed
<1>4. \A a \in DOMAIN apps' : AppInv(a)'
  BY <1>1, AppFrame, Zenon DEF IInv
<1>. QED BY <1>2, <1>3, <1>4, Zenon DEF IInv

\* A step that changes one run and its file, but no accepted one.
LEMMA FileKeeps ==
  ASSUME IInv, NEW r \in Run, NEW new \in [pc : Steps, app : Nat, content : Nat],
         NEW f \in FileRecord, file[r].state # "committed",
         run' = [run EXCEPT ![r] = new], file' = [file EXCEPT ![r] = f],
         UNCHANGED apps, RunInv(r)'
  PROVE  IInv'
<1>1. Grows /\ Kept
  BY Zenon DEF Grows, Kept, IInv, Typed
<1>2. Typed'
  BY Zenon DEF IInv, Typed
<1>3. \A q \in Run : RunInv(q)'
  <2>. SUFFICES ASSUME NEW q \in Run, q # r PROVE RunInv(q)'
    BY Zenon
  <2>. QED BY <1>1, RunFrame, Zenon DEF IInv, Typed
<1>4. \A a \in DOMAIN apps' : AppInv(a)'
  BY <1>1, AppFrame, Zenon DEF IInv
<1>. QED BY <1>2, <1>3, <1>4, Zenon DEF IInv

\* A step that changes one app, and perhaps moves one run.
LEMMA AppKeeps ==
  ASSUME IInv, run' \in [Run -> [pc : Steps, app : Nat, content : Nat]],
         \A q \in Run : run'[q] = run[q] \/ RunInv(q)',
         NEW a \in DOMAIN apps, NEW x \in AppRecord, x.owned = apps[a].owned,
         apps[a].published = TRUE => x.published = TRUE,
         apps' = [apps EXCEPT ![a] = x], UNCHANGED file, AppInv(a)'
  PROVE  IInv'
<1>1. apps' \in Seq(AppRecord) /\ DOMAIN apps' = DOMAIN apps
  BY Replaced DEF IInv, Typed
<1>2. Grows /\ Kept
  BY <1>1, Zenon DEF Grows, Kept, IInv, Typed
<1>3. Typed'
  BY <1>1, Zenon DEF IInv, Typed
<1>4. \A q \in Run : RunInv(q)'
  <2>. SUFFICES ASSUME NEW q \in Run, run'[q] = run[q] PROVE RunInv(q)'
    BY Zenon
  <2>. QED BY <1>2, RunFrame, Zenon DEF IInv, Typed
<1>5. \A b \in DOMAIN apps' : AppInv(b)'
  <2>. SUFFICES ASSUME NEW b \in DOMAIN apps, b # a PROVE AppInv(b)'
    BY <1>1, Zenon
  <2>1. apps'[b] = apps[b]
    BY Zenon DEF IInv, Typed
  <2>. QED BY <1>2, <2>1, AppFrame, Zenon DEF IInv
<1>. QED BY <1>3, <1>4, <1>5, Zenon DEF IInv

\* A step that adds an app, and perhaps moves one run.
LEMMA AppendKeeps ==
  ASSUME IInv, run' \in [Run -> [pc : Steps, app : Nat, content : Nat]],
         \A q \in Run : run'[q] = run[q] \/ RunInv(q)',
         NEW owned \in BOOLEAN, apps' = Append(apps, NewApp(owned)), UNCHANGED file
  PROVE  IInv'
<1>0. NewApp(owned) \in AppRecord
  BY Zenon DEF NewApp, AppRecord
<1>. PICK n \in Nat : n = Len(apps) + 1
  BY DEF IInv, Typed
<1>1. /\ apps' \in Seq(AppRecord) /\ DOMAIN apps' = DOMAIN apps \cup {n}
      /\ \A a \in DOMAIN apps : apps'[a] = apps[a]
      /\ apps'[n] = NewApp(owned)
  BY <1>0 DEF IInv, Typed
<1>2. Grows /\ Kept
  BY <1>1, Zenon DEF Grows, Kept
<1>3. Typed'
  BY <1>1, Zenon DEF IInv, Typed
<1>4. \A q \in Run : RunInv(q)'
  <2>. SUFFICES ASSUME NEW q \in Run, run'[q] = run[q] PROVE RunInv(q)'
    BY Zenon
  <2>. QED BY <1>2, RunFrame, Zenon DEF IInv, Typed
<1>5. \A b \in DOMAIN apps' : AppInv(b)'
  <2>1. AppInv(n)'
    BY <1>1 DEF AppInv, NewApp, IInv, Typed
  <2>2. \A b \in DOMAIN apps : AppInv(b)'
    BY <1>1, <1>2, AppFrame, Zenon DEF IInv
  <2>. QED BY <1>1, <2>1, <2>2, Zenon
<1>. QED BY <1>3, <1>4, <1>5, Zenon DEF IInv

-----------------------------------------------------------------------------
(* The steps of a run.                                                     *)

\* A step that only moves the run to a later place, or ends it.
LEMMA GotoKeeps ==
  ASSUME IInv, NEW r \in Run, NEW pc \in Steps, Goto(r, pc), UNCHANGED <<apps, file>>,
         RunInv(r)'
  PROVE  IInv'
<1>1. run' = [run EXCEPT ![r] = [run[r] EXCEPT !.pc = pc]]
  BY Zenon DEF Goto, IInv, Typed
<1>2. [run[r] EXCEPT !.pc = pc] \in [pc : Steps, app : Nat, content : Nat]
  BY Zenon DEF IInv, Typed
<1>. QED BY <1>1, <1>2, MoveKeeps, Zenon

\* The steps that only read: the inventory, the app, its assignments, content
\* versions and files, the waits.
LEMMA ReadKeeps ==
  ASSUME IInv, NEW r \in Run,
         \/ Begin(r) \/ Look(r) \/ InspectApp(r) \/ Exact(r) \/ Verify(r) \/ Unassigned(r)
         \/ Contents(r) \/ NoFiles(r) \/ Wait(r, "uri", "ready", "send")
         \/ Wait(r, "wait", "committed", "patch") \/ Published(r) \/ ReadBack(r)
         \/ GiveUp(r) \/ Die(r)
  PROVE  IInv'
<1>0. /\ Typed /\ RunInv(r) /\ run[r] \in [pc : Steps, app : Nat, content : Nat]
      /\ r \in DOMAIN run
  BY Zenon DEF IInv, Typed
<1>a. ASSUME NEW pc \in Steps, Goto(r, pc), UNCHANGED <<apps, file>>
      PROVE  run'[r] = [run[r] EXCEPT !.pc = pc]
  BY <1>a, <1>0, Zenon DEF Goto
<1>b. CASE \/ Begin(r) \/ Exact(r) \/ Verify(r) \/ Unassigned(r) \/ NoFiles(r)
           \/ Wait(r, "uri", "ready", "send") \/ Wait(r, "wait", "committed", "patch")
           \/ Published(r) \/ ReadBack(r) \/ GiveUp(r) \/ Die(r)
  <2>1. PICK pc \in Steps : Goto(r, pc)
    BY <1>b, Zenon DEF Begin, Exact, Verify, Unassigned, NoFiles, Wait, Published, ReadBack, GiveUp, Die,
                Receipt, Steps
  <2>2. UNCHANGED <<apps, file>>
    BY <1>b, Zenon DEF Begin, Exact, Verify, Unassigned, NoFiles, Wait, Published, ReadBack, GiveUp, Die,
                Receipt
  <2>3. run'[r] = [run[r] EXCEPT !.pc = pc]
    BY <2>1, <2>2, <1>a, Zenon
  <2>4. RunInv(r)'
    <3>1. CASE Begin(r)
      <4>1. run[r].pc = "new" /\ run'[r].pc = "look"
        BY <3>1, <1>0, Zenon DEF Begin, At, Goto
      <4>. QED BY <4>1, <1>0, <2>2, Zenon DEF RunInv, Before, Accepting, Filed, Numbered, Taken
    <3>2. CASE Exact(r)
      <4>1. run[r].pc = "exact" /\ pc \in {"verify", "over"}
        BY <3>2, <2>3, <1>0, Zenon DEF Exact, At, Goto
      <4>. QED BY <4>1, <1>0, <2>2, <2>3, Zenon DEF RunInv, Before, Accepting, Filed, Numbered, Taken
    <3>3. CASE Unassigned(r)
      <4>1. run[r].pc = "unassigned" /\ pc \in {"contents", "over"}
        BY <3>3, <2>3, <1>0, Zenon DEF Unassigned, At, Goto
      <4>. QED BY <4>1, <1>0, <2>2, <2>3, Zenon DEF RunInv, Before, Accepting, Filed, Numbered, Taken
    <3>4. CASE NoFiles(r)
      <4>1. run[r].pc = "nofiles" /\ pc \in {"file", "over"}
        BY <3>4, <2>3, <1>0, Zenon DEF NoFiles, At, Goto
      <4>. QED BY <4>1, <1>0, <2>2, <2>3, Zenon DEF RunInv, Before, Accepting, Filed, Numbered, Taken
    <3>5. CASE Wait(r, "uri", "ready", "send")
      <4>1. run[r].pc = "uri" /\ pc = "send" /\ file[r].state = "ready"
        BY <3>5, <2>3, <1>0, Zenon DEF Wait, At, Goto
      <4>. QED BY <4>1, <1>0, <2>2, <2>3, Zenon DEF RunInv, Before, Accepting, Filed, Numbered, Taken
    <3>6. CASE Wait(r, "wait", "committed", "patch")
      <4>1. run[r].pc = "wait" /\ pc = "patch" /\ file[r].state = "committed"
        BY <3>6, <2>3, <1>0, Zenon DEF Wait, At, Goto
      <4>. QED BY <4>1, <1>0, <2>2, <2>3, Zenon DEF RunInv, Before, Accepting, Filed, Numbered, Taken
    <3>7. CASE Published(r)
      <4>1. run[r].pc = "publish" /\ pc = "assign"
        BY <3>7, <2>3, <1>0, Zenon DEF Published, At, Goto
      <4>2. apps[run[r].app].published = TRUE
        <5>1. apps[run[r].app] \in AppRecord
          BY <4>1, <1>0 DEF RunInv, Typed, Before, Accepting, Filed, Numbered, Taken
        <5>2. apps[run[r].app].published
          BY <3>7, Zenon DEF Published, App
        <5>. QED BY <5>1, <5>2, Zenon DEF AppRecord
      <4>. QED BY <4>1, <4>2, <1>0, <2>2, <2>3, Zenon DEF RunInv, Before, Accepting, Filed, Numbered, Taken
    <3>8. CASE Verify(r) \/ ReadBack(r) \/ GiveUp(r) \/ Die(r)
      <4>1. pc = "over"
        BY <3>8, <2>3, <1>0, Zenon DEF Verify, ReadBack, GiveUp, Die, Receipt, Goto
      <4>. QED BY <4>1, <1>0, <2>2, <2>3, Zenon DEF RunInv, Before, Accepting, Filed, Numbered, Taken
    <3>. QED BY <1>b, <3>1, <3>2, <3>3, <3>4, <3>5, <3>6, <3>7, <3>8, Zenon
  <2>. QED BY <2>1, <2>2, <2>4, GotoKeeps, Zenon
<1>1. CASE Look(r)
  <2>0. run[r].pc = "look" /\ UNCHANGED <<apps, file>>
    BY <1>1, Zenon DEF Look, At
  <2>1. CASE \E pc \in {"create", "over"} : Goto(r, pc)
    <3>1. PICK pc \in {"create", "over"} : Goto(r, pc)
      BY <2>1, Zenon
    <3>2. pc \in Steps
      BY Zenon DEF Steps
    <3>3. run'[r] = [run[r] EXCEPT !.pc = pc]
      BY <3>1, <3>2, <2>0, <1>a, Zenon
    <3>4. RunInv(r)'
      BY <3>3, <2>0, <1>0, Zenon DEF RunInv, Before, Accepting, Filed, Numbered, Taken
    <3>. QED BY <3>1, <3>2, <3>4, <2>0, GotoKeeps, Zenon
  <2>2. CASE Len(apps) = 1 /\ run' = [run EXCEPT ![r].pc = "app", ![r].app = 1]
    <3>. DEFINE new == [run[r] EXCEPT !.pc = "app", !.app = 1]
    <3>1. run' = [run EXCEPT ![r] = new] /\ new \in [pc : Steps, app : Nat, content : Nat]
      BY <2>2, <1>0, Zenon DEF Typed, Steps
    <3>2. 1 \in DOMAIN apps
      BY <2>2, <1>0 DEF Typed
    <3>3. run'[r] = new
      BY <3>1, <1>0, Zenon
    <3>4. RunInv(r)'
      BY <3>3, <3>2, <2>0, <1>0, Zenon DEF RunInv, Before, Accepting, Filed, Numbered, Taken
    <3>. QED BY <3>1, <3>4, <2>0, MoveKeeps, Zenon
  <2>. QED BY <1>1, <2>1, <2>2, Zenon DEF Look
<1>2. CASE InspectApp(r)
  <2>0. run[r].pc = "app" /\ UNCHANGED <<apps, file>>
    BY <1>2, Zenon DEF InspectApp, At
  <2>1. CASE Goto(r, "over")
    <3>2. "over" \in Steps
      BY Zenon DEF Steps
    <3>3. run'[r] = [run[r] EXCEPT !.pc = "over"]
      BY <2>1, <3>2, <2>0, <1>a, Zenon
    <3>4. RunInv(r)'
      BY <3>3, <2>0, <1>0, Zenon DEF RunInv, Before, Accepting, Filed, Numbered, Taken
    <3>. QED BY <2>1, <3>2, <3>4, <2>0, GotoKeeps, Zenon
  <2>2. CASE ~ Goto(r, "over")
    <3>1. App(r).owned /\ KeepApp(r)
      BY <1>2, <2>2, Zenon DEF InspectApp
    <3>2. apps[run[r].app].owned = TRUE /\ App(r).committed \in Nat
      <4>1. App(r) \in AppRecord
        BY <2>0, <1>0 DEF RunInv, Typed, App
      <4>. QED BY <4>1, <3>1, Zenon DEF AppRecord, App
    <3>3. CASE Goto(r, "unassigned")
      <4>2. "unassigned" \in Steps
        BY Zenon DEF Steps
      <4>3. run'[r] = [run[r] EXCEPT !.pc = "unassigned"]
        BY <3>3, <4>2, <2>0, <1>a, Zenon
      <4>4. RunInv(r)'
        BY <4>3, <3>2, <2>0, <1>0, Zenon DEF RunInv, Before, Accepting, Filed, Numbered, Taken
      <4>. QED BY <3>3, <4>2, <4>4, <2>0, GotoKeeps, Zenon
    <3>4. CASE run' = [run EXCEPT ![r].pc = "exact", ![r].content = App(r).committed]
      <4>. DEFINE new == [run[r] EXCEPT !.pc = "exact", !.content = App(r).committed]
      <4>1. run' = [run EXCEPT ![r] = new] /\ new \in [pc : Steps, app : Nat, content : Nat]
        BY <3>4, <3>2, <1>0, Zenon DEF Typed, Steps
      <4>3. run'[r] = new
        BY <4>1, <1>0, Zenon
      <4>4. RunInv(r)'
        BY <4>3, <3>2, <2>0, <1>0, Zenon DEF RunInv, Before, Accepting, Filed, Numbered, Taken
      <4>. QED BY <4>1, <4>4, <2>0, MoveKeeps, Zenon
    <3>. QED BY <3>1, <3>3, <3>4, <2>2, Zenon DEF KeepApp
  <2>. QED BY <2>1, <2>2, Zenon
<1>3. CASE Contents(r)
  <2>0. run[r].pc = "contents" /\ UNCHANGED <<apps, file>>
    BY <1>3, Zenon DEF Contents, At
  <2>1. CASE \E pc \in {"content", "over"} : Goto(r, pc)
    <3>1. PICK pc \in {"content", "over"} : Goto(r, pc)
      BY <2>1, Zenon
    <3>2. pc \in Steps
      BY Zenon DEF Steps
    <3>3. run'[r] = [run[r] EXCEPT !.pc = pc]
      BY <3>1, <3>2, <2>0, <1>a, Zenon
    <3>4. RunInv(r)'
      BY <3>3, <2>0, <1>0, Zenon DEF RunInv, Before, Accepting, Filed, Numbered, Taken
    <3>. QED BY <3>1, <3>2, <3>4, <2>0, GotoKeeps, Zenon
  <2>2. CASE run' = [run EXCEPT ![r].pc = "nofiles", ![r].content = 1]
    <3>. DEFINE new == [run[r] EXCEPT !.pc = "nofiles", !.content = 1]
    <3>1. run' = [run EXCEPT ![r] = new] /\ new \in [pc : Steps, app : Nat, content : Nat]
      BY <2>2, <1>0, Zenon DEF Typed, Steps
    <3>3. run'[r] = new
      BY <3>1, <1>0, Zenon
    <3>4. RunInv(r)'
      BY <3>3, <2>0, <1>0 DEF RunInv, Before, Accepting, Filed, Numbered, Taken
    <3>. QED BY <3>1, <3>4, <2>0, MoveKeeps, Zenon
  <2>. QED BY <1>3, <2>1, <2>2, Zenon DEF Contents
<1>. QED BY <1>b, <1>1, <1>2, <1>3, Zenon

\* The steps that change the run's file: it is added, sent and given to commit.
LEMMA FileStepKeeps ==
  ASSUME IInv, NEW r \in Run, AddFile(r) \/ Send(r) \/ CommitFile(r)
  PROVE  IInv'
<1>0. /\ Typed /\ RunInv(r) /\ run[r] \in [pc : Steps, app : Nat, content : Nat]
      /\ file[r] \in FileRecord
  BY Zenon DEF IInv, Typed
<1>1. CASE AddFile(r)
  <2>. DEFINE f == [app |-> run[r].app, content |-> run[r].content, state |-> "pending"]
              new == [run[r] EXCEPT !.pc = "uri"]
  <2>1. /\ run[r].pc = "file" /\ run' = [run EXCEPT ![r] = new] /\ UNCHANGED apps
        /\ file' = [file EXCEPT ![r] = f]
    BY <1>1, <1>0, Zenon DEF AddFile, At, Goto, Typed
  <2>2. new \in [pc : Steps, app : Nat, content : Nat] /\ f \in FileRecord
    BY <1>0, Zenon DEF FileRecord, Steps
  <2>3. run'[r] = new /\ file'[r] = f
    BY <2>1, <1>0, Zenon DEF Typed
  <2>4. file[r].state # "committed"
    BY <2>1, <1>0 DEF RunInv, Before, NoFile
  <2>5. RunInv(r)'
    BY <2>1, <2>3, <1>0 DEF RunInv, Before, Accepting, Filed, Numbered, Taken
  <2>. QED BY <2>1, <2>2, <2>4, <2>5, FileKeeps, Zenon
<1>2. CASE Send(r)
  <2>. DEFINE f == [file[r] EXCEPT !.state = "sent"]
              new == [run[r] EXCEPT !.pc = "commit"]
  <2>1. /\ run[r].pc = "send" /\ run' = [run EXCEPT ![r] = new] /\ UNCHANGED apps
        /\ file' = [file EXCEPT ![r] = f]
    BY <1>2, <1>0, Zenon DEF Send, At, Goto, Typed
  <2>2. new \in [pc : Steps, app : Nat, content : Nat] /\ f \in FileRecord
    BY <1>0, Zenon DEF FileRecord, Steps
  <2>3. run'[r] = new /\ file'[r] = f
    BY <2>1, <1>0, Zenon DEF Typed
  <2>4. file[r].state # "committed"
    BY <2>1, <1>0, Zenon DEF RunInv
  <2>5. RunInv(r)'
    BY <2>1, <2>3, <1>0 DEF RunInv, FileRecord, Before, Accepting, Filed, Numbered, Taken
  <2>. QED BY <2>1, <2>2, <2>4, <2>5, FileKeeps, Zenon
<1>3. CASE CommitFile(r)
  <2>. DEFINE f == [file[r] EXCEPT !.state = "committing"]
              new == [run[r] EXCEPT !.pc = "wait"]
  <2>1. /\ run[r].pc = "commit" /\ run' = [run EXCEPT ![r] = new] /\ UNCHANGED apps
        /\ file' = [file EXCEPT ![r] = f]
    BY <1>3, <1>0, Zenon DEF CommitFile, At, Goto, Typed
  <2>2. new \in [pc : Steps, app : Nat, content : Nat] /\ f \in FileRecord
    BY <1>0, Zenon DEF FileRecord, Steps
  <2>3. run'[r] = new /\ file'[r] = f
    BY <2>1, <1>0, Zenon DEF Typed
  <2>4. file[r].state # "committed"
    BY <2>1, <1>0, Zenon DEF RunInv
  <2>5. RunInv(r)'
    BY <2>1, <2>3, <1>0 DEF RunInv, FileRecord, Before, Accepting, Filed, Numbered, Taken
  <2>. QED BY <2>1, <2>2, <2>4, <2>5, FileKeeps, Zenon
<1>. QED BY <1>1, <1>2, <1>3, Zenon

\* The steps that change the run's app: creation, content version, PATCH, assignment.
LEMMA AppStepKeeps ==
  ASSUME IInv, NEW r \in Run, Create(r) \/ AddContent(r) \/ Patch(r) \/ Assign(r)
  PROVE  IInv'
<1>0. /\ Typed /\ RunInv(r) /\ run[r] \in [pc : Steps, app : Nat, content : Nat]
      /\ \A a \in DOMAIN apps : apps[a] \in AppRecord /\ AppInv(a)
  BY DEF IInv, Typed
<1>1. CASE Create(r)
  <2>1. PICK n \in Nat : n = Len(apps) + 1
    BY <1>0 DEF Typed
  <2>2. /\ run[r].pc = "create" /\ apps' = Append(apps, NewApp(TRUE)) /\ UNCHANGED file
        /\ run' = [run EXCEPT ![r] = [run[r] EXCEPT !.pc = "contents", !.app = n]]
    BY <1>1, <1>0, <2>1, Zenon DEF Create, At, Typed
  <2>3. run' \in [Run -> [pc : Steps, app : Nat, content : Nat]]
    BY <2>2, <1>0, Zenon DEF Typed, Steps
  <2>4. RunInv(r)'
    <3>1. run'[r].pc = "contents" /\ run'[r].app = n
      BY <2>2, <1>0, Zenon DEF Typed
    <3>2. NewApp(TRUE) \in AppRecord
      BY Zenon DEF NewApp, AppRecord
    <3>3. n \in DOMAIN apps' /\ apps'[n].owned = TRUE
      BY <2>1, <2>2, <3>2, <1>0 DEF Typed, NewApp
    <3>. QED BY <3>1, <3>3, <2>2, <1>0, Zenon DEF RunInv, Before, Accepting, Filed, Numbered, Taken
  <2>5. \A q \in Run : run'[q] = run[q] \/ RunInv(q)'
    BY <2>2, <2>4, <1>0, Zenon DEF Typed
  <2>. QED BY <2>2, <2>3, <2>5, AppendKeeps, Zenon
<1>2. CASE AddContent(r)
  <2>. PICK a : a = run[r].app
    BY Zenon
  <2>1. a \in DOMAIN apps /\ run[r].pc = "content"
    BY <1>2, <1>0, Zenon DEF AddContent, At, RunInv, Before, Accepting, Filed, Numbered, Taken
  <2>. PICK m \in Nat \ {0} : m = apps[a].contents + 1
    BY <2>1, <1>0 DEF AppRecord
  <2>. DEFINE x == [apps[a] EXCEPT !.contents = m]
              new == [run[r] EXCEPT !.pc = "file", !.content = m]
  <2>2. apps' = [apps EXCEPT ![a] = x] /\ run' = [run EXCEPT ![r] = new] /\ UNCHANGED file
    BY <1>2, <1>0, <2>1, Zenon DEF AddContent, App, Typed
  <2>3. /\ x \in AppRecord /\ x.owned = apps[a].owned /\ x.published = apps[a].published
        /\ x.committed = apps[a].committed /\ x.pilot = apps[a].pilot
        /\ new \in [pc : Steps, app : Nat, content : Nat]
        /\ new.pc = "file" /\ new.app = a /\ new.content # 0
    <3>1. apps[a] \in AppRecord
      BY <1>0, <2>1, Zenon
    <3>2. /\ x \in AppRecord /\ x.owned = apps[a].owned /\ x.published = apps[a].published
          /\ x.committed = apps[a].committed /\ x.pilot = apps[a].pilot
      BY <3>1, Zenon DEF AppRecord
    <3>3. /\ new \in [pc : Steps, app : Nat, content : Nat]
          /\ new.pc = "file" /\ new.app = a /\ new.content # 0
      BY <1>0, Zenon DEF Steps
    <3>. QED BY <3>2, <3>3, Zenon
  <2>4. apps'[a] = x /\ DOMAIN apps' = DOMAIN apps /\ run'[r] = new
    BY <2>1, <2>2, <1>0, Zenon DEF Typed
  <2>. HIDE DEF x, new
  <2>5. AppInv(a)'
    BY <2>1, <2>2, <2>3, <2>4, <1>0 DEF AppInv, Accepted
  <2>6. RunInv(r)'
    BY <2>1, <2>2, <2>3, <2>4, <1>0, Zenon DEF RunInv, Before, Accepting, Filed, Numbered, Taken
  <2>7. run' \in [Run -> [pc : Steps, app : Nat, content : Nat]]
    BY <2>2, <2>3, <1>0, Zenon DEF Typed
  <2>8. \A q \in Run : run'[q] = run[q] \/ RunInv(q)'
    BY <2>2, <2>6, <1>0, Zenon DEF Typed
  <2>. QED BY <2>1, <2>2, <2>3, <2>5, <2>7, <2>8, AppKeeps, Zenon
<1>3. CASE Patch(r)
  <2>. PICK a : a = run[r].app
    OBVIOUS
  <2>. DEFINE x == [apps[a] EXCEPT !.committed = run[r].content]
              new == [run[r] EXCEPT !.pc = "publish"]
  <2>1. a \in DOMAIN apps /\ run[r].pc = "patch"
    BY <1>3, <1>0, Zenon DEF Patch, At, RunInv, Before, Accepting, Filed, Numbered, Taken
  <2>2. apps' = [apps EXCEPT ![a] = x] /\ run' = [run EXCEPT ![r] = new] /\ UNCHANGED file
    BY <1>3, <1>0, <2>1, Zenon DEF Patch, Goto, Typed
  <2>3. /\ x \in AppRecord /\ x.owned = apps[a].owned /\ x.published = apps[a].published
        /\ x.committed = run[r].content /\ x.pilot = apps[a].pilot
        /\ new \in [pc : Steps, app : Nat, content : Nat]
        /\ new.pc = "publish" /\ new.app = a /\ new.content = run[r].content
    BY <1>0, <2>1, ZenonT(60) DEF AppRecord, Steps
  <2>4. apps'[a] = x /\ DOMAIN apps' = DOMAIN apps /\ run'[r] = new
    BY <2>1, <2>2, <1>0, Zenon DEF Typed
  <2>. HIDE DEF x, new
  <2>5. AppInv(a)'
    <3>1. /\ file'[r].app = a /\ file'[r].content = x.committed
          /\ file'[r].state = "committed" /\ x.committed # 0 /\ apps[a].owned = TRUE
      BY <2>1, <2>2, <2>3, <1>0, Zenon DEF RunInv, Before, Accepting, Filed, Numbered, Taken
    <3>. QED BY <3>1, <2>1, <2>3, <2>4, <1>0, Zenon DEF AppInv, Accepted
  <2>6. RunInv(r)'
    BY <2>1, <2>2, <2>3, <2>4, <1>0 DEF RunInv, Before, Accepting, Filed, Numbered, Taken
  <2>7. run' \in [Run -> [pc : Steps, app : Nat, content : Nat]]
    BY <2>2, <2>3, <1>0, Zenon DEF Typed
  <2>8. \A q \in Run : run'[q] = run[q] \/ RunInv(q)'
    BY <2>2, <2>6, <1>0, Zenon DEF Typed
  <2>. QED BY <2>1, <2>2, <2>3, <2>5, <2>7, <2>8, AppKeeps, Zenon
<1>4. CASE Assign(r)
  <2>0. run[r].pc = "assign" /\ UNCHANGED file
    BY <1>4, Zenon DEF Assign, At
  <2>1. CASE Goto(r, "over") /\ UNCHANGED apps
    <3>1. "over" \in Steps
      BY Zenon DEF Steps
    <3>2. run'[r].pc = "over"
      BY <2>1, <1>0, Zenon DEF Goto, Typed
    <3>3. RunInv(r)'
      BY <3>2, Zenon DEF RunInv, Before, Accepting, Filed, Numbered, Taken
    <3>. QED BY <2>0, <2>1, <3>1, <3>3, GotoKeeps, Zenon
  <2>2. CASE apps' = [apps EXCEPT ![run[r].app].pilot = @ + 1] /\ Goto(r, "readback")
    <3>. PICK a : a = run[r].app
      OBVIOUS
    <3>. DEFINE x == [apps[a] EXCEPT !.pilot = @ + 1]
                new == [run[r] EXCEPT !.pc = "readback"]
    <3>1. a \in DOMAIN apps /\ apps[a].owned = TRUE /\ apps[a].published = TRUE
      BY <2>0, <1>0, Zenon DEF RunInv, Before, Accepting, Filed, Numbered, Taken
    <3>2. apps' = [apps EXCEPT ![a] = x] /\ run' = [run EXCEPT ![r] = new]
      BY <2>2, <1>0, <3>1, Zenon DEF Goto, Typed
    <3>3. /\ x \in AppRecord /\ x.owned = apps[a].owned /\ x.published = apps[a].published
          /\ x.committed = apps[a].committed
          /\ new \in [pc : Steps, app : Nat, content : Nat]
      BY <1>0, <3>1 DEF AppRecord, Steps
    <3>4. apps'[a] = x /\ DOMAIN apps' = DOMAIN apps /\ run'[r] = new
      BY <3>1, <3>2, <1>0, Zenon DEF Typed
    <3>5. AppInv(a)'
      BY <2>0, <3>1, <3>3, <3>4, <1>0 DEF AppInv, Accepted
    <3>6. RunInv(r)'
      BY <2>0, <3>1, <3>3, <3>4, <1>0, ZenonT(60) DEF RunInv, Before, Accepting, Filed, Numbered, Taken
    <3>7. run' \in [Run -> [pc : Steps, app : Nat, content : Nat]]
      BY <3>2, <3>3, <1>0, Zenon DEF Typed
    <3>8. \A q \in Run : run'[q] = run[q] \/ RunInv(q)'
      BY <3>2, <3>6, <1>0, Zenon DEF Typed
    <3>. HIDE DEF x, new
    <3>. QED BY <2>0, <3>1, <3>2, <3>3, <3>5, <3>7, <3>8, AppKeeps, Zenon
  <2>. QED BY <1>4, <2>1, <2>2, Zenon DEF Assign
<1>. QED BY <1>1, <1>2, <1>3, <1>4, Zenon

-----------------------------------------------------------------------------
(* Intune, its administrator, and the theorem.                             *)

\* Intune's processing of a file never touches an accepted one.
LEMMA ProcessKeeps ==
  ASSUME IInv, NEW r \in Run, Process(r)
  PROVE  IInv'
<1>0. /\ Typed /\ RunInv(r) /\ run[r] \in [pc : Steps, app : Nat, content : Nat]
      /\ file[r] \in FileRecord
  BY Zenon DEF IInv, Typed
<1>1. /\ file[r].state \in {"pending", "committing"} /\ UNCHANGED <<apps, run>>
      /\ \E s \in {"ready", "committed", "failed"} : file' = [file EXCEPT ![r].state = s]
  BY Zenon DEF Process
<1>2. PICK s \in {"ready", "committed", "failed"} : file' = [file EXCEPT ![r].state = s]
  BY <1>1, Zenon
<1>. DEFINE f == [file[r] EXCEPT !.state = s]
<1>3. file' = [file EXCEPT ![r] = f] /\ f \in FileRecord /\ run' = [run EXCEPT ![r] = run[r]]
  BY <1>0, <1>1, <1>2, Zenon DEF Typed, FileRecord
<1>4. file'[r] = f /\ f.app = file[r].app /\ f.content = file[r].content
  BY <1>0, <1>3, Zenon DEF Typed, FileRecord
<1>5. run[r].pc \notin Before \cup Accepting \cup {"send", "commit"}
  BY <1>0, <1>1 DEF RunInv, NoFile, Before, Accepting, Filed, Numbered, Taken
<1>6. RunInv(r)'
  BY <1>0, <1>1, <1>4, <1>5, Zenon DEF RunInv, Before, Accepting, Filed, Numbered, Taken
<1>. QED BY <1>0, <1>1, <1>3, <1>6, FileKeeps, Zenon

\* Publication needs a committed content version, and so an accepted file.
LEMMA PublishKeeps ==
  ASSUME IInv, NEW a \in DOMAIN apps, Publish(a)
  PROVE  IInv'
<1>0. Typed /\ apps[a] \in AppRecord /\ AppInv(a)
  BY DEF IInv, Typed
<1>. DEFINE x == [apps[a] EXCEPT !.published = TRUE]
<1>1. /\ apps' = [apps EXCEPT ![a] = x] /\ UNCHANGED <<file, run>> /\ apps[a].committed # 0
  BY <1>0, Zenon DEF Publish, Typed
<1>2. /\ x \in AppRecord /\ x.owned = apps[a].owned /\ x.published = TRUE
      /\ x.committed = apps[a].committed /\ x.pilot = apps[a].pilot
  BY <1>0, Zenon DEF AppRecord
<1>3. apps'[a] = x
  BY <1>0, <1>1, Zenon DEF Typed
<1>. HIDE DEF x
<1>4. AppInv(a)'
  BY <1>0, <1>1, <1>2, <1>3, Zenon DEF AppInv, Accepted
<1>5. run' \in [Run -> [pc : Steps, app : Nat, content : Nat]]
  BY <1>0, <1>1, Zenon DEF Typed
<1>. QED BY <1>1, <1>2, <1>4, <1>5, AppKeeps, Zenon

\* An administrator's app is new, and their assignment is not the pilot's.
LEMMA AdministrateKeeps ==
  ASSUME IInv, Administrate
  PROVE  IInv'
<1>0. Typed /\ UNCHANGED <<file, run>>
  BY Zenon DEF IInv, Administrate
<1>1. run' \in [Run -> [pc : Steps, app : Nat, content : Nat]]
  BY <1>0, Zenon DEF Typed
<1>2. CASE apps' = Append(apps, NewApp(FALSE))
  BY <1>0, <1>1, <1>2, AppendKeeps, Zenon
<1>3. ASSUME NEW a \in DOMAIN apps, apps' = [apps EXCEPT ![a].other = TRUE]
      PROVE  IInv'
  <2>. DEFINE x == [apps[a] EXCEPT !.other = TRUE]
  <2>0. apps[a] \in AppRecord /\ AppInv(a)
    BY <1>0 DEF IInv, Typed
  <2>1. apps' = [apps EXCEPT ![a] = x]
    BY <1>3, <1>0, Zenon DEF Typed
  <2>2. /\ x \in AppRecord /\ x.owned = apps[a].owned /\ x.published = apps[a].published
        /\ x.committed = apps[a].committed /\ x.pilot = apps[a].pilot
    BY <2>0, Zenon DEF AppRecord
  <2>3. apps'[a] = x
    BY <1>0, <2>1, Zenon DEF Typed
  <2>. HIDE DEF x
  <2>4. AppInv(a)'
    BY <1>0, <2>0, <2>2, <2>3, Zenon DEF AppInv, Accepted
  <2>. QED BY <1>0, <1>1, <2>1, <2>2, <2>4, AppKeeps, Zenon
<1>. QED BY <1>2, <1>3, Zenon DEF Administrate

\* The invariant holds before any run.
LEMMA InitHolds == Init => IInv
<1>. SUFFICES ASSUME Init PROVE IInv
  BY Zenon
<1>1. Typed
  BY DEF Init, Typed, NoFile, FileRecord, Steps
<1>2. \A r \in Run : RunInv(r)
  BY Zenon DEF Init, RunInv, Before, Accepting, Filed, Numbered, Taken
<1>3. DOMAIN apps = {}
  BY DEF Init
<1>. QED BY <1>1, <1>2, <1>3, Zenon DEF IInv

\* Every step of a run, of Intune or of the administrator keeps the invariant.
LEMMA NextKeeps == IInv /\ [Next]_vars => IInv'
<1>. SUFFICES ASSUME IInv, [Next]_vars PROVE IInv'
  BY Zenon
<1>1. ASSUME NEW r \in Run, Begin(r) \/ Advance(r) \/ GiveUp(r) \/ Die(r) \/ Process(r)
      PROVE  IInv'
  <2>1. CASE AddFile(r) \/ Send(r) \/ CommitFile(r)
    BY <2>1, FileStepKeeps, Zenon
  <2>2. CASE Create(r) \/ AddContent(r) \/ Patch(r) \/ Assign(r)
    BY <2>2, AppStepKeeps, Zenon
  <2>3. CASE Process(r)
    BY <2>3, ProcessKeeps, Zenon
  <2>. QED BY <1>1, <2>1, <2>2, <2>3, ReadKeeps, Zenon DEF Advance
<1>2. CASE UNCHANGED vars
  BY <1>2 DEF vars, IInv, Typed, RunInv, AppInv, Accepted
<1>. QED BY <1>1, <1>2, PublishKeeps, AdministrateKeeps, Zenon DEF Next

\* The inductive invariant of the publication of the package holds throughout.
THEOREM AlwaysIInv == Spec => []IInv
BY InitHolds, NextKeeps, PTL DEF Spec

\* For every number of runs, at once or one after another, killed anywhere, what
\* the pilot group is required to install is the template's app, published, with
\* a file that Intune has accepted.
THEOREM RequiredAlwaysInstallable == Spec => []RequiredMeansInstallable
<1>1. IInv => RequiredMeansInstallable
  <2>. SUFFICES ASSUME IInv, NEW a \in DOMAIN apps, apps[a].pilot > 0
                PROVE  /\ apps[a].owned /\ apps[a].published
                       /\ \E q \in Files(a, apps[a].committed) : file[q].state = "committed"
    BY Zenon DEF RequiredMeansInstallable
  <2>1. AppInv(a) /\ a # 0
    BY DEF IInv, Typed
  <2>. QED BY <2>1, Zenon DEF AppInv, Accepted, Files
<1>. QED BY <1>1, AlwaysIInv, PTL

\* The administrator's changes are counted.
Counted == admin \in Nat

\* Only the administrator's steps change their number.
LEMMA AdminCounted == Spec => []Counted
<1>1. Init => Counted
  BY DEF Init, Counted
<1>2. Counted /\ [Next]_vars => Counted'
  <2>. SUFFICES ASSUME Counted, [Next]_vars PROVE Counted'
    OBVIOUS
  <2>1. ASSUME NEW r \in Run, Begin(r) \/ Advance(r) \/ GiveUp(r) \/ Die(r) \/ Process(r)
        PROVE  admin' = admin
    BY <2>1, Zenon DEF Advance, Begin, Look, Create, InspectApp, Exact, Verify, Unassigned, Contents,
       AddContent, NoFiles, AddFile, Wait, Send, CommitFile, Patch, Published, Assign, ReadBack,
       GiveUp, Die, Process, Receipt
  <2>2. ASSUME NEW a \in DOMAIN apps, Publish(a)
        PROVE  admin' = admin
    BY <2>2, Zenon DEF Publish
  <2>3. CASE Administrate
    <3>1. admin' = admin + 1
      BY <2>3, Zenon DEF Administrate
    <3>. QED BY <3>1 DEF Counted
  <2>4. CASE UNCHANGED vars
    BY <2>4, Zenon DEF vars, Counted
  <2>. QED BY <2>1, <2>2, <2>3, <2>4, Zenon DEF Next, Counted
<1>. QED BY <1>1, <1>2, PTL DEF Spec

\* For every number of runs, an app of the package's name that is not the
\* template's is never changed, except by its administrator.
THEOREM ForeignAlwaysUntouched == Spec => ForeignUntouched
<1>1. IInv /\ Counted /\ [Next]_vars =>
        [\A a \in DOMAIN apps : ~ apps[a].owned => apps'[a] = apps[a] \/ admin' # admin]_vars
  <2>. SUFFICES ASSUME IInv, Counted, Next, NEW a \in DOMAIN apps, ~ apps[a].owned, admin' = admin
                PROVE  apps'[a] = apps[a]
    BY Zenon
  <2>0. apps[a].owned # TRUE /\ Typed
    BY Zenon DEF IInv
  <2>1. ASSUME NEW r \in Run, AddContent(r) \/ Patch(r) \/ Assign(r)
        PROVE  apps'[a] = apps[a]
    <3>1. RunInv(r) /\ run[r].pc \in Taken
      BY <2>1, Zenon DEF IInv, AddContent, Patch, Assign, At, Before, Accepting, Filed, Numbered, Taken
    <3>2. run[r].app \in DOMAIN apps /\ run[r].app # a
      BY <3>1, <2>0, Zenon DEF RunInv
    <3>. QED BY <2>1, <3>2, <2>0, Zenon DEF AddContent, Patch, Assign, Typed
  <2>2. ASSUME NEW r \in Run, Create(r)
        PROVE  apps'[a] = apps[a]
    <3>1. NewApp(TRUE) \in AppRecord
      BY Zenon DEF NewApp, AppRecord
    <3>2. apps' = Append(apps, NewApp(TRUE)) /\ apps \in Seq(AppRecord) /\ a \in 1 .. Len(apps)
      BY <2>2, <2>0 DEF Create, Typed
    <3>. QED BY <3>1, <3>2
  <2>3. ASSUME NEW b \in DOMAIN apps, Publish(b)
        PROVE  apps'[a] = apps[a]
    <3>1. b # a
      BY <2>0, <2>3, Zenon DEF IInv, AppInv, Publish
    <3>. QED BY <2>3, <3>1, <2>0, Zenon DEF Publish, Typed
  <2>4. ASSUME NEW r \in Run,
               \/ Begin(r) \/ Look(r) \/ InspectApp(r) \/ Exact(r) \/ Verify(r) \/ Unassigned(r)
               \/ Contents(r) \/ NoFiles(r) \/ AddFile(r) \/ Wait(r, "uri", "ready", "send")
               \/ Send(r) \/ CommitFile(r) \/ Wait(r, "wait", "committed", "patch")
               \/ Published(r) \/ ReadBack(r) \/ GiveUp(r) \/ Die(r) \/ Process(r)
        PROVE  apps'[a] = apps[a]
    BY <2>4, Zenon DEF Begin, Look, InspectApp, Exact, Verify, Unassigned, Contents, NoFiles, AddFile, Wait,
                Send, CommitFile, Published, ReadBack, GiveUp, Die, Process, Receipt
  <2>5. ~ Administrate
    <3>1. Administrate => admin' = admin + 1
      BY Zenon DEF Administrate
    <3>. QED BY <3>1 DEF Counted
  <2>. QED BY <2>1, <2>2, <2>3, <2>4, <2>5, Zenon DEF Next, Advance
<1>. QED BY <1>1, AlwaysIInv, AdminCounted, PTL DEF Spec, ForeignUntouched

-----------------------------------------------------------------------------
(* The configuration profiles.                                             *)

PlanRecord == [action : {"none", "create", "verify", "update"}, object : Nat, assigned : BOOLEAN]
ApplyRecord ==
  [pc : {"new", "inventory", "check", "mutate", "assign", "verify", "done", "refused", "over"},
   i : Profile, allow : BOOLEAN, seen : SUBSET Nat, plan : [Profile -> PlanRecord]]

\* An object a run plans to work on is the template's.
PlanSafe(plan) ==
  \A p \in Profile : plan[p].object # 0 =>
    plan[p].object \in DOMAIN objects /\ objects[plan[p].object].owned = TRUE

\* A run changes nothing before it has decided to apply, applies what it was allowed
\* to, and knows only objects that exist.
ApplyInv(r) ==
  /\ apply[r].pc \in {"new", "inventory", "check", "refused"} => r \notin changed
  /\ apply[r].pc \in {"mutate", "assign", "verify"} =>
       apply[r].allow = TRUE \/ \A p \in Profile : apply[r].plan[p].action # "update"
  /\ apply[r].seen \subseteq DOMAIN objects
  /\ PlanSafe(apply[r].plan)

ProfilesTyped ==
  /\ objects \in Seq(Object)
  /\ apply \in [Run -> ApplyRecord]
  /\ profileAdmin \in Nat

ProfilesInv == ProfilesTyped /\ \A r \in Run : ApplyInv(r)

\* Objects are never removed and never change hands.
ObjectsGrow ==
  /\ objects' \in Seq(Object)
  /\ DOMAIN objects \subseteq DOMAIN objects'
  /\ \A o \in DOMAIN objects : objects'[o].owned = objects[o].owned

\* A run that a step leaves alone keeps its facts.
LEMMA ApplyFrame ==
  ASSUME NEW r \in Run, ApplyInv(r), ObjectsGrow, apply[r] \in ApplyRecord, apply'[r] = apply[r],
         r \in changed' => r \in changed
  PROVE  ApplyInv(r)'
<1>1. /\ apply[r].pc \in {"new", "inventory", "check", "refused"} => r \notin changed'
      /\ apply[r].pc \in {"mutate", "assign", "verify"} =>
           apply[r].allow = TRUE \/ \A p \in Profile : apply[r].plan[p].action # "update"
      /\ apply[r].seen \subseteq DOMAIN objects'
  BY Zenon DEF ApplyInv, ObjectsGrow
<1>2. PlanSafe(apply[r].plan) /\ DOMAIN objects \subseteq DOMAIN objects'
  BY Zenon DEF ApplyInv, ObjectsGrow
<1>3. \A p \in Profile : apply[r].plan[p].object # 0 =>
        /\ apply[r].plan[p].object \in DOMAIN objects'
        /\ objects'[apply[r].plan[p].object].owned = TRUE
  BY <1>2, Zenon DEF PlanSafe, ObjectsGrow
<1> QED BY <1>1, <1>3, Zenon DEF ApplyInv, PlanSafe

\* A step of one run.
LEMMA ApplyKeeps ==
  ASSUME ProfilesInv, NEW r \in Run, NEW new \in ApplyRecord, apply' = [apply EXCEPT ![r] = new],
         ObjectsGrow, changed' \subseteq changed \cup {r}, UNCHANGED profileAdmin, ApplyInv(r)'
  PROVE  ProfilesInv'
<1>1. ProfilesTyped'
  BY Zenon DEF ProfilesInv, ProfilesTyped, ObjectsGrow
<1>2. ASSUME NEW q \in Run, q # r PROVE ApplyInv(q)'
  <2>1. apply'[q] = apply[q] /\ apply[q] \in ApplyRecord /\ (q \in changed' => q \in changed)
    BY <1>2, Zenon DEF ProfilesInv, ProfilesTyped
  <2> QED BY <2>1, ApplyFrame, Zenon DEF ProfilesInv
<1> QED BY <1>1, <1>2, Zenon DEF ProfilesInv

\* A step of one run that only moves it, without reaching the changes.
LEMMA ApplyMoves ==
  ASSUME ProfilesInv, NEW r \in Run,
         NEW next \in {"inventory", "assign", "verify", "done", "refused", "over"},
         next = "inventory" => apply[r].pc = "new",
         next = "refused" => apply[r].pc \in {"inventory", "check"},
         next = "assign" => apply[r].pc = "mutate",
         next = "verify" => apply[r].pc = "assign",
         ProfileGoto(r, next), ObjectsGrow, changed' = changed \/ next \in {"assign", "verify"},
         changed' \subseteq changed \cup {r}, UNCHANGED profileAdmin
  PROVE  ProfilesInv'
<1>1. apply[r] \in ApplyRecord /\ apply \in [Run -> ApplyRecord] /\ ApplyInv(r)
  BY Zenon DEF ProfilesInv, ProfilesTyped
<1>2. PICK new \in ApplyRecord : new = [apply[r] EXCEPT !.pc = next]
  BY <1>1, Zenon DEF ApplyRecord
<1>3. /\ apply' = [apply EXCEPT ![r] = new] /\ apply'[r] = new
      /\ new.pc = next /\ new.allow = apply[r].allow /\ new.seen = apply[r].seen
      /\ new.plan = apply[r].plan
  BY <1>1, <1>2, Zenon DEF ProfileGoto, ApplyRecord
<1>4. /\ next \in {"inventory", "refused"} => r \notin changed'
      /\ next \in {"assign", "verify"} =>
           new.allow = TRUE \/ \A p \in Profile : new.plan[p].action # "update"
      /\ new.seen \subseteq DOMAIN objects'
  BY <1>1, <1>3, Zenon DEF ApplyInv, ObjectsGrow
<1>5. \A p \in Profile : new.plan[p].object # 0 =>
        new.plan[p].object \in DOMAIN objects' /\ objects'[new.plan[p].object].owned = TRUE
  BY <1>1, <1>3, Zenon DEF ApplyInv, PlanSafe, ObjectsGrow
<1>6. ApplyInv(r)'
  BY <1>3, <1>4, <1>5, Zenon DEF ApplyInv, PlanSafe
<1> QED BY <1>3, <1>6, ApplyKeeps, Zenon

\* What the preflight plans for an acceptable profile is its own object, or none yet.
LEMMA PlannedSafe ==
  ASSUME ProfilesInv, NEW r \in Run, Acceptable(r)
  PROVE  /\ Planned(r) \in PlanRecord
         /\ Planned(r).object # 0 =>
              Planned(r).object \in DOMAIN objects /\ objects[Planned(r).object].owned = TRUE
<1>1. CASE SameName(r) = {}
  <2>1. Planned(r) = [action |-> "create", object |-> 0, assigned |-> FALSE]
    BY <1>1, Zenon DEF Planned, NoPlan
  <2> QED BY <2>1 DEF PlanRecord
<1>2. CASE SameName(r) # {}
  <2>1. PICK o \in SameName(r) :
          Planned(r) = [action |-> IF objects[o].desired THEN "verify" ELSE "update", object |-> o,
                        assigned |-> objects[o].assigned = {"pilot"}]
    BY <1>2, Zenon DEF Planned
  <2>2. o \in DOMAIN objects /\ o \in Nat
    BY <2>1 DEF SameName, ProfilesInv, ProfilesTyped, ApplyInv
  <2>3. objects[o] \in Object /\ objects[o].owned
    BY <2>1, <2>2 DEF Acceptable, ProfilesInv, ProfilesTyped
  <2>4. objects[o].owned = TRUE
    BY <2>3, Zenon DEF Object
  <2>5. (objects[o].assigned = {"pilot"}) \in BOOLEAN
    BY Zenon
  <2>6. Planned(r).object = o /\ Planned(r) \in PlanRecord
    BY <2>1, <2>2, <2>5 DEF PlanRecord
  <2> QED BY <2>2, <2>4, <2>6, Zenon
<1> QED BY <1>1, <1>2, Zenon

\* The preflight of a profile changes the plan only.
LEMMA CheckKeeps ==
  ASSUME ProfilesInv, NEW r \in Run, Check(r)
  PROVE  ProfilesInv'
<1>0. ObjectsGrow /\ changed' = changed /\ UNCHANGED profileAdmin /\ apply[r].pc = "check"
  BY Zenon DEF Check, ObjectsGrow, ProfilesInv, ProfilesTyped, ProfileAt
<1>1. ASSUME ProfileGoto(r, "refused") PROVE ProfilesInv'
  BY <1>0, <1>1, ApplyMoves, Zenon
<1>2. ASSUME Acceptable(r), ~ ProfileGoto(r, "refused") PROVE ProfilesInv'
  <2>0. /\ apply[r] \in ApplyRecord /\ apply \in [Run -> ApplyRecord] /\ ApplyInv(r)
        /\ apply[r].i \in Profile /\ apply[r].plan \in [Profile -> PlanRecord]
        /\ apply[r].allow \in BOOLEAN
    BY Zenon DEF ProfilesInv, ProfilesTyped, ApplyRecord
  <2>1. PICK plan \in [Profile -> PlanRecord] : plan = [apply[r].plan EXCEPT ![apply[r].i] = Planned(r)]
    BY <2>0, <1>2, PlannedSafe, Zenon
  <2>2. PlanSafe(plan)
    <3> SUFFICES ASSUME NEW p \in Profile, plan[p].object # 0
                 PROVE  plan[p].object \in DOMAIN objects /\ objects[plan[p].object].owned = TRUE
      BY Zenon DEF PlanSafe
    <3>1. plan[p] = IF p = apply[r].i THEN Planned(r) ELSE apply[r].plan[p]
      BY <2>0, <2>1, Zenon
    <3> QED BY <3>1, <2>0, <1>2, PlannedSafe, Zenon DEF ApplyInv, PlanSafe
  <2>3. \/ apply[r].i < N /\ apply' = [apply EXCEPT ![r].i = @ + 1, ![r].plan = plan]
        \/ /\ apply' = [apply EXCEPT ![r].pc = "mutate", ![r].i = 1, ![r].plan = plan]
           /\ MayApply(r, plan)
    BY <1>2, <2>1, Zenon DEF Check
  <2>4. PICK pc \in {"check", "mutate"}, i \in Profile :
          /\ apply' = [apply EXCEPT ![r] = [apply[r] EXCEPT !.pc = pc, !.i = i, !.plan = plan]]
          /\ pc = "mutate" => MayApply(r, plan)
    <3>1. CASE apply[r].i < N /\ apply' = [apply EXCEPT ![r].i = @ + 1, ![r].plan = plan]
      <4>1. apply[r].i + 1 \in Profile
        BY <2>0, <3>1, ProfilesCounted DEF Profile
      <4>2. apply' = [apply EXCEPT ![r] = [apply[r] EXCEPT !.pc = "check", !.i = apply[r].i + 1, !.plan = plan]]
        BY <1>0, <2>0, <3>1, Zenon DEF ApplyRecord
      <4> QED BY <4>1, <4>2, Zenon
    <3>2. CASE /\ apply' = [apply EXCEPT ![r].pc = "mutate", ![r].i = 1, ![r].plan = plan]
               /\ MayApply(r, plan)
      <4>1. 1 \in Profile
        BY ProfilesCounted DEF Profile
      <4>2. apply' = [apply EXCEPT ![r] = [apply[r] EXCEPT !.pc = "mutate", !.i = 1, !.plan = plan]]
        BY <2>0, <3>2, Zenon DEF ApplyRecord
      <4> QED BY <3>2, <4>1, <4>2, Zenon
    <3> QED BY <2>3, <3>1, <3>2, ZenonT(60)
  <2>5. PICK new \in ApplyRecord : new = [apply[r] EXCEPT !.pc = pc, !.i = i, !.plan = plan]
    BY <2>0, Zenon DEF ApplyRecord
  <2>6. /\ apply' = [apply EXCEPT ![r] = new] /\ apply'[r] = new /\ new.pc = pc /\ new.plan = plan
        /\ new.seen = apply[r].seen /\ new.allow = apply[r].allow
    BY <2>0, <2>4, <2>5, Zenon DEF ApplyRecord
  <2>7. pc = "mutate" => new.allow = TRUE \/ \A p \in Profile : plan[p].action # "update"
    BY <2>0, <2>4, <2>6, Zenon DEF MayApply
  <2>8. ApplyInv(r)'
    BY <1>0, <2>0, <2>2, <2>6, <2>7, Zenon DEF ApplyInv, PlanSafe, Check
  <2> QED BY <1>0, <2>6, <2>8, ApplyKeeps, Zenon
<1> QED BY <1>1, <1>2, Zenon DEF Check

\* A change of one object, which stays with its owner, is such a growth.
LEMMA ObjectChanged ==
  ASSUME ProfilesTyped, NEW o \in Nat, NEW x, o \in DOMAIN objects => x \in Object /\ x.owned = objects[o].owned,
         objects' = [objects EXCEPT ![o] = x]
  PROVE  ObjectsGrow /\ \A u \in DOMAIN objects : u # o => objects'[u] = objects[u]
<1>1. objects \in Seq(Object)
  BY Zenon DEF ProfilesTyped
<1>2. CASE o \in DOMAIN objects
  <2>1. objects' \in Seq(Object) /\ Len(objects') = Len(objects)
    BY <1>1, <1>2, Replaced
  <2>2. DOMAIN objects' = DOMAIN objects
    BY <1>1, Zenon
  <2>3. \A u \in DOMAIN objects : objects'[u] = IF u = o THEN x ELSE objects[u]
    BY <1>1, Zenon
  <2> QED BY <1>2, <2>1, <2>2, <2>3, Zenon DEF ObjectsGrow
<1>3. CASE o \notin DOMAIN objects
  <2>1. objects' = objects
    BY <1>1, <1>3
  <2> QED BY <1>1, <2>1, Zenon DEF ObjectsGrow
<1> QED BY <1>2, <1>3, Zenon

\* So is a new object.
LEMMA ObjectAdded ==
  ASSUME ProfilesTyped, NEW x \in Object, objects' = Append(objects, x)
  PROVE  /\ ObjectsGrow /\ \A u \in DOMAIN objects : objects'[u] = objects[u]
         /\ Len(objects) + 1 \in DOMAIN objects' /\ objects'[Len(objects) + 1] = x
         /\ Len(objects) + 1 \in Nat
<1>1. /\ objects \in Seq(Object) /\ DOMAIN objects = 1 .. Len(objects) /\ Len(objects) \in Nat
  BY DEF ProfilesTyped
<1>2. /\ objects' \in Seq(Object) /\ Len(objects') = Len(objects) + 1
      /\ \A u \in 1 .. Len(objects) : objects'[u] = objects[u]
      /\ objects'[Len(objects) + 1] = x
  BY <1>1, Appended
<1>3. DOMAIN objects' = 1 .. Len(objects) + 1
  BY <1>1, <1>2
<1> QED BY <1>1, <1>2, <1>3 DEF ObjectsGrow

\* The object a run is about to change is the template's, or there is none.
LEMMA PlanIsSafe ==
  ASSUME ProfilesInv, NEW r \in Run
  PROVE  /\ apply[r].i \in Profile /\ Plan(r) \in PlanRecord /\ Plan(r).object \in Nat
         /\ Plan(r).object \in DOMAIN objects =>
              objects[Plan(r).object] \in Object /\ objects[Plan(r).object].owned = TRUE
<1>1. /\ apply[r].i \in Profile /\ apply[r].plan \in [Profile -> PlanRecord] /\ ApplyInv(r)
      /\ objects \in Seq(Object)
  BY Zenon DEF ProfilesInv, ProfilesTyped, ApplyRecord
<1>2. Plan(r) \in PlanRecord /\ Plan(r).object \in Nat
  BY <1>1, Zenon DEF Plan, PlanRecord
<1>3. Plan(r).object # 0 => objects[Plan(r).object].owned = TRUE
  BY <1>1, Zenon DEF ApplyInv, PlanSafe, Plan
<1>4. 0 \notin DOMAIN objects
  BY <1>1
<1> QED BY <1>1, <1>2, <1>3, <1>4

\* What a change of the template's object by a run does to the objects.
LEMMA RunChanges ==
  ASSUME ProfilesInv, NEW r \in Run,
         \/ objects' = [objects EXCEPT ![Plan(r).object].desired = TRUE]
         \/ objects' = [objects EXCEPT ![Plan(r).object].assigned = {"pilot"}]
  PROVE  /\ ObjectsGrow
         /\ \A o \in DOMAIN objects : objects[o].owned # TRUE => objects'[o] = objects[o]
         /\ objects' = [objects EXCEPT ![Plan(r).object].assigned = {"pilot"}] =>
              \A o \in DOMAIN objects : objects'[o].desired = objects[o].desired
<1>1. PICK o \in Nat : /\ o = Plan(r).object
                       /\ o \in DOMAIN objects => objects[o] \in Object /\ objects[o].owned = TRUE
  BY PlanIsSafe, Zenon
<1>2. ProfilesTyped /\ objects \in Seq(Object)
  BY Zenon DEF ProfilesInv, ProfilesTyped
<1>3. CASE objects' = [objects EXCEPT ![o].desired = TRUE]
  <2>1. PICK x : x = [objects[o] EXCEPT !.desired = TRUE]
    BY Zenon
  <2>2. o \in DOMAIN objects => x \in Object /\ x.owned = objects[o].owned
    BY <1>1, <2>1, Zenon DEF Object
  <2>3. objects' = [objects EXCEPT ![o] = x]
    BY <1>3, <2>1, Zenon
  <2>4. ObjectsGrow /\ \A u \in DOMAIN objects : u # o => objects'[u] = objects[u]
    BY <1>2, <2>2, <2>3, ObjectChanged, Zenon
  <2>5. objects' = [objects EXCEPT ![o].assigned = {"pilot"}] =>
          \A u \in DOMAIN objects : objects'[u].desired = objects[u].desired
    BY <1>1, <1>2 DEF Object
  <2> QED BY <1>1, <2>4, <2>5, Zenon
<1>4. CASE objects' = [objects EXCEPT ![o].assigned = {"pilot"}]
  <2>1. PICK x : x = [objects[o] EXCEPT !.assigned = {"pilot"}]
    BY Zenon
  <2>2. o \in DOMAIN objects => x \in Object /\ x.owned = objects[o].owned /\ x.desired = objects[o].desired
    BY <1>1, <2>1, Zenon DEF Object, Target
  <2>3. objects' = [objects EXCEPT ![o] = x]
    BY <1>4, <2>1, Zenon
  <2>4. ObjectsGrow /\ \A u \in DOMAIN objects : u # o => objects'[u] = objects[u]
    BY <1>2, <2>2, <2>3, ObjectChanged, Zenon
  <2>5. \A u \in DOMAIN objects : objects'[u].desired = objects[u].desired
    BY <1>2, <2>2, <2>3, <2>4, Zenon
  <2> QED BY <1>1, <2>4, <2>5, Zenon
<1> QED BY <1>1, <1>3, <1>4, Zenon

\* The creation of an object by a run.
LEMMA RunAdds ==
  ASSUME ProfilesInv, NEW r \in Run,
         objects' = Append(objects, [profile |-> apply[r].i, owned |-> TRUE, desired |-> TRUE, assigned |-> {}])
  PROVE  /\ ObjectsGrow /\ \A o \in DOMAIN objects : objects'[o] = objects[o]
         /\ Len(objects) + 1 \in DOMAIN objects' /\ objects'[Len(objects) + 1].owned = TRUE
         /\ Len(objects) + 1 \in Nat
<1>1. PICK x \in Object : x = [profile |-> apply[r].i, owned |-> TRUE, desired |-> TRUE, assigned |-> {}]
  BY PlanIsSafe, Zenon DEF Object, Target
<1>2. x.owned = TRUE /\ objects' = Append(objects, x) /\ ProfilesTyped
  BY <1>1, Zenon DEF ProfilesInv
<1> QED BY <1>2, ObjectAdded, Zenon

\* POST makes the object the template's, PATCH and nothing at all leave it so.
LEMMA MutateKeeps ==
  ASSUME ProfilesInv, NEW r \in Run, Mutate(r)
  PROVE  ProfilesInv'
<1>0. apply[r].pc = "mutate" /\ UNCHANGED profileAdmin
  BY Zenon DEF Mutate, ProfileAt
<1>1. ASSUME objects' = Append(objects, [profile |-> apply[r].i, owned |-> TRUE, desired |-> TRUE, assigned |-> {}]),
             apply' = [apply EXCEPT ![r].pc = "assign", ![r].plan[apply[r].i].object = Len(objects) + 1],
             changed' = changed \cup {r}
      PROVE  ProfilesInv'
  <2>1. /\ apply[r] \in ApplyRecord /\ apply \in [Run -> ApplyRecord] /\ ApplyInv(r)
        /\ apply[r].i \in Profile /\ apply[r].plan \in [Profile -> PlanRecord]
    BY Zenon DEF ProfilesInv, ProfilesTyped, ApplyRecord
  <2>2. /\ ObjectsGrow
        /\ Len(objects) + 1 \in DOMAIN objects' /\ objects'[Len(objects) + 1].owned = TRUE
        /\ Len(objects) + 1 \in Nat
    BY <1>1, RunAdds, Zenon
  <2>3. PICK plan \in [Profile -> PlanRecord] :
          plan = [apply[r].plan EXCEPT ![apply[r].i].object = Len(objects) + 1]
    BY <2>1, <2>2, Zenon DEF PlanRecord
  <2>4. PICK new \in ApplyRecord : new = [apply[r] EXCEPT !.pc = "assign", !.plan = plan]
    BY <2>1, Zenon DEF ApplyRecord
  <2>5. apply' = [apply EXCEPT ![r] = new]
    BY <1>1, <2>1, <2>3, <2>4, Zenon DEF ApplyRecord
  <2>6. /\ apply'[r] = new /\ new.pc = "assign" /\ new.plan = plan
        /\ new.seen = apply[r].seen /\ new.allow = apply[r].allow
    BY <2>1, <2>4, <2>5, Zenon DEF ApplyRecord
  <2>7. \A p \in Profile : /\ plan[p].action = apply[r].plan[p].action
                           /\ plan[p].object = IF p = apply[r].i THEN Len(objects) + 1
                                               ELSE apply[r].plan[p].object
    BY <2>1, <2>3, Zenon DEF PlanRecord
  <2>8. \A p \in Profile : plan[p].object # 0 =>
          plan[p].object \in DOMAIN objects' /\ objects'[plan[p].object].owned = TRUE
    <3> SUFFICES ASSUME NEW p \in Profile, plan[p].object # 0
                 PROVE  plan[p].object \in DOMAIN objects' /\ objects'[plan[p].object].owned = TRUE
      BY Zenon
    <3>1. CASE p = apply[r].i
      BY <2>2, <2>7, <3>1, Zenon
    <3>2. CASE p # apply[r].i
      BY <2>1, <2>2, <2>7, <3>2, Zenon DEF ApplyInv, PlanSafe, ObjectsGrow
    <3> QED BY <3>1, <3>2, Zenon
  <2>9. /\ new.allow = TRUE \/ \A p \in Profile : plan[p].action # "update"
        /\ new.seen \subseteq DOMAIN objects'
    BY <1>0, <2>1, <2>2, <2>6, <2>7, SMTT(60) DEF ApplyInv, ObjectsGrow
  <2>10. ApplyInv(r)'
    BY <2>6, <2>8, <2>9, Zenon DEF ApplyInv, PlanSafe
  <2> QED BY <1>0, <1>1, <2>2, <2>5, <2>10, ApplyKeeps, Zenon
<1>2. ASSUME ProfileGoto(r, "assign"), changed' = changed \cup {r},
             objects' = [objects EXCEPT ![Plan(r).object].desired = TRUE]
      PROVE  ProfilesInv'
  <2>1. ObjectsGrow
    BY <1>2, RunChanges, Zenon
  <2> QED BY <1>0, <1>2, <2>1, ApplyMoves, Zenon
<1>3. ASSUME ProfileGoto(r, "assign"), UNCHANGED <<objects, changed>> PROVE ProfilesInv'
  <2>1. ObjectsGrow
    BY <1>3, Zenon DEF ObjectsGrow, ProfilesInv, ProfilesTyped
  <2> QED BY <1>0, <1>3, <2>1, ApplyMoves, Zenon
<1> QED BY <1>1, <1>2, <1>3, Zenon DEF Mutate

\* The assignment leaves the object the template's.
LEMMA AssignKeeps ==
  ASSUME ProfilesInv, NEW r \in Run, AssignProfile(r)
  PROVE  ProfilesInv'
<1>0. /\ apply[r].pc = "assign" /\ UNCHANGED profileAdmin /\ ProfileGoto(r, "verify")
      /\ changed' \subseteq changed \cup {r}
  BY Zenon DEF AssignProfile, ProfileAt
<1>1. ObjectsGrow
  <2>1. CASE objects' = [objects EXCEPT ![Plan(r).object].assigned = {"pilot"}]
    BY <2>1, RunChanges, Zenon
  <2>2. CASE UNCHANGED objects
    BY <2>2, Zenon DEF ObjectsGrow, ProfilesInv, ProfilesTyped
  <2> QED BY <2>1, <2>2, Zenon DEF AssignProfile
<1> QED BY <1>0, <1>1, ApplyMoves, Zenon

\* The loop over the profiles goes on or ends.
LEMMA NextProfileKeeps ==
  ASSUME ProfilesInv, NEW r \in Run, NEW entries, NextProfile(r, entries),
         apply[r].pc \in {"mutate", "verify"}, UNCHANGED <<objects, changed, profileAdmin>>
  PROVE  ProfilesInv'
<1>0. ObjectsGrow
  BY Zenon DEF ObjectsGrow, ProfilesInv, ProfilesTyped
<1>1. ASSUME apply[r].i < N, apply' = [apply EXCEPT ![r].pc = "mutate", ![r].i = @ + 1]
      PROVE  ProfilesInv'
  <2>1. apply[r] \in ApplyRecord /\ apply \in [Run -> ApplyRecord] /\ ApplyInv(r) /\ apply[r].i \in Profile
    BY Zenon DEF ProfilesInv, ProfilesTyped, ApplyRecord
  <2>2. apply[r].i + 1 \in Profile
    BY <1>1, <2>1, ProfilesCounted DEF Profile
  <2>3. PICK new \in ApplyRecord : new = [apply[r] EXCEPT !.pc = "mutate", !.i = apply[r].i + 1]
    BY <2>1, <2>2, Zenon DEF ApplyRecord
  <2>4. apply' = [apply EXCEPT ![r] = new]
    BY <1>1, <2>1, <2>3, Zenon DEF ApplyRecord
  <2>5. /\ apply'[r] = new /\ new.pc = "mutate" /\ new.plan = apply[r].plan
        /\ new.seen = apply[r].seen /\ new.allow = apply[r].allow
    BY <2>1, <2>3, <2>4, Zenon DEF ApplyRecord
  <2>6. ApplyInv(r)'
    BY <2>1, <2>5, Zenon DEF ApplyInv, PlanSafe
  <2> QED BY <1>0, <2>4, <2>6, ApplyKeeps, Zenon
<1>2. ASSUME NEW next \in {"done", "over"}, ProfileGoto(r, next) PROVE ProfilesInv'
  BY <1>0, <1>2, ApplyMoves, Zenon
<1> QED BY <1>1, <1>2 DEF NextProfile, ProfileGoto

\* The inventory lists the objects there are.
LEMMA InventoryKeeps ==
  ASSUME ProfilesInv, NEW r \in Run, Inventory(r)
  PROVE  ProfilesInv'
<1>1. /\ apply[r] \in ApplyRecord /\ apply \in [Run -> ApplyRecord] /\ ApplyInv(r)
      /\ DOMAIN objects \in SUBSET Nat
  BY DEF ProfilesInv, ProfilesTyped
<1>2. /\ apply' = [apply EXCEPT ![r].pc = "check", ![r].seen = DOMAIN objects]
      /\ apply[r].pc = "inventory" /\ UNCHANGED <<objects, changed, profileAdmin>>
  BY Zenon DEF Inventory, ProfileAt
<1>3. PICK new \in ApplyRecord : new = [apply[r] EXCEPT !.pc = "check", !.seen = DOMAIN objects]
  BY <1>1, Zenon DEF ApplyRecord
<1>4. apply' = [apply EXCEPT ![r] = new]
  BY <1>1, <1>2, <1>3, Zenon DEF ApplyRecord
<1>5. /\ apply'[r] = new /\ new.pc = "check" /\ new.plan = apply[r].plan /\ new.seen = DOMAIN objects
  BY <1>1, <1>3, <1>4, Zenon DEF ApplyRecord
<1>6. ApplyInv(r)'
  BY <1>1, <1>2, <1>5, Zenon DEF ApplyInv, PlanSafe
<1>7. ObjectsGrow
  BY <1>2, Zenon DEF ObjectsGrow, ProfilesInv, ProfilesTyped
<1> QED BY <1>2, <1>4, <1>6, <1>7, ApplyKeeps, Zenon

\* An administrator edits or adds objects and takes none over.
LEMMA AdministrateProfilesKeeps ==
  ASSUME ProfilesInv, AdministrateProfiles
  PROVE  ProfilesInv'
<1>0. ProfilesTyped /\ objects \in Seq(Object) /\ UNCHANGED <<apply, changed>> /\ profileAdmin' \in Nat
  <2>1. ProfilesTyped /\ objects \in Seq(Object) /\ profileAdmin \in Nat
    BY Zenon DEF ProfilesInv, ProfilesTyped
  <2>2. UNCHANGED <<apply, changed>> /\ profileAdmin' = profileAdmin + 1
    BY Zenon DEF AdministrateProfiles
  <2> QED BY <2>1, <2>2
<1>1. ObjectsGrow
  <2>1. ASSUME NEW o \in DOMAIN objects, objects' = [objects EXCEPT ![o].desired = FALSE] PROVE ObjectsGrow
    <3>0. objects[o] \in Object
      BY <1>0
    <3>1. PICK x \in Object : x = [objects[o] EXCEPT !.desired = FALSE]
      BY <3>0, Zenon DEF Object
    <3>2. x.owned = objects[o].owned /\ objects' = [objects EXCEPT ![o] = x] /\ o \in Nat
      BY <1>0, <2>1, <3>1 DEF Object
    <3> QED BY <1>0, <3>2, ObjectChanged, Zenon
  <2>2. ASSUME NEW o \in DOMAIN objects, objects' = [objects EXCEPT ![o].assigned = @ \cup {"other"}]
        PROVE  ObjectsGrow
    <3>0. objects[o] \in Object
      BY <1>0
    <3>1. PICK x \in Object : x = [objects[o] EXCEPT !.assigned = @ \cup {"other"}]
      BY <3>0, Zenon DEF Object, Target
    <3>2. x.owned = objects[o].owned /\ objects' = [objects EXCEPT ![o] = x] /\ o \in Nat
      BY <1>0, <2>2, <3>1 DEF Object
    <3> QED BY <1>0, <3>2, ObjectChanged, ZenonT(60)
  <2>3. ASSUME NEW p \in Profile,
               objects' = Append(objects, [profile |-> p, owned |-> FALSE, desired |-> FALSE, assigned |-> {"other"}])
        PROVE  ObjectsGrow
    <3>1. [profile |-> p, owned |-> FALSE, desired |-> FALSE, assigned |-> {"other"}] \in Object
      BY Zenon DEF Object, Target
    <3> QED BY <1>0, <2>3, <3>1, ObjectAdded, Zenon
  <2> QED BY <2>1, <2>2, <2>3, Zenon DEF AdministrateProfiles
<1>2. \A r \in Run : ApplyInv(r)'
  BY <1>0, <1>1, ApplyFrame, Zenon DEF ProfilesInv, ProfilesTyped
<1> QED BY <1>0, <1>1, <1>2, Zenon DEF ProfilesInv, ProfilesTyped, ObjectsGrow

\* The invariant of the profile script, for every number of profiles and runs.
THEOREM ProfilesInvariant == ProfilesSpec => []ProfilesInv
<1>1. ProfilesInit => ProfilesInv
  <2> SUFFICES ASSUME ProfilesInit PROVE ProfilesInv
    OBVIOUS
  <2>1. NoPlan \in PlanRecord /\ NoPlan.object = 0 /\ 1 \in Profile /\ objects \in Seq(Object)
    BY ProfilesCounted DEF NoPlan, PlanRecord, Profile, ProfilesInit
  <2>2. ASSUME NEW r \in Run
        PROVE  /\ apply[r] \in ApplyRecord /\ apply[r].pc = "new" /\ apply[r].seen = {}
               /\ \A p \in Profile : apply[r].plan[p] = NoPlan
    BY <2>1 DEF ProfilesInit, ApplyRecord
  <2>3. apply \in [Run -> ApplyRecord]
    BY <2>2, Zenon DEF ProfilesInit
  <2>4. \A r \in Run : ApplyInv(r)
    BY <2>1, <2>2, Zenon DEF ApplyInv, PlanSafe, ProfilesInit
  <2> QED BY <2>1, <2>3, <2>4, Zenon DEF ProfilesInv, ProfilesTyped, ProfilesInit
<1>2. ProfilesInv /\ [ProfilesNext]_profileVars => ProfilesInv'
  <2> SUFFICES ASSUME ProfilesInv, [ProfilesNext]_profileVars PROVE ProfilesInv'
    OBVIOUS
  <2>0. UNCHANGED objects => ObjectsGrow
    BY Zenon DEF ObjectsGrow, ProfilesInv, ProfilesTyped
  <2>1. ASSUME NEW r \in Run, BeginProfiles(r) PROVE ProfilesInv'
    BY <2>0, <2>1, ApplyMoves, Zenon DEF BeginProfiles, ProfileAt
  <2>2. ASSUME NEW r \in Run, Paginated(r) \/ DieProfiles(r) PROVE ProfilesInv'
    BY <2>0, <2>2, ApplyMoves, Zenon DEF Paginated, DieProfiles, ProfileAt
  <2>3. ASSUME NEW r \in Run, VerifyProfile(r) PROVE ProfilesInv'
    BY <2>0, <2>3, ApplyMoves, NextProfileKeeps, Zenon DEF VerifyProfile, ProfileAt
  <2>4. ASSUME NEW r \in Run, Decline(r) PROVE ProfilesInv'
    BY <2>4, NextProfileKeeps, Zenon DEF Decline, ProfileAt
  <2>5. CASE UNCHANGED profileVars
    BY <2>5, Zenon DEF profileVars, ProfilesInv, ProfilesTyped, ApplyInv, PlanSafe
  <2> QED
    BY <2>1, <2>2, <2>3, <2>4, <2>5, InventoryKeeps, CheckKeeps, MutateKeeps, AssignKeeps,
       AdministrateProfilesKeeps, Zenon DEF ProfilesNext, AdvanceProfiles
<1> QED BY <1>1, <1>2, PTL DEF ProfilesSpec

\* For every number of profiles and runs, at once or not, a run that the preflight
\* refuses has changed nothing in Intune.
THEOREM RefusedAlwaysChangedNothing == ProfilesSpec => []RefusedChangedNothing
<1>1. ProfilesInv => RefusedChangedNothing
  BY Zenon DEF ProfilesInv, ApplyInv, RefusedChangedNothing, ProfileAt
<1> QED BY <1>1, ProfilesInvariant, PTL

\* For every number of profiles and runs, at once or not, a run changes no profile the
\* template does not own, and replaces an edited one only with -AllowProfileUpdate.
THEOREM ProfilesAlwaysGuarded == ProfilesSpec => ProfilesGuarded
<1>1. ASSUME ProfilesInv, ProfilesNext PROVE ForeignProfilesUntouched /\ ReplacesOnlyAllowed
  <2>0. \A o \in DOMAIN objects : objects[o].owned \in BOOLEAN /\ objects[o].desired \in BOOLEAN
    <3>1. \A o \in DOMAIN objects : objects[o] \in Object
      BY <1>1 DEF ProfilesInv, ProfilesTyped
    <3> QED BY <3>1, Zenon DEF Object
  <2>1. ASSUME NEW r \in Run, Mutate(r), Plan(r).action = "update"
        PROVE  ForeignProfilesUntouched /\ ReplacesOnlyAllowed
    <3>1. objects' = [objects EXCEPT ![Plan(r).object].desired = TRUE] /\ ProfileGoto(r, "assign")
          /\ apply[r].pc = "mutate"
      BY <2>1, Zenon DEF Mutate, ProfileAt
    <3>2. \A o \in DOMAIN objects : objects[o].owned # TRUE => objects'[o] = objects[o]
      BY <1>1, <3>1, RunChanges, Zenon
    <3>3. apply[r].allow = TRUE
      BY <1>1, <2>1, <3>1, PlanIsSafe, Zenon DEF ProfilesInv, ApplyInv, Plan
    <3>4. apply'[r] # apply[r]
      <4>1. apply'[r].pc = "assign"
        BY <1>1, <3>1, Zenon DEF ProfileGoto, ProfilesInv, ProfilesTyped, ApplyRecord
      <4> QED BY <3>1, <4>1, Zenon
    <3>5. ForeignProfilesUntouched
      BY <2>0, <3>2, Zenon DEF ForeignProfilesUntouched
    <3>6. ReplacesOnlyAllowed
      BY <3>1, <3>3, <3>4, Zenon DEF ReplacesOnlyAllowed, ProfileAt
    <3> QED BY <3>5, <3>6, Zenon
  <2>2. ASSUME NEW r \in Run, Mutate(r), Plan(r).action = "create"
        PROVE  ForeignProfilesUntouched /\ ReplacesOnlyAllowed
    <3>1. \A o \in DOMAIN objects : objects'[o] = objects[o]
      BY <1>1, <2>2, RunAdds, Zenon DEF Mutate
    <3> QED BY <3>1, Zenon DEF ForeignProfilesUntouched, ReplacesOnlyAllowed
  <2>3. ASSUME NEW r \in Run, objects' = [objects EXCEPT ![Plan(r).object].assigned = {"pilot"}]
        PROVE  ForeignProfilesUntouched /\ ReplacesOnlyAllowed
    <3>1. /\ \A o \in DOMAIN objects : objects[o].owned # TRUE => objects'[o] = objects[o]
          /\ \A o \in DOMAIN objects : objects'[o].desired = objects[o].desired
      BY <1>1, <2>3, RunChanges, Zenon
    <3>2. ForeignProfilesUntouched
      BY <2>0, <3>1, Zenon DEF ForeignProfilesUntouched
    <3>3. ReplacesOnlyAllowed
      BY <3>1, Zenon DEF ReplacesOnlyAllowed
    <3> QED BY <3>2, <3>3
  <2>4. CASE UNCHANGED objects
    BY <2>4, Zenon DEF ForeignProfilesUntouched, ReplacesOnlyAllowed
  <2>5. CASE AdministrateProfiles
    <3>1. profileAdmin' # profileAdmin /\ objects \in Seq(Object)
      BY <1>1, <2>5 DEF AdministrateProfiles, ProfilesInv, ProfilesTyped
    <3>2. ForeignProfilesUntouched
      BY <3>1, Zenon DEF ForeignProfilesUntouched
    <3>3. ASSUME NEW o \in DOMAIN objects, objects[o].desired = FALSE PROVE objects'[o].desired = FALSE
      <4>1. objects[o] \in Object /\ o \in 1 .. Len(objects)
        BY <3>1
      <4>2. CASE \E u \in DOMAIN objects : objects' = [objects EXCEPT ![u].desired = FALSE]
        BY <3>1, <3>3, <4>1, <4>2, Zenon DEF Object
      <4>3. CASE \E u \in DOMAIN objects : objects' = [objects EXCEPT ![u].assigned = @ \cup {"other"}]
        BY <3>1, <3>3, <4>1, <4>3, Zenon DEF Object
      <4>4. CASE \E p \in Profile :
                   objects' = Append(objects, [profile |-> p, owned |-> FALSE, desired |-> FALSE,
                                               assigned |-> {"other"}])
        <5>1. objects'[o] = objects[o]
          BY <3>1, <4>1, <4>4
        <5> QED BY <3>3, <5>1, Zenon
      <4> QED BY <2>5, <4>2, <4>3, <4>4, Zenon DEF AdministrateProfiles
    <3>4. ReplacesOnlyAllowed
      BY <2>0, <3>3, Zenon DEF ReplacesOnlyAllowed
    <3> QED BY <3>2, <3>4, Zenon
  <2>6. ASSUME NEW r \in Run, Mutate(r)
        PROVE  Plan(r).action \in {"update", "create"} \/ UNCHANGED objects
    BY <2>6, Zenon DEF Mutate
  <2>7. ASSUME NEW r \in Run, AssignProfile(r)
        PROVE  objects' = [objects EXCEPT ![Plan(r).object].assigned = {"pilot"}] \/ UNCHANGED objects
    BY <2>7, Zenon DEF AssignProfile
  <2>8. ASSUME NEW r \in Run,
               BeginProfiles(r) \/ Inventory(r) \/ Paginated(r) \/ Check(r) \/ VerifyProfile(r)
                 \/ Decline(r) \/ DieProfiles(r)
        PROVE  UNCHANGED objects
    BY <2>8, Zenon DEF BeginProfiles, Inventory, Paginated, Check, VerifyProfile, Decline, DieProfiles
  <2> QED
    BY <1>1, <2>1, <2>2, <2>3, <2>4, <2>5, <2>6, <2>7, <2>8, Zenon DEF ProfilesNext, AdvanceProfiles
<1>2. ProfilesInv /\ [ProfilesNext]_profileVars =>
        [ForeignProfilesUntouched /\ ReplacesOnlyAllowed]_profileVars
  BY <1>1, Zenon
<1> QED BY <1>2, ProfilesInvariant, PTL DEF ProfilesSpec, ProfilesGuarded

-----------------------------------------------------------------------------
(* One run of the package script at a time.                                *)

\* What a run that is alone can rely on: no app has come since it found none; the
\* committed app it keeps is published, and then assigned exactly to the pilot.
Alone(r) ==
  /\ run[r].pc = "create" => DOMAIN apps = {}
  /\ run[r].pc \in {"exact", "verify"} => apps[run[r].app].published = TRUE
  /\ run[r].pc = "verify" => ExactAssignment(apps[run[r].app])

OwnedOnce == \A a, b \in DOMAIN apps : apps[a].owned = TRUE /\ apps[b].owned = TRUE => a = b

SerialInv ==
  /\ \A p, q \in Live : p = q
  /\ \A r \in Run : Alone(r)
  /\ OwnedOnce

\* A step of a run changes no other run.
LEMMA RunMoves ==
  ASSUME Typed, NEW r \in Run, Begin(r) \/ Advance(r) \/ GiveUp(r) \/ Die(r)
  PROVE  \A q \in Run \ {r} : run'[q] = run[q]
<1>. SUFFICES ASSUME NEW q \in Run, q # r PROVE run'[q] = run[q]
  BY Zenon
<1>0. run \in [Run -> [pc : Steps, app : Nat, content : Nat]]
  BY Zenon DEF Typed
<1>a. ASSUME NEW pc, Goto(r, pc) PROVE run'[q] = run[q]
  BY <1>0, <1>a, Zenon DEF Goto
<1>1. CASE Look(r) \/ Create(r)
  BY <1>0, <1>1, <1>a, Zenon DEF Look, Create
<1>2. CASE InspectApp(r)
  BY <1>0, <1>2, <1>a, Zenon DEF InspectApp, KeepApp
<1>3. CASE Contents(r) \/ AddContent(r)
  BY <1>0, <1>3, <1>a, Zenon DEF Contents, AddContent
<1>4. CASE Begin(r) \/ GiveUp(r) \/ Die(r) \/ Exact(r) \/ Verify(r) \/ Unassigned(r) \/ NoFiles(r)
  BY <1>4, <1>a, Zenon DEF Begin, GiveUp, Die, Exact, Verify, Receipt, Unassigned, NoFiles
<1>5. CASE \/ AddFile(r) \/ Wait(r, "uri", "ready", "send") \/ Send(r) \/ CommitFile(r)
           \/ Wait(r, "wait", "committed", "patch") \/ Patch(r) \/ Published(r) \/ Assign(r)
           \/ ReadBack(r)
  BY <1>5, <1>a, Zenon DEF AddFile, Wait, Send, CommitFile, Patch, Published, Assign, ReadBack, Receipt
<1>. QED BY <1>1, <1>2, <1>3, <1>4, <1>5, Zenon DEF Advance

\* A run that takes a step is live, or is the first to be so.
LEMMA StepsAlone ==
  ASSUME NEW r \in Run, Begin(r) => Live = {}, Begin(r) \/ Advance(r) \/ GiveUp(r) \/ Die(r)
  PROVE  r \in Live \/ Live = {}
<1>1. CASE Begin(r)
  BY <1>1, Zenon
<1>2. CASE Look(r) \/ Create(r) \/ InspectApp(r) \/ Exact(r) \/ Verify(r) \/ Unassigned(r) \/ GiveUp(r) \/ Die(r)
  BY <1>2, Zenon DEF Look, Create, InspectApp, Exact, Verify, Unassigned, GiveUp, Die, At, Live
<1>3. CASE \/ Contents(r) \/ AddContent(r) \/ NoFiles(r) \/ AddFile(r)
           \/ Wait(r, "uri", "ready", "send") \/ Send(r) \/ CommitFile(r)
           \/ Wait(r, "wait", "committed", "patch") \/ Patch(r) \/ Published(r) \/ Assign(r)
           \/ ReadBack(r)
  BY <1>3, Zenon DEF Contents, AddContent, NoFiles, AddFile, Wait, Send, CommitFile, Patch, Published,
                     Assign, ReadBack, At, Live
<1>. QED BY <1>1, <1>2, <1>3, Zenon DEF Advance

\* So the others are new or over, and have nothing to rely on.
LEMMA AloneKeeps ==
  ASSUME SerialInv, NEW r \in Run, r \in Live \/ Live = {},
         \A q \in Run \ {r} : run'[q] = run[q], Alone(r)', OwnedOnce'
  PROVE  SerialInv'
<1>1. \A q \in Run \ {r} : run'[q].pc \in {"new", "over"}
  BY Zenon DEF SerialInv, Live
<1>2. \A p, q \in Live' : p = q
  BY <1>1, Zenon DEF Live
<1>3. \A q \in Run \ {r} : Alone(q)'
  BY <1>1, Zenon DEF Alone
<1>. QED BY <1>2, <1>3, Zenon DEF SerialInv

\* A changed app has the owner it had.
LEMMA OwnerKept ==
  ASSUME Typed, OwnedOnce, DOMAIN apps' = DOMAIN apps,
         \A a \in DOMAIN apps : apps'[a].owned = apps[a].owned
  PROVE  OwnedOnce'
BY Zenon DEF OwnedOnce

\* The steps of a run.
LEMMA AdvanceAlone ==
  ASSUME IInv, SerialInv, NEW r \in Run, Begin(r) \/ Advance(r) \/ GiveUp(r) \/ Die(r)
  PROVE  Alone(r)' /\ OwnedOnce'
<1>0. /\ Typed /\ RunInv(r) /\ Alone(r) /\ OwnedOnce
      /\ run[r] \in [pc : Steps, app : Nat, content : Nat] /\ r \in DOMAIN run
  BY Zenon DEF IInv, SerialInv, Typed
<1>a. ASSUME NEW pc, Goto(r, pc) PROVE run'[r].pc = pc /\ run'[r].app = run[r].app
  BY <1>a, <1>0, Zenon DEF Goto
<1>b. ASSUME UNCHANGED apps PROVE OwnedOnce'
  BY <1>b, <1>0, Zenon DEF OwnedOnce
<1>c. ASSUME run'[r].pc \notin {"create", "exact", "verify"} PROVE Alone(r)'
  BY <1>c, Zenon DEF Alone
<1>1. CASE Look(r)
  <2>1. CASE Len(apps) = 0 /\ Goto(r, "create")
    <3>1. DOMAIN apps = {}
      BY <2>1, <1>0 DEF Typed
    <3>2. run'[r].pc = "create" /\ UNCHANGED apps
      BY <1>1, <2>1, <1>a, <1>0, Zenon DEF Look
    <3>. QED BY <3>1, <3>2, <1>b, Zenon DEF Alone
  <2>2. CASE run' = [run EXCEPT ![r].pc = "app", ![r].app = 1] \/ Goto(r, "over")
    <3>1. run' = [run EXCEPT ![r].pc = "app", ![r].app = 1] => run'[r].pc = "app"
      BY <1>0, Zenon
    <3>2. run'[r].pc \in {"app", "over"} /\ UNCHANGED apps
      BY <1>1, <2>2, <3>1, <1>a, Zenon DEF Look
    <3>. QED BY <3>2, <1>b, <1>c, Zenon
  <2>. QED BY <1>1, <2>1, <2>2, Zenon DEF Look
<1>2. CASE Create(r)
  <2>1. run'[r].pc = "contents"
    BY <1>2, <1>0, Zenon DEF Create
  <2>2. run[r].pc = "create" /\ DOMAIN apps = {}
    BY <1>2, <1>0, Zenon DEF Create, At, Alone
  <2>3. DOMAIN apps' \subseteq {1}
    BY <1>2, <2>2, <1>0 DEF Create, Typed
  <2>. QED BY <2>1, <2>3, <1>c, Zenon DEF OwnedOnce
<1>3. CASE InspectApp(r)
  <2>0. run[r].pc = "app" /\ UNCHANGED apps
    BY <1>3, Zenon DEF InspectApp, At
  <2>1. CASE \E pc \in {"unassigned", "over"} : Goto(r, pc)
    <3>1. run'[r].pc \in {"unassigned", "over"}
      BY <2>1, <1>a, <1>0, Zenon
    <3>. QED BY <3>1, <2>0, <1>b, <1>c, Zenon
  <2>2. CASE App(r).published /\ run' = [run EXCEPT ![r].pc = "exact", ![r].content = App(r).committed]
    <3>1. run'[r].pc = "exact" /\ run'[r].app = run[r].app
      BY <2>2, <1>0, Zenon
    <3>2. App(r) \in AppRecord
      BY <2>0, <1>0 DEF RunInv, Typed, App
    <3>3. apps[run[r].app].published = TRUE
      BY <2>2, <3>2, Zenon DEF AppRecord, App
    <3>. QED BY <3>1, <3>3, <2>0, <1>b, Zenon DEF Alone
  <2>. QED BY <1>3, <2>1, <2>2, Zenon DEF InspectApp, KeepApp
<1>4. CASE Exact(r)
  <2>0. run[r].pc = "exact" /\ UNCHANGED apps /\ apps[run[r].app].published = TRUE
    BY <1>4, <1>0, Zenon DEF Exact, At, Alone
  <2>1. CASE ExactAssignment(App(r)) /\ Goto(r, "verify")
    <3>1. run'[r].pc = "verify" /\ run'[r].app = run[r].app
      BY <2>1, <1>a, <1>0, Zenon
    <3>. QED BY <3>1, <2>0, <2>1, <1>b, Zenon DEF Alone, App, ExactAssignment
  <2>2. CASE Goto(r, "over")
    <3>1. run'[r].pc = "over"
      BY <2>2, <1>a, <1>0, Zenon
    <3>. QED BY <3>1, <2>0, <1>b, <1>c, Zenon
  <2>. QED BY <1>4, <2>1, <2>2, Zenon DEF Exact
<1>5. CASE Contents(r)
  <2>1. run' = [run EXCEPT ![r].pc = "nofiles", ![r].content = 1] => run'[r].pc = "nofiles"
    BY <1>0, Zenon
  <2>2. run'[r].pc \in {"content", "nofiles", "over"} /\ UNCHANGED apps
    BY <1>5, <2>1, <1>a, Zenon DEF Contents
  <2>. QED BY <2>2, <1>b, <1>c, Zenon
<1>6. CASE \/ Begin(r) \/ GiveUp(r) \/ Die(r) \/ Verify(r) \/ Unassigned(r) \/ NoFiles(r) \/ AddFile(r)
           \/ Wait(r, "uri", "ready", "send") \/ Send(r) \/ CommitFile(r)
           \/ Wait(r, "wait", "committed", "patch") \/ Published(r) \/ ReadBack(r)
  <2>1. UNCHANGED apps
    BY <1>6, Zenon DEF Begin, GiveUp, Die, Verify, Unassigned, NoFiles, AddFile, Wait, Send, CommitFile,
                       Published, ReadBack, Receipt
  <2>2. \E pc \in {"look", "contents", "file", "uri", "send", "commit", "wait", "patch", "assign", "over"} :
          Goto(r, pc)
    BY <1>6, Zenon DEF Begin, GiveUp, Die, Verify, Unassigned, NoFiles, AddFile, Wait, Send, CommitFile,
                       Published, ReadBack, Receipt
  <2>3. run'[r].pc \notin {"create", "exact", "verify"}
    BY <2>2, <1>a, Zenon
  <2>. QED BY <2>1, <2>3, <1>b, <1>c, Zenon
<1>7. CASE AddContent(r) \/ Patch(r) \/ Assign(r)
  <2>1. run'[r].pc \in {"file", "publish", "readback", "over"}
    <3>1. AddContent(r) => run'[r].pc = "file"
      BY <1>0, Zenon DEF AddContent
    <3>. QED BY <1>7, <3>1, <1>a, Zenon DEF Patch, Assign
  <2>2. run[r].app \in DOMAIN apps
    BY <1>7, <1>0, Zenon DEF AddContent, Patch, Assign, At, RunInv, Before, Accepting, Filed, Numbered, Taken
  <2>3. CASE UNCHANGED apps
    BY <2>1, <2>3, <1>b, <1>c, Zenon
  <2>4. CASE \/ apps' = [apps EXCEPT ![run[r].app].contents = @ + 1]
             \/ apps' = [apps EXCEPT ![run[r].app].committed = run[r].content]
             \/ apps' = [apps EXCEPT ![run[r].app].pilot = @ + 1]
    <3>1. apps \in [DOMAIN apps -> AppRecord]
      BY <1>0 DEF Typed
    <3>2. DOMAIN apps' = DOMAIN apps
      BY <2>4, <3>1, Zenon
    <3>3. \A a \in DOMAIN apps : apps'[a].owned = apps[a].owned
      <4>1. CASE apps' = [apps EXCEPT ![run[r].app].contents = @ + 1]
        BY <4>1, <3>1, Zenon DEF AppRecord
      <4>2. CASE apps' = [apps EXCEPT ![run[r].app].committed = run[r].content]
        BY <4>2, <3>1, Zenon DEF AppRecord
      <4>3. CASE apps' = [apps EXCEPT ![run[r].app].pilot = @ + 1]
        BY <4>3, <3>1, Zenon DEF AppRecord
      <4>. QED BY <2>4, <4>1, <4>2, <4>3, Zenon
    <3>. QED BY <3>2, <3>3, <2>1, <1>0, <1>c, OwnerKept, Zenon
  <2>. QED BY <1>7, <2>3, <2>4, Zenon DEF AddContent, Patch, Assign
<1>. QED BY <1>1, <1>2, <1>3, <1>4, <1>5, <1>6, <1>7, Zenon DEF Advance

\* Intune publishes: the app is the same in all else.
LEMMA PublishAlone ==
  ASSUME IInv, SerialInv, NEW a \in DOMAIN apps, Publish(a)
  PROVE  SerialInv'
<1>0. apps \in [DOMAIN apps -> AppRecord] /\ UNCHANGED run
  BY DEF IInv, Typed, Publish
<1>1. apps' = [apps EXCEPT ![a] = [apps[a] EXCEPT !.published = TRUE]]
  BY <1>0, Zenon DEF Publish
<1>2. DOMAIN apps' = DOMAIN apps
  BY <1>0, <1>1, Zenon
<1>3. \A b \in DOMAIN apps :
        /\ apps'[b].owned = apps[b].owned /\ apps'[b].pilot = apps[b].pilot
        /\ apps'[b].other = apps[b].other /\ (apps[b].published = TRUE => apps'[b].published = TRUE)
  BY <1>0, <1>1, Zenon DEF AppRecord
<1>4. OwnedOnce'
  BY <1>2, <1>3, OwnerKept, Zenon DEF IInv, SerialInv
<1>5. ASSUME NEW r \in Run PROVE Alone(r)'
  <2>1. Alone(r) /\ RunInv(r)
    BY Zenon DEF IInv, SerialInv
  <2>2. run[r].pc # "create"
    BY <2>1, Zenon DEF Alone
  <2>3. run[r].pc \in {"exact", "verify"} => run[r].app \in DOMAIN apps
    BY <2>1, Zenon DEF RunInv, Taken
  <2>4. run[r].pc = "verify" => ExactAssignment(apps'[run[r].app])
    BY <1>3, <2>1, <2>3, Zenon DEF Alone, ExactAssignment
  <2>5. run[r].pc \in {"exact", "verify"} => apps'[run[r].app].published = TRUE
    BY <1>3, <2>1, <2>3, Zenon DEF Alone
  <2>. QED BY <1>0, <2>2, <2>4, <2>5, Zenon DEF Alone, ExactAssignment
<1>. QED BY <1>0, <1>4, <1>5, Zenon DEF SerialInv, Live

\* An administrator works between runs and makes no app the template's.
LEMMA AdministrateAlone ==
  ASSUME IInv, SerialInv, Administrate
  PROVE  SerialInv'
<1>0. apps \in Seq(AppRecord) /\ OwnedOnce /\ UNCHANGED run /\ Live = {}
  BY Zenon DEF IInv, Typed, SerialInv, Administrate
<1>1. \A r \in Run : Alone(r)'
  BY <1>0, Zenon DEF Live, Alone
<1>2. ASSUME apps' = Append(apps, NewApp(FALSE)) PROVE OwnedOnce'
  <2>0. NewApp(FALSE) \in AppRecord
    BY Zenon DEF NewApp, AppRecord
  <2>. PICK n \in Nat : n = Len(apps) + 1
    BY <1>0
  <2>1. /\ DOMAIN apps' = DOMAIN apps \cup {n} /\ apps'[n] = NewApp(FALSE)
        /\ \A a \in DOMAIN apps : apps'[a] = apps[a]
    <3>1. /\ Len(apps') = n /\ apps'[n] = NewApp(FALSE) /\ apps' \in Seq(AppRecord)
          /\ \A a \in 1 .. Len(apps) : apps'[a] = apps[a]
      BY <1>0, <1>2, <2>0, Appended, ZenonT(60)
    <3>2. DOMAIN apps = 1 .. Len(apps) /\ DOMAIN apps' = 1 .. n /\ Len(apps) \in Nat
      BY <1>0, <3>1
    <3>. QED BY <3>1, <3>2
  <2>2. apps'[n].owned = FALSE
    BY <2>1 DEF NewApp
  <2>. QED BY <1>0, <2>1, <2>2, Zenon DEF OwnedOnce
<1>3. ASSUME NEW a \in DOMAIN apps, apps' = [apps EXCEPT ![a].other = TRUE] PROVE OwnedOnce'
  <2>0. apps \in [DOMAIN apps -> AppRecord]
    BY <1>0
  <2>1. DOMAIN apps' = DOMAIN apps /\ \A b \in DOMAIN apps : apps'[b].owned = apps[b].owned
    BY <1>3, <2>0, Zenon DEF AppRecord
  <2>. QED BY <1>0, <2>1, OwnerKept, Zenon DEF IInv
<1>4. OwnedOnce'
  BY <1>2, <1>3, Zenon DEF Administrate
<1>. QED BY <1>0, <1>1, <1>4, Zenon DEF SerialInv, Live

\* Every step, of a run that is alone, of Intune or of the administrator, keeps it.
LEMMA SerialKeeps ==
  ASSUME IInv, SerialInv, [Next]_vars, \A r \in Run : Begin(r) => Live = {}
  PROVE  SerialInv'
<1>1. ASSUME NEW r \in Run, Begin(r) \/ Advance(r) \/ GiveUp(r) \/ Die(r) PROVE SerialInv'
  <2>1. /\ Alone(r)' /\ OwnedOnce'
        /\ \A q \in Run \ {r} : run'[q] = run[q]
    BY <1>1, AdvanceAlone, RunMoves, Zenon DEF IInv
  <2>2. r \in Live \/ Live = {}
    BY <1>1, StepsAlone, Zenon
  <2>. QED BY <2>1, <2>2, AloneKeeps, Zenon
<1>2. CASE UNCHANGED <<apps, run>>
  BY <1>2, Zenon DEF SerialInv, Live, Alone, OwnedOnce, ExactAssignment
<1>3. ASSUME NEW r \in Run, Process(r) PROVE UNCHANGED <<apps, run>>
  BY <1>3, Zenon DEF Process
<1>4. UNCHANGED vars => UNCHANGED <<apps, run>>
  BY Zenon DEF vars
<1>. QED BY <1>1, <1>2, <1>3, <1>4, PublishAlone, AdministrateAlone, Zenon DEF Next

\* A receipt is written only where the run has established what it says.
LEMMA ReceiptStep ==
  ASSUME IInv, SerialInv, Next, receipts' # receipts
  PROVE  \E a \in DOMAIN apps : apps[a].published /\ ExactAssignment(apps[a])
<1>1. PICK r \in Run : Verify(r) \/ ReadBack(r)
  BY Zenon DEF Next, Begin, Advance, GiveUp, Die, Process, Publish, Administrate, Look, Create, InspectApp,
               Exact, Unassigned, Contents, AddContent, NoFiles, AddFile, Wait, Send, CommitFile, Patch,
               Published, Assign
<1>2. RunInv(r) /\ Alone(r)
  BY Zenon DEF IInv, SerialInv
<1>3. run[r].app \in DOMAIN apps /\ apps[run[r].app].published = TRUE
  BY <1>1, <1>2, Zenon DEF Verify, ReadBack, At, Alone, RunInv, Accepting, Filed, Numbered, Taken
<1>4. ExactAssignment(apps[run[r].app])
  BY <1>1, <1>2, Zenon DEF Verify, ReadBack, Receipt, At, Alone, App
<1>. QED BY <1>3, <1>4, Zenon

-----------------------------------------------------------------------------
(* One run of the profile script at a time.                                *)

Named(p) == {x \in DOMAIN objects : objects[x].profile = p}

\* The profile is in Intune as the template has it.
Applied(p) ==
  \E o \in DOMAIN objects :
    /\ Named(p) = {o}
    /\ objects[o].owned = TRUE /\ objects[o].desired = TRUE /\ objects[o].assigned = {"pilot"}

\* What a run has planned for a profile is true of the objects, and what it has made
\* of the profile before the assignment is.
Fits(r, p) ==
  LET t == apply[r].plan[p] IN
  /\ t.action = "create" => Named(p) = {}
  /\ t.action # "create" => Named(p) = {t.object} /\ objects[t.object].owned = TRUE
  /\ t.action \notin {"create", "update"} => objects[t.object].desired = TRUE

Made(r, p) ==
  LET o == apply[r].plan[p].object
  IN Named(p) = {o} /\ objects[o].owned = TRUE /\ objects[o].desired = TRUE

\* What a run that is alone can rely on: its plan is true as far as it is made, and
\* then from the profile it is at; what is in its receipt is applied.
ApplyAlone(r) ==
  LET pc == apply[r].pc
      i == apply[r].i
  IN /\ pc \in {"new", "inventory"} => i = 1
     /\ pc \in {"new", "inventory", "check"} => receipt[r] = {}
     /\ pc = "check" => apply[r].seen = DOMAIN objects /\ \A p \in Profile : p < i => Fits(r, p)
     /\ pc \in {"mutate", "assign", "verify"} =>
          /\ \A p \in receipt[r] : p < i /\ Applied(p)
          /\ \A p \in Profile : p > i => Fits(r, p)
     /\ pc = "mutate" => Fits(r, i)
     /\ pc \in {"assign", "verify"} => Made(r, i)

SerialProfiles ==
  /\ \A p, q \in LiveProfiles : p = q
  /\ receipt \in [Run -> SUBSET Profile]
  /\ \A r \in Run : ApplyAlone(r)

\* A step touches no object of a profile other than i.
OthersKept(i) ==
  \A p \in Profile \ {i} : Named(p)' = Named(p) /\ \A x \in Named(p) : objects'[x] = objects[x]

LEMMA OthersFrame ==
  ASSUME NEW i \in Profile, OthersKept(i), NEW p \in Profile, p # i, NEW r \in Run,
         apply'[r].plan[p] = apply[r].plan[p]
  PROVE  (Applied(p) => Applied(p)') /\ (Fits(r, p) => Fits(r, p)')
<1>1. Named(p)' = Named(p) /\ \A x \in Named(p) : objects'[x] = objects[x]
  BY Zenon DEF OthersKept
<1>2. ASSUME Applied(p) PROVE Applied(p)'
  <2>1. PICK o \in DOMAIN objects :
          /\ Named(p) = {o}
          /\ objects[o].owned = TRUE /\ objects[o].desired = TRUE /\ objects[o].assigned = {"pilot"}
    BY <1>2, Zenon DEF Applied
  <2>2. o \in Named(p) /\ o \in Named(p)' /\ objects'[o] = objects[o]
    BY <1>1, <2>1, Zenon
  <2>3. o \in DOMAIN objects'
    BY <2>2, Zenon DEF Named
  <2>. QED BY <1>1, <2>1, <2>2, <2>3, Zenon DEF Applied
<1>3. ASSUME Fits(r, p) PROVE Fits(r, p)'
  BY <1>1, <1>3, Zenon DEF Fits
<1>. QED BY <1>2, <1>3, Zenon

\* The step of a run that is alone.
LEMMA ApplyAloneKeeps ==
  ASSUME SerialProfiles, NEW r \in Run, r \in LiveProfiles \/ LiveProfiles = {},
         \A q \in Run \ {r} : apply'[q] = apply[q] /\ receipt'[q] = receipt[q],
         receipt' \in [Run -> SUBSET Profile], ApplyAlone(r)'
  PROVE  SerialProfiles'
<1>1. \A q \in Run \ {r} : apply'[q].pc \notin {"inventory", "check", "mutate", "assign", "verify"}
  BY Zenon DEF SerialProfiles, LiveProfiles
<1>2. \A p, q \in LiveProfiles' : p = q
  BY <1>1, Zenon DEF LiveProfiles
<1>3. \A q \in Run \ {r} : ApplyAlone(q)'
  BY <1>1, Zenon DEF ApplyAlone, SerialProfiles
<1>. QED BY <1>2, <1>3, Zenon DEF SerialProfiles

\* A run that takes a step is live, or is the first to be so.
LEMMA ApplySteps ==
  ASSUME NEW r \in Run, BeginProfiles(r) => LiveProfiles = {},
         BeginProfiles(r) \/ AdvanceProfiles(r) \/ Paginated(r) \/ Decline(r) \/ DieProfiles(r)
  PROVE  r \in LiveProfiles \/ LiveProfiles = {}
<1>1. CASE BeginProfiles(r)
  BY <1>1, Zenon
<1>2. CASE AdvanceProfiles(r) \/ Paginated(r) \/ Decline(r) \/ DieProfiles(r)
  BY <1>2, Zenon DEF AdvanceProfiles, Inventory, Check, Mutate, AssignProfile, VerifyProfile, Paginated,
                     Decline, DieProfiles, ProfileAt, LiveProfiles
<1>. QED BY <1>1, <1>2, Zenon

\* The other runs and receipts are left alone.
LEMMA ApplyOthers ==
  ASSUME ProfilesInv, SerialProfiles, NEW r \in Run,
         BeginProfiles(r) \/ AdvanceProfiles(r) \/ Paginated(r) \/ Decline(r) \/ DieProfiles(r)
  PROVE  /\ \A q \in Run \ {r} : apply'[q] = apply[q] /\ receipt'[q] = receipt[q]
         /\ receipt' \in [Run -> SUBSET Profile]
<1>0. /\ apply \in [Run -> ApplyRecord] /\ receipt \in [Run -> SUBSET Profile] /\ apply[r].i \in Profile
  BY Zenon DEF ProfilesInv, ProfilesTyped, SerialProfiles, ApplyRecord
<1>1. ASSUME NEW q \in Run, q # r PROVE apply'[q] = apply[q]
  <2>1. ASSUME NEW pc, ProfileGoto(r, pc) PROVE apply'[q] = apply[q]
    BY <1>0, <1>1, <2>1, Zenon DEF ProfileGoto
  <2>2. ASSUME NEW entries, NextProfile(r, entries) PROVE apply'[q] = apply[q]
    BY <1>0, <1>1, <2>2, Zenon DEF NextProfile
  <2>3. CASE BeginProfiles(r) \/ AssignProfile(r) \/ Paginated(r) \/ DieProfiles(r)
    BY <2>1, <2>3, Zenon DEF BeginProfiles, AssignProfile, Paginated, DieProfiles
  <2>4. CASE Inventory(r)
    BY <1>0, <1>1, <2>4, Zenon DEF Inventory
  <2>5. CASE Check(r)
    BY <1>0, <1>1, <2>1, <2>5, Zenon DEF Check
  <2>6. CASE Mutate(r)
    BY <1>0, <1>1, <2>1, <2>6, Zenon DEF Mutate
  <2>7. CASE VerifyProfile(r) \/ Decline(r)
    BY <2>1, <2>2, <2>7, Zenon DEF VerifyProfile, Decline
  <2>. QED BY <2>3, <2>4, <2>5, <2>6, <2>7, Zenon DEF AdvanceProfiles
<1>2. \/ UNCHANGED receipt
      \/ receipt' = [receipt EXCEPT ![r] = @ \cup {apply[r].i}]
  BY Zenon DEF AdvanceProfiles, BeginProfiles, Inventory, Check, Mutate, AssignProfile, VerifyProfile,
               Paginated, Decline, DieProfiles
<1>3. receipt' \in [Run -> SUBSET Profile] /\ \A q \in Run \ {r} : receipt'[q] = receipt[q]
  BY <1>0, <1>2, Zenon
<1>. QED BY <1>1, <1>3, Zenon

\* What the preflight plans for an acceptable profile is true of the objects.
LEMMA PlannedFits ==
  ASSUME ProfilesInv, NEW r \in Run, Acceptable(r), apply[r].seen = DOMAIN objects,
         \A o, u \in SameName(r) : o = u
  PROVE  /\ Planned(r).action = "create" => Named(apply[r].i) = {}
         /\ Planned(r).action # "create" =>
              /\ Named(apply[r].i) = {Planned(r).object} /\ objects[Planned(r).object].owned = TRUE
         /\ Planned(r).action \notin {"create", "update"} => objects[Planned(r).object].desired = TRUE
<1>0. SameName(r) = Named(apply[r].i)
  BY Zenon DEF SameName, Named
<1>1. CASE SameName(r) = {}
  <2>1. Planned(r).action = "create"
    BY <1>1, Zenon DEF Planned, NoPlan
  <2>. QED BY <1>0, <1>1, <2>1, Zenon
<1>2. CASE SameName(r) # {}
  <2>1. PICK o \in SameName(r) :
          Planned(r) = [action |-> IF objects[o].desired THEN "verify" ELSE "update", object |-> o,
                        assigned |-> objects[o].assigned = {"pilot"}]
    BY <1>2, Zenon DEF Planned
  <2>2. /\ Planned(r).object = o
        /\ Planned(r).action = IF objects[o].desired THEN "verify" ELSE "update"
    BY <2>1
  <2>3. o \in DOMAIN objects /\ objects \in Seq(Object)
    BY <2>1, Zenon DEF SameName, ProfilesInv, ProfilesTyped
  <2>4. objects[o] \in Object /\ objects[o].owned
    BY <2>1, <2>3 DEF Acceptable
  <2>5. objects[o].owned = TRUE /\ (Planned(r).action # "update" => objects[o].desired = TRUE)
    BY <2>2, <2>4, Zenon DEF Object
  <2>6. SameName(r) = {o}
    BY <2>1, Zenon
  <2>7. Planned(r).action # "create"
    BY <2>2, Zenon
  <2>. QED BY <1>0, <2>2, <2>5, <2>6, <2>7, Zenon
<1>. QED BY <1>1, <1>2, Zenon

\* A run that is not at work relies on nothing.
LEMMA EndedAlone ==
  ASSUME NEW r \in Run, apply'[r].pc \in {"done", "refused", "over"}
  PROVE  ApplyAlone(r)'
BY Zenon DEF ApplyAlone

\* The preflight extends the plan, and after the last profile begins to apply it.
LEMMA CheckAlone ==
  ASSUME ProfilesInv, SerialProfiles, NEW r \in Run, Check(r),
         Acceptable(r) => \A o, u \in SameName(r) : o = u
  PROVE  ApplyAlone(r)'
<1>0. /\ apply[r] \in ApplyRecord /\ apply \in [Run -> ApplyRecord] /\ ApplyAlone(r)
      /\ apply[r].i \in Profile /\ apply[r].plan \in [Profile -> PlanRecord]
      /\ apply[r].pc = "check" /\ UNCHANGED <<objects, receipt>>
  BY Zenon DEF ProfilesInv, ProfilesTyped, SerialProfiles, ApplyRecord, Check, ProfileAt
<1>1. /\ receipt[r] = {} /\ apply[r].seen = DOMAIN objects
      /\ \A p \in Profile : p < apply[r].i => Fits(r, p)
  BY <1>0, Zenon DEF ApplyAlone
<1>2. CASE ProfileGoto(r, "refused")
  <2>1. apply'[r].pc = "refused"
    BY <1>0, <1>2, Zenon DEF ProfileGoto, ApplyRecord
  <2>. QED BY <2>1, EndedAlone, Zenon
<1>3. CASE Acceptable(r) /\ ~ ProfileGoto(r, "refused")
  <2>1. PICK plan : plan = [apply[r].plan EXCEPT ![apply[r].i] = Planned(r)]
    BY Zenon
  <2>2. \A p \in Profile : plan[p] = IF p = apply[r].i THEN Planned(r) ELSE apply[r].plan[p]
    BY <1>0, <2>1, Zenon
  <2>3. \/ apply[r].i < N /\ apply' = [apply EXCEPT ![r].i = @ + 1, ![r].plan = plan]
        \/ /\ ~ (apply[r].i < N)
           /\ apply' = [apply EXCEPT ![r].pc = "mutate", ![r].i = 1, ![r].plan = plan]
    BY <1>3, <2>1, Zenon DEF Check
  <2>4. apply'[r].plan = plan
    <3>1. CASE apply' = [apply EXCEPT ![r].i = @ + 1, ![r].plan = plan]
      BY <1>0, <3>1, Zenon DEF ApplyRecord
    <3>2. CASE apply' = [apply EXCEPT ![r].pc = "mutate", ![r].i = 1, ![r].plan = plan]
      BY <1>0, <3>2, Zenon DEF ApplyRecord
    <3>. QED BY <2>3, <3>1, <3>2, Zenon
  <2>5. ASSUME NEW p \in Profile, p = apply[r].i PROVE Fits(r, p)'
    <3>1. apply'[r].plan[p] = Planned(r)
      BY <2>2, <2>4, <2>5, Zenon
    <3>2. Named(p)' = Named(p)
      BY <1>0, Zenon DEF Named
    <3>. QED BY <1>0, <1>1, <1>3, <2>5, <3>1, <3>2, PlannedFits, Zenon DEF Fits
  <2>6. ASSUME NEW p \in Profile, p < apply[r].i, p # apply[r].i PROVE Fits(r, p)'
    <3>1. apply'[r].plan[p] = apply[r].plan[p]
      BY <2>2, <2>4, <2>6, Zenon
    <3>2. Named(p)' = Named(p) /\ Fits(r, p)
      BY <1>0, <1>1, <2>6, Zenon DEF Named
    <3>. QED BY <1>0, <3>1, <3>2, Zenon DEF Fits
  <2>7. CASE apply[r].i < N /\ apply' = [apply EXCEPT ![r].i = @ + 1, ![r].plan = plan]
    <3>1. apply'[r].pc = "check" /\ apply'[r].i = apply[r].i + 1 /\ apply'[r].seen = DOMAIN objects'
      BY <1>0, <1>1, <2>7, Zenon DEF ApplyRecord
    <3>2. \A p \in Profile : p < apply[r].i + 1 => p = apply[r].i \/ (p < apply[r].i /\ p # apply[r].i)
      BY <1>0 DEF Profile
    <3>. QED BY <1>0, <1>1, <2>5, <2>6, <3>1, <3>2, Zenon DEF ApplyAlone
  <2>8. CASE /\ ~ (apply[r].i < N)
             /\ apply' = [apply EXCEPT ![r].pc = "mutate", ![r].i = 1, ![r].plan = plan]
    <3>1. apply'[r].pc = "mutate" /\ apply'[r].i = 1 /\ 1 \in Profile
      <4>1. 1 \in Profile
        BY ProfilesCounted DEF Profile
      <4>. QED BY <1>0, <2>8, <4>1, Zenon DEF ApplyRecord
    <3>2. \A p \in Profile : p = apply[r].i \/ (p < apply[r].i /\ p # apply[r].i)
      BY <1>0, <2>8, ProfilesCounted DEF Profile
    <3>3. \A p \in Profile : Fits(r, p)'
      BY <2>5, <2>6, <3>2, Zenon
    <3>. QED BY <1>0, <1>1, <3>1, <3>3, Zenon DEF ApplyAlone
  <2>. QED BY <2>3, <2>7, <2>8, Zenon
<1>. QED BY <1>2, <1>3, Zenon DEF Check

\* A step of the run at work on its profile that leaves the other profiles alone.
LEMMA WorkAlone ==
  ASSUME ProfilesInv, SerialProfiles, NEW r \in Run, apply[r].pc \in {"mutate", "assign"},
         apply'[r].pc \in {"assign", "verify"}, NEW i, i = apply[r].i, apply'[r].i = i,
         \A p \in Profile \ {i} : apply'[r].plan[p] = apply[r].plan[p],
         UNCHANGED receipt, OthersKept(i), Made(r, i)'
  PROVE  ApplyAlone(r)'
<1>0. i \in Profile /\ receipt[r] \in SUBSET Profile /\ ApplyAlone(r)
  BY Zenon DEF ProfilesInv, ProfilesTyped, SerialProfiles, ApplyRecord
<1>1. \A p \in Profile : (p < i \/ p > i) => p # i
  BY <1>0 DEF Profile
<1>2. \A p \in receipt[r] : p < i /\ Applied(p)'
  <2>. SUFFICES ASSUME NEW p \in receipt[r] PROVE p < i /\ Applied(p)'
    BY Zenon
  <2>1. p \in Profile /\ p < i /\ Applied(p)
    BY <1>0, Zenon DEF ApplyAlone
  <2>2. p # i /\ apply'[r].plan[p] = apply[r].plan[p]
    BY <1>1, <2>1, Zenon
  <2>. QED BY <1>0, <2>1, <2>2, OthersFrame, Zenon
<1>3. \A p \in Profile : p > i => Fits(r, p)'
  <2>. SUFFICES ASSUME NEW p \in Profile, p > i PROVE Fits(r, p)'
    BY Zenon
  <2>1. Fits(r, p) /\ p # i
    BY <1>0, <1>1, Zenon DEF ApplyAlone
  <2>. QED BY <1>0, <2>1, OthersFrame, Zenon
<1>. QED BY <1>2, <1>3, Zenon DEF ApplyAlone

\* A change of the only object of a profile.
LEMMA OnlyObjectChanged ==
  ASSUME ProfilesInv, NEW i, NEW o, Named(i) = {o}, objects[o].owned = TRUE,
         \/ objects' = [objects EXCEPT ![o].desired = TRUE]
         \/ objects' = [objects EXCEPT ![o].assigned = {"pilot"}] /\ objects[o].desired = TRUE
  PROVE  /\ OthersKept(i) /\ Named(i)' = {o}
         /\ objects'[o].owned = TRUE /\ objects'[o].desired = TRUE
<1>2. o \in DOMAIN objects /\ objects[o].profile = i
  BY Zenon DEF Named
<1>3. objects \in [DOMAIN objects -> Object]
  BY DEF ProfilesInv, ProfilesTyped
<1>4. PICK x : /\ objects' = [objects EXCEPT ![o] = x]
               /\ x.profile = i /\ x.owned = TRUE /\ x.desired = TRUE
  <2>1. objects[o] \in Object
    BY <1>2, <1>3, Zenon
  <2>2. CASE objects' = [objects EXCEPT ![o].desired = TRUE]
    <3>1. PICK x : x = [objects[o] EXCEPT !.desired = TRUE]
      BY Zenon
    <3>2. x.profile = i /\ x.owned = TRUE /\ x.desired = TRUE
      BY <1>2, <2>1, <3>1, Zenon DEF Object
    <3>3. objects' = [objects EXCEPT ![o] = x]
      BY <2>2, <3>1, Zenon
    <3>. QED BY <3>2, <3>3, Zenon
  <2>3. CASE objects' = [objects EXCEPT ![o].assigned = {"pilot"}] /\ objects[o].desired = TRUE
    <3>1. PICK x : x = [objects[o] EXCEPT !.assigned = {"pilot"}]
      BY Zenon
    <3>2. x.profile = i /\ x.owned = TRUE /\ x.desired = TRUE
      BY <1>2, <2>1, <2>3, <3>1, Zenon DEF Object
    <3>3. objects' = [objects EXCEPT ![o] = x]
      BY <2>3, <3>1, Zenon
    <3>. QED BY <3>2, <3>3, Zenon
  <2>. QED BY <2>2, <2>3, Zenon
<1>5. /\ DOMAIN objects' = DOMAIN objects /\ objects'[o] = x
      /\ \A u \in DOMAIN objects : u # o => objects'[u] = objects[u]
  BY <1>2, <1>3, <1>4, Zenon
<1>6. \A u \in DOMAIN objects : objects'[u].profile = objects[u].profile
  BY <1>2, <1>4, <1>5, Zenon
<1>7. \A p : Named(p)' = Named(p)
  BY <1>5, <1>6, Zenon DEF Named
<1>8. \A p \in Profile \ {i} : \A u \in Named(p) : objects'[u] = objects[u]
  BY <1>2, <1>5, Zenon DEF Named
<1>. QED BY <1>4, <1>5, <1>7, <1>8, Zenon DEF OthersKept

\* The creation of the only object of a profile.
LEMMA OnlyObjectAdded ==
  ASSUME ProfilesInv, NEW i \in Profile, Named(i) = {},
         objects' = Append(objects, [profile |-> i, owned |-> TRUE, desired |-> TRUE, assigned |-> {}])
  PROVE  /\ OthersKept(i) /\ Named(i)' = {Len(objects) + 1}
         /\ objects'[Len(objects) + 1].owned = TRUE /\ objects'[Len(objects) + 1].desired = TRUE
<1>1. PICK x \in Object : /\ objects' = Append(objects, x)
                          /\ x.profile = i /\ x.owned = TRUE /\ x.desired = TRUE
  <2>1. [profile |-> i, owned |-> TRUE, desired |-> TRUE, assigned |-> {}] \in Object
    BY Zenon DEF Object, Target
  <2>. QED BY <2>1, Zenon
<1>2. PICK n : /\ n = Len(objects) + 1
               /\ DOMAIN objects' = DOMAIN objects \cup {n} /\ n \notin DOMAIN objects
               /\ objects'[n] = x /\ \A u \in DOMAIN objects : objects'[u] = objects[u]
  <2>1. objects \in Seq(Object)
    BY Zenon DEF ProfilesInv, ProfilesTyped
  <2>. WITNESS Len(objects) + 1
  <2>. QED BY <1>1, <2>1
<1>3. Named(i)' = {n}
  BY <1>1, <1>2, Zenon DEF Named
<1>4. \A p \in Profile \ {i} : Named(p)' = Named(p)
  BY <1>1, <1>2, Zenon DEF Named
<1>5. \A p : \A u \in Named(p) : objects'[u] = objects[u]
  BY <1>2, Zenon DEF Named
<1>. QED BY <1>1, <1>2, <1>3, <1>4, <1>5, Zenon DEF OthersKept

\* Nothing changes.
LEMMA NothingChanged ==
  ASSUME UNCHANGED objects, NEW i
  PROVE  OthersKept(i) /\ Named(i)' = Named(i)
BY Zenon DEF OthersKept, Named

\* POST, PATCH or nothing: the profile's only object is as the template has it.
LEMMA MutateAlone ==
  ASSUME ProfilesInv, SerialProfiles, NEW r \in Run, Mutate(r)
  PROVE  ApplyAlone(r)'
<1>. PICK i \in Profile : i = apply[r].i
  BY Zenon DEF ProfilesInv, ProfilesTyped, ApplyRecord
<1>0. /\ apply[r] \in ApplyRecord /\ apply \in [Run -> ApplyRecord] /\ ApplyAlone(r)
      /\ apply[r].plan \in [Profile -> PlanRecord] /\ apply[r].plan[i] \in PlanRecord
      /\ apply[r].pc = "mutate" /\ UNCHANGED receipt /\ Plan(r) = apply[r].plan[i]
  BY Zenon DEF ProfilesInv, ProfilesTyped, SerialProfiles, ApplyRecord, Mutate, ProfileAt, Plan
<1>1. Fits(r, i)
  BY <1>0, Zenon DEF ApplyAlone
<1>2. CASE Plan(r).action = "create"
  <2>1. /\ objects' = Append(objects, [profile |-> i, owned |-> TRUE, desired |-> TRUE, assigned |-> {}])
        /\ apply' = [apply EXCEPT ![r].pc = "assign", ![r].plan[i].object = Len(objects) + 1]
    BY <1>2, Zenon DEF Mutate
  <2>2. Named(i) = {}
    BY <1>0, <1>1, <1>2, Zenon DEF Fits
  <2>3. /\ OthersKept(i) /\ Named(i)' = {Len(objects) + 1}
        /\ objects'[Len(objects) + 1].owned = TRUE /\ objects'[Len(objects) + 1].desired = TRUE
    BY <2>1, <2>2, OnlyObjectAdded, Zenon
  <2>4. /\ apply'[r].pc = "assign" /\ apply'[r].i = i
        /\ apply'[r].plan = [apply[r].plan EXCEPT ![i].object = Len(objects) + 1]
    BY <1>0, <2>1, Zenon DEF ApplyRecord
  <2>5. /\ apply'[r].plan[i].object = Len(objects) + 1
        /\ \A p \in Profile \ {i} : apply'[r].plan[p] = apply[r].plan[p]
    BY <1>0, <2>4, Zenon DEF PlanRecord
  <2>6. Made(r, i)'
    BY <2>3, <2>5, Zenon DEF Made
  <2>. QED BY <1>0, <2>3, <2>4, <2>5, <2>6, WorkAlone, Zenon
<1>3. CASE Plan(r).action # "create"
  <2>1. /\ ProfileGoto(r, "assign")
        /\ \/ objects' = [objects EXCEPT ![Plan(r).object].desired = TRUE]
           \/ Plan(r).action # "update" /\ UNCHANGED objects
    BY <1>3, Zenon DEF Mutate
  <2>2. apply'[r].pc = "assign" /\ apply'[r].i = i /\ apply'[r].plan = apply[r].plan
    BY <1>0, <2>1, Zenon DEF ProfileGoto, ApplyRecord
  <2>. PICK o : o = Plan(r).object
    BY Zenon
  <2>3. /\ Named(i) = {o} /\ objects[o].owned = TRUE
        /\ Plan(r).action # "update" => objects[o].desired = TRUE
    BY <1>0, <1>1, <1>3, Zenon DEF Fits
  <2>4. /\ OthersKept(i) /\ Named(i)' = {o}
        /\ objects'[o].owned = TRUE /\ objects'[o].desired = TRUE
    <3>1. CASE objects' = [objects EXCEPT ![o].desired = TRUE]
      BY <2>3, <3>1, OnlyObjectChanged, Zenon
    <3>2. CASE Plan(r).action # "update" /\ UNCHANGED objects
      BY <2>3, <3>2, NothingChanged, Zenon
    <3>. QED BY <2>1, <3>1, <3>2, Zenon
  <2>5. Made(r, i)'
    BY <1>0, <2>2, <2>4, Zenon DEF Made
  <2>. QED BY <1>0, <2>2, <2>4, <2>5, WorkAlone, Zenon
<1>. QED BY <1>2, <1>3, Zenon

\* The assignment leaves the only object as it is in all else.
LEMMA AssignAlone ==
  ASSUME ProfilesInv, SerialProfiles, NEW r \in Run, AssignProfile(r)
  PROVE  ApplyAlone(r)'
<1>. PICK i \in Profile : i = apply[r].i
  BY Zenon DEF ProfilesInv, ProfilesTyped, ApplyRecord
<1>. PICK o : o = Plan(r).object
  BY Zenon
<1>0. /\ apply[r] \in ApplyRecord /\ apply \in [Run -> ApplyRecord] /\ ApplyAlone(r)
      /\ apply[r].pc = "assign" /\ UNCHANGED receipt /\ o = apply[r].plan[i].object
      /\ ProfileGoto(r, "verify")
  BY Zenon DEF ProfilesInv, ProfilesTyped, SerialProfiles, AssignProfile, ProfileAt, Plan
<1>1. Named(i) = {o} /\ objects[o].owned = TRUE /\ objects[o].desired = TRUE
  BY <1>0, Zenon DEF ApplyAlone, Made
<1>2. apply'[r].pc = "verify" /\ apply'[r].i = i /\ apply'[r].plan = apply[r].plan
  BY <1>0, Zenon DEF ProfileGoto, ApplyRecord
<1>3. /\ OthersKept(i) /\ Named(i)' = {o}
      /\ objects'[o].owned = TRUE /\ objects'[o].desired = TRUE
  <2>1. CASE objects' = [objects EXCEPT ![o].assigned = {"pilot"}]
    BY <1>1, <2>1, OnlyObjectChanged, Zenon
  <2>2. CASE UNCHANGED objects
    BY <1>1, <2>2, NothingChanged, Zenon
  <2>. QED BY <2>1, <2>2, Zenon DEF AssignProfile
<1>4. Made(r, i)'
  BY <1>0, <1>2, <1>3, Zenon DEF Made
<1>. QED BY <1>0, <1>2, <1>3, <1>4, WorkAlone, Zenon

\* The read-back finds the profile applied.
LEMMA VerifiedApplied ==
  ASSUME SerialProfiles, NEW r \in Run, apply[r].pc = "verify", Exactly(Plan(r).object)
  PROVE  Applied(apply[r].i)
<1>. PICK o : o = Plan(r).object
  BY Zenon
<1>1. Named(apply[r].i) = {o} /\ objects[o].owned = TRUE /\ objects[o].desired = TRUE
  BY Zenon DEF SerialProfiles, ApplyAlone, Made, Plan
<1>2. o \in DOMAIN objects
  BY <1>1, Zenon DEF Named
<1>. QED BY <1>1, <1>2, Zenon DEF Applied, Exactly

\* The loop goes on with the profile now in the receipt, or without it.
LEMMA NextAlone ==
  ASSUME ProfilesInv, SerialProfiles, NEW r \in Run, apply[r].pc \in {"mutate", "verify"},
         NEW entries, NextProfile(r, entries), UNCHANGED objects,
         \A p \in receipt'[r] : p \in receipt[r] \/ (p = apply[r].i /\ Applied(p))
  PROVE  ApplyAlone(r)'
<1>. PICK i \in Profile : i = apply[r].i
  BY Zenon DEF ProfilesInv, ProfilesTyped, ApplyRecord
<1>0. /\ apply[r] \in ApplyRecord /\ apply \in [Run -> ApplyRecord] /\ ApplyAlone(r)
      /\ receipt[r] \in SUBSET Profile
  BY Zenon DEF ProfilesInv, ProfilesTyped, SerialProfiles
<1>1. CASE i < N /\ apply' = [apply EXCEPT ![r].pc = "mutate", ![r].i = @ + 1]
  <2>1. apply'[r].pc = "mutate" /\ apply'[r].i = i + 1 /\ apply'[r].plan = apply[r].plan
    BY <1>0, <1>1, Zenon DEF ApplyRecord
  <2>2. /\ i + 1 \in Profile /\ i + 1 > i /\ i < i + 1
        /\ \A p \in Profile : /\ p < i => p < i + 1
                              /\ p > i + 1 => p > i
    BY <1>1, ProfilesCounted DEF Profile
  <2>3. \A p : Applied(p) => Applied(p)'
    BY Zenon DEF Applied, Named
  <2>4. \A p : Fits(r, p) => Fits(r, p)'
    BY <2>1, Zenon DEF Fits, Named
  <2>5. \A p \in receipt'[r] : p < i + 1 /\ Applied(p)'
    BY <1>0, <2>2, <2>3, Zenon DEF ApplyAlone
  <2>6. Fits(r, i + 1)' /\ \A p \in Profile : p > i + 1 => Fits(r, p)'
    BY <1>0, <2>2, <2>4, Zenon DEF ApplyAlone
  <2>. QED BY <2>1, <2>5, <2>6, Zenon DEF ApplyAlone
<1>2. CASE \E pc \in {"done", "over"} : apply' = [apply EXCEPT ![r].pc = pc]
  <2>1. PICK pc \in {"done", "over"} : apply' = [apply EXCEPT ![r].pc = pc]
    BY <1>2, Zenon
  <2>2. apply'[r].pc = pc
    BY <1>0, <2>1, Zenon DEF ApplyRecord
  <2>. QED BY <2>1, <2>2, EndedAlone, Zenon
<1>. QED BY <1>1, <1>2 DEF NextProfile

\* An administrator works between runs.
LEMMA AdministrateProfilesAlone ==
  ASSUME SerialProfiles, AdministrateProfiles
  PROVE  SerialProfiles'
<1>1. LiveProfiles = {} /\ UNCHANGED <<apply, receipt>>
  BY Zenon DEF AdministrateProfiles
<1>2. \A r \in Run : apply[r].pc \notin {"inventory", "check", "mutate", "assign", "verify"}
  BY <1>1, Zenon DEF LiveProfiles
<1>3. \A r \in Run : ApplyAlone(r)'
  BY <1>1, <1>2, Zenon DEF SerialProfiles, ApplyAlone
<1>. QED BY <1>1, <1>3, Zenon DEF SerialProfiles, LiveProfiles

\* Every step, of a run that is alone or of the administrator, keeps it.
LEMMA SerialProfilesKeeps ==
  ASSUME ProfilesInv, SerialProfiles, [ProfilesNext]_profileVars,
         \A r \in Run : BeginProfiles(r) => LiveProfiles = {},
         \A r \in Run : Acceptable(r) => \A o, u \in SameName(r) : o = u
  PROVE  SerialProfiles'
<1>0. /\ apply \in [Run -> ApplyRecord] /\ receipt \in [Run -> SUBSET Profile]
      /\ \A r \in Run : ApplyAlone(r)
  BY Zenon DEF ProfilesInv, ProfilesTyped, SerialProfiles
<1>1. ASSUME NEW r \in Run, BeginProfiles(r) PROVE ApplyAlone(r)'
  <2>1. apply'[r].pc = "inventory" /\ apply'[r].i = apply[r].i /\ apply[r].pc = "new" /\ UNCHANGED receipt
    BY <1>0, <1>1, Zenon DEF BeginProfiles, ProfileAt, ProfileGoto, ApplyRecord
  <2>. QED BY <1>0, <2>1, Zenon DEF ApplyAlone
<1>2. ASSUME NEW r \in Run, Inventory(r) PROVE ApplyAlone(r)'
  <2>1. /\ apply'[r].pc = "check" /\ apply'[r].i = apply[r].i /\ apply'[r].seen = DOMAIN objects
        /\ apply[r].pc = "inventory" /\ UNCHANGED <<objects, receipt>>
    BY <1>0, <1>2, Zenon DEF Inventory, ProfileAt, ApplyRecord
  <2>2. apply'[r].i = 1 /\ receipt'[r] = {}
    BY <1>0, <2>1, Zenon DEF ApplyAlone
  <2>3. \A p \in Profile : ~ (p < 1)
    BY DEF Profile
  <2>. QED BY <2>1, <2>2, <2>3, Zenon DEF ApplyAlone
<1>3. ASSUME NEW r \in Run, VerifyProfile(r) PROVE ApplyAlone(r)'
  <2>1. CASE Exactly(Plan(r).object)
    <3>1. /\ receipt' = [receipt EXCEPT ![r] = @ \cup {apply[r].i}] /\ apply[r].pc = "verify"
          /\ NextProfile(r, receipt[r] \cup {apply[r].i}) /\ UNCHANGED objects
      BY <1>3, <2>1, Zenon DEF VerifyProfile, ProfileAt
    <3>2. \A p \in receipt'[r] : p \in receipt[r] \/ (p = apply[r].i /\ Applied(p))
      BY <1>0, <2>1, <3>1, VerifiedApplied, Zenon
    <3>. QED BY <3>1, <3>2, NextAlone, Zenon
  <2>2. CASE ~ Exactly(Plan(r).object)
    <3>1. ProfileGoto(r, "over")
      BY <1>3, <2>2, Zenon DEF VerifyProfile
    <3>2. apply'[r].pc = "over"
      BY <1>0, <3>1, Zenon DEF ProfileGoto, ApplyRecord
    <3>. QED BY <3>2, EndedAlone, Zenon
  <2>. QED BY <2>1, <2>2, Zenon
<1>4. ASSUME NEW r \in Run, Decline(r) PROVE ApplyAlone(r)'
  BY <1>4, NextAlone, Zenon DEF Decline, ProfileAt
<1>5. ASSUME NEW r \in Run, Paginated(r) \/ DieProfiles(r) PROVE ApplyAlone(r)'
  <2>1. apply'[r].pc \in {"refused", "over"}
    BY <1>0, <1>5, Zenon DEF Paginated, DieProfiles, ProfileGoto, ApplyRecord
  <2>. QED BY <2>1, EndedAlone, Zenon
<1>6. ASSUME NEW r \in Run,
             BeginProfiles(r) \/ AdvanceProfiles(r) \/ Paginated(r) \/ Decline(r) \/ DieProfiles(r)
      PROVE  SerialProfiles'
  <2>1. ApplyAlone(r)'
    BY <1>1, <1>2, <1>3, <1>4, <1>5, <1>6, CheckAlone, MutateAlone, AssignAlone, Zenon DEF AdvanceProfiles
  <2>. QED BY <1>6, <2>1, ApplySteps, ApplyOthers, ApplyAloneKeeps, Zenon
<1>7. CASE UNCHANGED profileVars
  <2>1. UNCHANGED <<objects, apply, receipt>>
    BY <1>7, Zenon DEF profileVars
  <2>2. \A p : Applied(p) => Applied(p)'
    BY <2>1, Zenon DEF Applied, Named
  <2>3. \A r \in Run, p \in Profile : (Fits(r, p) => Fits(r, p)') /\ (Made(r, p) => Made(r, p)')
    BY <2>1, ZenonT(60) DEF Fits, Made, Named
  <2>4. \A r \in Run : apply[r].i \in Profile
    BY <1>0, Zenon DEF ApplyRecord
  <2>5. \A r \in Run : ApplyAlone(r)'
    BY <1>0, <2>1, <2>2, <2>3, <2>4, Zenon DEF ApplyAlone
  <2>. QED BY <2>1, <2>5, Zenon DEF SerialProfiles, LiveProfiles
<1>. QED BY <1>6, <1>7, AdministrateProfilesAlone, Zenon DEF ProfilesNext

\* A receipt is completed only with every profile applied.
LEMMA CompleteStep ==
  ASSUME ProfilesInv, SerialProfiles, ProfilesNext
  PROVE  CompleteMeansApplied
<1>. SUFFICES ASSUME NEW r \in Run, apply'[r].pc = "done", apply[r].pc # "done"
              PROVE  \A p \in Profile : Applied(p)
  BY Zenon DEF CompleteMeansApplied, ProfileAt, Applied, Named
<1>0. /\ apply \in [Run -> ApplyRecord] /\ apply[r].i \in Profile /\ ApplyAlone(r)
      /\ receipt[r] \in SUBSET Profile
  BY Zenon DEF ProfilesInv, ProfilesTyped, SerialProfiles, ApplyRecord
<1>1. ASSUME NEW q \in Run,
             BeginProfiles(q) \/ AdvanceProfiles(q) \/ Paginated(q) \/ Decline(q) \/ DieProfiles(q)
      PROVE  q = r
  BY <1>1, ApplyOthers, Zenon
<1>2. VerifyProfile(r) \/ Decline(r)
  <2>a. ASSUME NEW pc, ProfileGoto(r, pc) PROVE pc = "done"
    BY <1>0, <2>a, Zenon DEF ProfileGoto, ApplyRecord
  <2>1. ~ BeginProfiles(r) /\ ~ AssignProfile(r) /\ ~ Paginated(r) /\ ~ DieProfiles(r)
    BY <2>a, Zenon DEF BeginProfiles, AssignProfile, Paginated, DieProfiles
  <2>2. ~ Inventory(r)
    BY <1>0, Zenon DEF Inventory, ApplyRecord
  <2>3. ~ Check(r)
    <3>. SUFFICES ASSUME Check(r) PROVE FALSE
      BY Zenon
    <3>1. PICK plan : \/ ProfileGoto(r, "refused")
                      \/ apply' = [apply EXCEPT ![r].i = @ + 1, ![r].plan = plan]
                      \/ apply' = [apply EXCEPT ![r].pc = "mutate", ![r].i = 1, ![r].plan = plan]
      BY Zenon DEF Check
    <3>. QED BY <1>0, <2>a, <3>1, ZenonT(60) DEF ApplyRecord
  <2>4. ~ Mutate(r)
    <3>. SUFFICES ASSUME Mutate(r) PROVE FALSE
      BY Zenon
    <3>1. \/ ProfileGoto(r, "assign")
          \/ apply' = [apply EXCEPT ![r].pc = "assign", ![r].plan[apply[r].i].object = Len(objects) + 1]
      BY Zenon DEF Mutate
    <3>. QED BY <1>0, <2>a, <3>1, Zenon DEF ApplyRecord
  <2>5. ~ AdministrateProfiles
    BY Zenon DEF AdministrateProfiles
  <2>. QED BY <1>1, <2>1, <2>2, <2>3, <2>4, <2>5, Zenon DEF ProfilesNext, AdvanceProfiles
<1>3. ASSUME NEW entries, NextProfile(r, entries) PROVE apply[r].i = N /\ entries = Profile
  <2>1. ~ (apply' = [apply EXCEPT ![r].pc = "mutate", ![r].i = @ + 1])
    BY <1>0, Zenon DEF ApplyRecord
  <2>2. ~ (apply' = [apply EXCEPT ![r].pc = "over"])
    BY <1>0, Zenon DEF ApplyRecord
  <2>. QED BY <1>3, <2>1, <2>2, Zenon DEF NextProfile
<1>4. CASE VerifyProfile(r)
  <2>1. apply[r].pc = "verify"
    BY <1>4, Zenon DEF VerifyProfile, ProfileAt
  <2>2. Exactly(Plan(r).object)
    BY <1>0, <1>4, Zenon DEF VerifyProfile, ProfileGoto, ApplyRecord
  <2>3. receipt[r] \cup {apply[r].i} = Profile
    BY <1>3, <1>4, <2>2, Zenon DEF VerifyProfile
  <2>4. Applied(apply[r].i)
    BY <2>1, <2>2, VerifiedApplied, Zenon
  <2>5. \A p \in receipt[r] : Applied(p)
    BY <1>0, <2>1, Zenon DEF ApplyAlone
  <2>. QED BY <2>3, <2>4, <2>5, Zenon
<1>5. CASE Decline(r)
  <2>1. apply[r].pc = "mutate" /\ receipt[r] = Profile
    BY <1>3, <1>5, Zenon DEF Decline, ProfileAt
  <2>2. \A p \in receipt[r] : Applied(p)
    BY <1>0, <2>1, Zenon DEF ApplyAlone
  <2>. QED BY <2>1, <2>2, Zenon
<1>. QED BY <1>2, <1>4, <1>5, Zenon

-----------------------------------------------------------------------------
(* The theorems of serial runs.                                            *)

INSTANCE FiniteSetTheorems

\* No run starts beside a live one.
LEMMA NoneLive ==
  ASSUME MaxLive = 1, IsFiniteSet(Run), NEW S \in SUBSET Run, Cardinality(S) < MaxLive
  PROVE  S = {}
<1>1. IsFiniteSet(S)
  BY FS_Subset, Zenon
<1>2. Cardinality(S) \in Nat
  BY <1>1, FS_CardinalityType, Zenon
<1>3. Cardinality(S) = 0
  BY <1>2
<1>. QED BY <1>1, <1>3, FS_EmptySet, Zenon

\* The objects that pass the preflight of a profile are one at most.
LEMMA AcceptableOnce ==
  ASSUME ProfilesInv, NEW r \in Run, Acceptable(r)
  PROVE  \A o, u \in SameName(r) : o = u
<1>1. SameName(r) \in SUBSET (1 .. Len(objects)) /\ Len(objects) \in Nat
  BY DEF SameName, ProfilesInv, ProfilesTyped, ApplyInv
<1>2. IsFiniteSet(1 .. Len(objects))
  BY <1>1, FS_Interval
<1>3. IsFiniteSet(SameName(r))
  BY <1>1, <1>2, FS_Subset, Zenon
<1>4. Cardinality(SameName(r)) \in Nat /\ Cardinality(SameName(r)) <= 1
  BY <1>3, FS_CardinalityType, Zenon DEF Acceptable
<1>5. Cardinality(SameName(r)) = 0 \/ Cardinality(SameName(r)) = 1
  BY <1>4
<1>6. CASE Cardinality(SameName(r)) = 0
  BY <1>3, <1>6, FS_EmptySet, Zenon
<1>7. CASE Cardinality(SameName(r)) = 1
  <2>1. PICK x : SameName(r) = {x}
    BY <1>3, <1>7, FS_Singleton, Zenon
  <2>. QED BY <2>1, Zenon
<1>. QED BY <1>5, <1>6, <1>7, Zenon

\* With one run at a time, a run of the package can rely on what it has read.
THEOREM SerialInvariant ==
  ASSUME MaxLive = 1, IsFiniteSet(Run)
  PROVE  Spec => []SerialInv
<1>1. Init => SerialInv
  <2>. SUFFICES ASSUME Init PROVE SerialInv
    BY Zenon
  <2>1. DOMAIN apps = {}
    BY DEF Init
  <2>. QED BY <2>1, Zenon DEF Init, SerialInv, Live, Alone, OwnedOnce
<1>2. IInv /\ SerialInv /\ [Next]_vars => SerialInv'
  <2>. SUFFICES ASSUME IInv, SerialInv, [Next]_vars PROVE SerialInv'
    BY Zenon
  <2>1. ASSUME NEW r \in Run, Begin(r) PROVE Live = {}
    <3>1. Live \in SUBSET Run /\ Cardinality(Live) < MaxLive
      BY <2>1, Zenon DEF Begin, Live
    <3>. QED BY <3>1, NoneLive, Zenon
  <2>. QED BY <2>1, SerialKeeps, Zenon
<1>. QED BY <1>1, <1>2, AlwaysIInv, PTL DEF Spec

\* With one run at a time, and however many are killed, the template never owns two
\* apps: the inventory that finds none is still true when the app is created.
THEOREM SerialOwnsOnce ==
  ASSUME MaxLive = 1, IsFiniteSet(Run)
  PROVE  Spec => []OneOwnedApp
<1>1. IInv /\ SerialInv => OneOwnedApp
  <2>. SUFFICES ASSUME IInv, SerialInv PROVE OneOwnedApp
    BY Zenon
  <2>. DEFINE S == {a \in DOMAIN apps : apps[a].owned}
  <2>1. \A a \in DOMAIN apps : apps[a] \in AppRecord
    BY DEF IInv, Typed
  <2>2. \A a, b \in S : a = b
    BY <2>1, Zenon DEF SerialInv, OwnedOnce, AppRecord
  <2>3. Cardinality(S) \in {0, 1}
    <3>1. CASE S = {}
      <4>1. Cardinality(S) = 0
        BY <3>1, FS_EmptySet, Zenon
      <4>. QED BY <4>1, Zenon
    <3>2. CASE S # {}
      <4>1. PICK a : S = {a}
        BY <2>2, <3>2, Zenon
      <4>2. Cardinality(S) = 1
        BY <4>1, FS_Singleton, Zenon
      <4>. QED BY <4>2, Zenon
    <3>. QED BY <3>1, <3>2, Zenon
  <2>. QED BY <2>3 DEF OneOwnedApp
<1>. QED BY <1>1, AlwaysIInv, SerialInvariant, PTL

\* With one run at a time a receipt is written only for an app that is then required
\* for the pilot group, once, and for nobody else.
THEOREM SerialReceiptsExact ==
  ASSUME MaxLive = 1, IsFiniteSet(Run)
  PROVE  Spec => [][ReceiptExact]_vars
<1>1. IInv /\ SerialInv /\ [Next]_vars => [ReceiptExact]_vars
  BY ReceiptStep, Zenon DEF ReceiptExact
<1>. QED BY <1>1, AlwaysIInv, SerialInvariant, PTL DEF Spec

\* With one run at a time, a run of the profiles can rely on its plan.
THEOREM SerialProfilesInvariant ==
  ASSUME MaxLive = 1, IsFiniteSet(Run)
  PROVE  ProfilesSpec => []SerialProfiles
<1>1. ProfilesInit => SerialProfiles
  <2>. SUFFICES ASSUME ProfilesInit PROVE SerialProfiles
    BY Zenon
  <2>1. receipt \in [Run -> SUBSET Profile]
    BY Zenon DEF ProfilesInit
  <2>2. \A r \in Run : apply[r].pc = "new" /\ apply[r].i = 1 /\ receipt[r] = {}
    BY DEF ProfilesInit
  <2>. QED BY <2>1, <2>2, Zenon DEF SerialProfiles, LiveProfiles, ApplyAlone
<1>2. ProfilesInv /\ SerialProfiles /\ [ProfilesNext]_profileVars => SerialProfiles'
  <2>. SUFFICES ASSUME ProfilesInv, SerialProfiles, [ProfilesNext]_profileVars PROVE SerialProfiles'
    BY Zenon
  <2>1. ASSUME NEW r \in Run, BeginProfiles(r) PROVE LiveProfiles = {}
    <3>1. LiveProfiles \in SUBSET Run /\ Cardinality(LiveProfiles) < MaxLive
      BY <2>1, Zenon DEF BeginProfiles, LiveProfiles
    <3>. QED BY <3>1, NoneLive, Zenon
  <2>. QED BY <2>1, AcceptableOnce, SerialProfilesKeeps, ZenonT(60)
<1>. QED BY <1>1, <1>2, ProfilesInvariant, PTL DEF ProfilesSpec

\* With one run at a time, however many were killed before it and whatever was declined
\* or edited between runs, a run that ends with all profiles in its receipt leaves
\* exactly one object for each, with the template's payload and the pilot's assignment.
THEOREM SerialReceiptsComplete ==
  ASSUME MaxLive = 1, IsFiniteSet(Run)
  PROVE  ProfilesSpec => [][CompleteMeansApplied]_profileVars
<1>1. ProfilesInv /\ SerialProfiles /\ [ProfilesNext]_profileVars => [CompleteMeansApplied]_profileVars
  BY CompleteStep, Zenon
<1>. QED BY <1>1, ProfilesInvariant, SerialProfilesInvariant, PTL DEF ProfilesSpec
=============================================================================
