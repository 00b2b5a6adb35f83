------------------------ MODULE PrivateInstallProofs ------------------------
(***************************************************************************)
(* Theorems about the installation of the private backend, for any number  *)
(* of hooks, guest scripts, bundles and chunks, and any number of restarts *)
(* and lost replies.                                                       *)
(***************************************************************************)
EXTENDS PrivateInstall, TLAPS

\* A hook that waits for a reply still carries the bundle of the script it waits for,
\* and waits for one script; a hook is bound only to a bundle whose job has exited.
HookInv ==
  /\ \A h \in Hook : hook[h].pc \in Sending => hook[h].bundle \in Bundle
  /\ \A h \in Hook : hook[h].pc = "bound" => hook[h].bundle \in exited
  /\ \A p \in Proc : proc[p].owner # Nil =>
       hook[proc[p].owner].pc \in Sending /\ hook[proc[p].owner].bundle = proc[p].bundle
  /\ \A p, q \in Proc : proc[p].owner # Nil /\ proc[p].owner = proc[q].owner => p = q

\* The places of a script on its way to the submission, and those from its
\* reservation of the host to systemd-run.
Submitting == {"submit", "bundle", "source", "fresh", "context", "reserve", "reserved", "run"}
Holding == {"reserved", "run"}

\* No job was started and no unit is loaded.
Untouched == starts = 0 /\ inits = 0 /\ \A b \in Bundle : unit[b].st = "not-found"

\* What a script has established by the time it is at its place: the host has no
\* runtime of its own, then is fresh; the files of the bundle are complete one after
\* the other; the reservation is its own and nothing was started under it.
ScriptSafe(p) ==
  LET pc == proc[p].pc
      b == proc[p].bundle
  IN /\ pc # "free" => b \in Bundle
     /\ pc = "check" => proc[p].mode # "none"
     /\ pc \in Submitting => host.fresh \/ ~ host.runtime
     /\ pc \in {"context", "reserve", "reserved", "run"} => host.fresh
     /\ pc \in Submitting \ {"submit", "bundle"} => disk[b]["bundle"] = "full"
     /\ pc \in Submitting \ {"submit", "bundle", "source"} => disk[b]["source"] = "full"
     /\ pc \in {"reserve", "reserved", "run"} => disk[b]["context"] = "full"
     /\ pc = "reserved" => active = "partial"
     /\ pc = "run" => active = b /\ Untouched

\* At most one script is between its reservation and systemd-run.
ScriptInv ==
  /\ \A p \in Proc : ScriptSafe(p)
  /\ \A p, q \in Proc : proc[p].pc \in Holding /\ proc[q].pc \in Holding => p = q

\* What the unit of a bundle says of the installation: it is loaded only under its own
\* reservation of a fresh host with its files complete; it is queued before any start;
\* its step tells whether the data was initialised; and a job that is recorded as a
\* success, or has a proof on disk, has exited with status 0.
JobSafe(b) ==
  LET u == unit[b]
  IN /\ u.st # "not-found" => active = b /\ Verified(b) /\ host.fresh
     /\ u.st = "queued" => starts = 0 /\ inits = 0
     /\ u.st = "running" /\ u.step \in {"verify", "build", "stage"} => inits = 0
     /\ u.st = "running" /\ u.step \in {"activate", "complete", "completing", "exit"} => inits = 1
     /\ u.st = "running" /\ u.step = "record" /\ u.ok => b \in exited
     /\ u.st = "stopping" => b \in exited
     /\ disk[b]["proof"] # "absent" => b \in exited
     /\ b \in exited => active = b /\ inits = 1

\* Nothing happens before the reservation, and at most one start and one initialisation
\* after it, on a fresh host.
HostInv ==
  /\ active \notin Bundle => Untouched /\ exited = {}
  /\ ~ host.fresh => host.docker \/ host.runtime
  /\ starts <= 1 /\ (starts > 0 => host.fresh)
  /\ inits <= 1

UnitInv == HostInv /\ \A b \in Bundle : JobSafe(b)

\* The inductive invariant of the installation.
InstallInv == TypeOK /\ HookInv /\ ScriptInv /\ UnitInv

\* What Goto, Filling and Show do to the script p: it is at place pc.
Moves(p, pc) ==
  /\ hook' = hook
  /\ proc' \in [Proc -> ScriptRecord]
  /\ proc'[p].pc = pc /\ proc'[p].bundle = proc[p].bundle /\ proc'[p].owner = proc[p].owner
  /\ proc'[p].mode = proc[p].mode
  /\ \A q \in Proc \ {p} : proc'[q] = proc[q]

\* What the reply r to the hook that waits for the script p does to the hook.
Heard(p, r) ==
  /\ hook' \in [Hook -> HookRecord]
  /\ proc'[p].owner = Nil
  /\ \A q \in Proc \ {p} : proc'[q] = proc[q]
  /\ \A h \in Hook : h # proc[p].owner => hook'[h] = hook[h]
  /\ proc[p].owner # Nil => hook'[proc[p].owner] = AfterReply(hook[proc[p].owner], r)

\* What an answer r of the script p does.
Ends(p, r) == Heard(p, r) /\ proc' \in [Proc -> ScriptRecord] /\ proc'[p] = NoProc

\* A file of the bundle itself that has its content keeps it.
SourceFiles == {"bundle", "source", "context"}

DiskGrows ==
  /\ disk' \in [Bundle -> [Named -> Content]]
  /\ \A b \in Bundle, f \in SourceFiles : disk[b][f] = "full" => disk'[b][f] = "full"

\* The files of a bundle that a script or a job may write without having exited.
ProofKept == \A b \in Bundle : disk'[b]["proof"] = disk[b]["proof"]

\* The records of an idle hook and of a free script are records of their kind.
LEMMA NoRecords == NoHook \in HookRecord /\ NoProc \in ScriptRecord /\ NoUnit \in UnitRecord
BY InstallAssumption DEF NoHook, NoProc, NoUnit, HookRecord, ScriptRecord, UnitRecord, Ended, Sending,
   Chunk, ScriptPlace

\* What a hook does after a reply (the cases of Invoke-PrivateVmInstall): only the reply
\* "completed" binds it, and it keeps its bundle unless it throws.
LEMMA ReplyResult ==
  ASSUME NEW s \in HookRecord, NEW r, s.pc \in Sending
  PROVE  /\ AfterReply(s, r) \in HookRecord
         /\ AfterReply(s, r).pc # "idle" => AfterReply(s, r).bundle = s.bundle
         /\ AfterReply(s, r).pc = "bound" => r = "completed"
<1>1. s.index \in Chunk /\ 0 \in Chunk /\ (s.index + 1 < Chunks => s.index + 1 \in Chunk)
  BY InstallAssumption DEF HookRecord, Chunk
<1>2. ASSUME NEW x \in Sending \cup Ended, NEW i \in Chunk
      PROVE  /\ [s EXCEPT !.pc = x, !.index = i] \in HookRecord
             /\ [s EXCEPT !.pc = x, !.index = i].pc = x
             /\ [s EXCEPT !.pc = x, !.index = i].bundle = s.bundle
  BY Zenon DEF HookRecord
<1>3. ASSUME NEW i \in Chunk
      PROVE  /\ [s EXCEPT !.index = i] \in HookRecord
             /\ [s EXCEPT !.index = i].pc = s.pc
             /\ [s EXCEPT !.index = i].bundle = s.bundle
  BY Zenon DEF HookRecord
<1>4. NoHook \in HookRecord /\ NoHook.pc = "idle"
  BY NoRecords, Zenon DEF NoHook
<1>5. PICK a : a = AfterReply(s, r)
  BY Zenon
<1>6. SUFFICES a \in HookRecord /\ (a.pc # "idle" => a.bundle = s.bundle) /\ (a.pc = "bound" => r = "completed")
  BY <1>5, Zenon
<1>7. \/ s.pc = "chunk" /\ s.index + 1 < Chunks /\ a = [s EXCEPT !.index = s.index + 1]
      \/ a = NoHook
      \/ \E x \in {"submit", "chunk", "reobserve", "poll"} : a = [s EXCEPT !.pc = x, !.index = 0]
      \/ r = "completed" /\ a = [s EXCEPT !.pc = "bound", !.index = 0]
  BY <1>5, Zenon DEF AfterReply
<1>8. CASE s.pc = "chunk" /\ s.index + 1 < Chunks /\ a = [s EXCEPT !.index = s.index + 1]
  <2>1. s.index + 1 \in Chunk
    BY <1>1, <1>8, Zenon
  <2>2. a \in HookRecord /\ a.pc = s.pc /\ a.bundle = s.bundle
    BY <1>3, <1>8, <2>1, Zenon
  <2> QED BY <1>8, <2>2, Zenon
<1>9. CASE a = NoHook
  BY <1>4, <1>9, Zenon
<1>10. ASSUME NEW x \in {"submit", "chunk", "reobserve", "poll"}, a = [s EXCEPT !.pc = x, !.index = 0]
       PROVE  a \in HookRecord /\ (a.pc # "idle" => a.bundle = s.bundle) /\ (a.pc = "bound" => r = "completed")
  <2>1. x \in Sending \cup Ended /\ x # "bound"
    BY <1>10, Zenon DEF Sending
  <2> QED BY <1>1, <1>2, <1>10, <2>1, Zenon
<1>11. CASE r = "completed" /\ a = [s EXCEPT !.pc = "bound", !.index = 0]
  <2>1. "bound" \in Sending \cup Ended
    BY Zenon DEF Ended
  <2> QED BY <1>1, <1>2, <1>11, <2>1, Zenon
<1> QED BY <1>7, <1>8, <1>9, <1>10, <1>11, Zenon

\* A script's record after a move.
LEMMA ScriptMoved ==
  ASSUME TypeOK, NEW p \in Proc, NEW r \in ScriptRecord, proc' = [proc EXCEPT ![p] = r], hook' = hook,
         r.bundle = proc[p].bundle, r.owner = proc[p].owner, r.mode = proc[p].mode
  PROVE  Moves(p, r.pc)
BY Zenon DEF TypeOK, Moves

\* Goto is a move.
LEMMA GotoMoves ==
  ASSUME TypeOK, NEW p \in Proc, NEW x \in ScriptPlace, Goto(p, x)
  PROVE  Moves(p, x)
<1>1. PICK s \in ScriptRecord : s = proc[p]
  BY Zenon DEF TypeOK
<1>2. PICK r : r = [s EXCEPT !.pc = x, !.filling = FALSE]
  BY Zenon
<1>3. r \in ScriptRecord /\ r.pc = x /\ r.bundle = s.bundle /\ r.owner = s.owner /\ r.mode = s.mode
  BY <1>2, Zenon DEF ScriptRecord
<1>4. proc' = [proc EXCEPT ![p] = r] /\ hook' = hook
  BY <1>1, <1>2, Zenon DEF Goto
<1> QED BY <1>1, <1>3, <1>4, ScriptMoved, Zenon

\* Filling is a move that stays.
LEMMA FillingMoves ==
  ASSUME TypeOK, NEW p \in Proc, Filling(p)
  PROVE  Moves(p, proc[p].pc)
<1>1. PICK s \in ScriptRecord : s = proc[p]
  BY Zenon DEF TypeOK
<1>2. PICK r : r = [s EXCEPT !.filling = TRUE]
  BY Zenon
<1>3. r \in ScriptRecord /\ r.pc = s.pc /\ r.bundle = s.bundle /\ r.owner = s.owner /\ r.mode = s.mode
  BY <1>2, Zenon DEF ScriptRecord
<1>4. proc' = [proc EXCEPT ![p] = r] /\ hook' = hook
  BY <1>1, <1>2, Zenon DEF Filling
<1> QED BY <1>1, <1>3, <1>4, ScriptMoved, Zenon

\* A reply changes the hook that hears it, and no other.
LEMMA HearsHeard ==
  ASSUME TypeOK, HookInv, NEW p \in Proc, NEW r, proc[p].owner # Nil, Hears(proc[p].owner, r)
  PROVE  /\ hook' \in [Hook -> HookRecord]
         /\ \A h \in Hook : h # proc[p].owner => hook'[h] = hook[h]
         /\ hook'[proc[p].owner] = AfterReply(hook[proc[p].owner], r)
<1>1. PICK h \in Hook : h = proc[p].owner
  BY Zenon DEF TypeOK, ScriptRecord
<1>2. hook[h] \in HookRecord /\ hook[h].pc \in Sending
  BY <1>1, Zenon DEF TypeOK, HookInv
<1>3. PICK a : a = AfterReply(hook[h], r)
  BY Zenon
<1>4. a \in HookRecord
  BY <1>2, <1>3, ReplyResult, Zenon
<1>5. hook' = [hook EXCEPT ![h] = a] /\ hook \in [Hook -> HookRecord]
  BY <1>1, <1>3, Zenon DEF Hears, TypeOK
<1> QED BY <1>1, <1>3, <1>4, <1>5, Zenon

\* An answer ends the script, and only its own hook hears it.
LEMMA AnswerEnds ==
  ASSUME TypeOK, HookInv, NEW p \in Proc, NEW r, Answer(p, r)
  PROVE  Ends(p, r)
<1>1. proc' = [proc EXCEPT ![p] = NoProc] /\ proc \in [Proc -> ScriptRecord]
  BY Zenon DEF TypeOK, Answer
<1>2. /\ proc' \in [Proc -> ScriptRecord] /\ proc'[p] = NoProc /\ proc'[p].owner = Nil
      /\ \A q \in Proc \ {p} : proc'[q] = proc[q]
  BY <1>1, NoRecords, Zenon DEF NoProc
<1>3. CASE proc[p].owner = Nil
  <2>1. hook' = hook /\ hook \in [Hook -> HookRecord]
    BY <1>3, Zenon DEF Answer, TypeOK
  <2> QED BY <1>2, <1>3, <2>1, Zenon DEF Ends, Heard
<1>4. CASE proc[p].owner # Nil
  <2>1. Hears(proc[p].owner, r)
    BY <1>4, Zenon DEF Answer
  <2> QED BY <1>2, <1>4, <2>1, HearsHeard, Zenon DEF Ends, Heard
<1> QED BY <1>3, <1>4, Zenon

\* The hooks after a move of a script.
LEMMA MovesKeepHooks ==
  ASSUME TypeOK, HookInv, NEW p \in Proc, NEW x, Moves(p, x), exited' = exited
  PROVE  HookInv'
<1>1. \A q \in Proc : proc'[q].owner = proc[q].owner /\ proc'[q].bundle = proc[q].bundle
  BY Zenon DEF Moves
<1> QED BY <1>1 DEF HookInv, Moves

\* The hooks after an answer: "completed" is answered only for a job that has exited.
LEMMA HeardKeepsHooks ==
  ASSUME TypeOK, HookInv, NEW p \in Proc, NEW r, Heard(p, r), exited' = exited,
         r = "completed" => proc[p].bundle \in exited
  PROVE  HookInv'
<1>1. proc'[p].owner = Nil
  BY Zenon DEF Heard
<1>2. \A q \in Proc : proc'[q].owner # Nil => q # p /\ proc'[q] = proc[q]
  BY <1>1, Zenon DEF Heard
<1>3. \A q \in Proc : proc'[q].owner # Nil => proc'[q].owner \in Hook /\ proc'[q].owner # proc[p].owner
  BY <1>2 DEF HookInv, TypeOK, ScriptRecord
<1>4. \A q \in Proc : proc'[q].owner # Nil => hook'[proc'[q].owner] = hook[proc[q].owner]
  BY <1>2, <1>3, Zenon DEF Heard
<1>5. ASSUME NEW h \in Hook
      PROVE  /\ hook'[h].pc \in Sending => hook'[h].bundle \in Bundle
             /\ hook'[h].pc = "bound" => hook'[h].bundle \in exited
  <2>1. CASE h # proc[p].owner
    BY <2>1, Zenon DEF Heard, HookInv
  <2>2. CASE h = proc[p].owner
    <3>1. h # Nil /\ hook[h] \in HookRecord
      BY InstallAssumption, Zenon DEF TypeOK
    <3>2. hook[h].pc \in Sending /\ hook[h].bundle = proc[p].bundle /\ hook[h].bundle \in Bundle
      BY <2>2, <3>1, Zenon DEF HookInv
    <3>3. PICK a : a = AfterReply(hook[h], r)
      BY Zenon
    <3>4. hook'[h] = a
      BY <2>2, <3>1, <3>3, Zenon DEF Heard
    <3>5. (a.pc # "idle" => a.bundle = hook[h].bundle) /\ (a.pc = "bound" => r = "completed")
      BY <3>1, <3>2, <3>3, ReplyResult, Zenon
    <3> QED BY <3>2, <3>4, <3>5, Zenon DEF Sending
  <2> QED BY <2>1, <2>2, Zenon
<1> QED BY <1>2, <1>4, <1>5 DEF HookInv

\* A script that does not move keeps what it has established, when the disk only grows
\* and the reservation, the host and the job are as they were.
LEMMA StillSafe ==
  ASSUME TypeOK, NEW q \in Proc, ScriptSafe(q), proc'[q].pc = proc[q].pc,
         proc'[q].bundle = proc[q].bundle, proc'[q].mode = proc[q].mode,
         DiskGrows, UNCHANGED <<active, host, history, unit>>
  PROVE  ScriptSafe(q)'
<1>1. proc[q].pc # "free" => \A f \in SourceFiles : disk[proc[q].bundle][f] = "full" => disk'[proc[q].bundle][f] = "full"
  BY Zenon DEF DiskGrows, ScriptSafe
<1>2. "bundle" \in SourceFiles /\ "source" \in SourceFiles /\ "context" \in SourceFiles
  BY Zenon DEF SourceFiles
<1>3. Untouched' <=> Untouched
  BY Zenon DEF Untouched, history
<1> QED BY <1>1, <1>2, <1>3, Zenon DEF ScriptSafe, Submitting, history

\* The scripts after an answer that leaves the host and the job alone.
LEMMA EndsKeepScripts ==
  ASSUME TypeOK, ScriptInv, NEW p \in Proc, NEW r, Ends(p, r), DiskGrows,
         UNCHANGED <<active, host, history, unit>>
  PROVE  ScriptInv'
<1>1. proc'[p].pc = "free"
  BY DEF Ends, NoProc
<1>2. ScriptSafe(p)'
  BY <1>1, Zenon DEF ScriptSafe, Submitting
<1>3. ASSUME NEW q \in Proc, q # p
      PROVE  ScriptSafe(q)'
  BY <1>3, StillSafe, Zenon DEF Ends, Heard, ScriptInv
<1>4. \A q \in Proc : proc'[q].pc \in Holding => proc[q].pc \in Holding
  BY <1>1, Zenon DEF Ends, Heard, Holding
<1> QED BY <1>2, <1>3, <1>4, Zenon DEF ScriptInv

\* The scripts after a move to a place where the host is not held.
LEMMA MovesKeepScripts ==
  ASSUME TypeOK, ScriptInv, NEW p \in Proc, NEW x, Moves(p, x), x \notin Holding, ScriptSafe(p)', DiskGrows,
         UNCHANGED <<active, host, history, unit>>
  PROVE  ScriptInv'
<1>1. ASSUME NEW q \in Proc, q # p
      PROVE  ScriptSafe(q)'
  BY <1>1, StillSafe, Zenon DEF Moves, ScriptInv
<1>2. \A q \in Proc : proc'[q].pc \in Holding => proc[q].pc \in Holding
  BY Zenon DEF Moves
<1> QED BY <1>1, <1>2, Zenon DEF ScriptInv

\* The job and the host, when only files other than a proof are written.
LEMMA JobStays ==
  ASSUME TypeOK, UnitInv, DiskGrows, ProofKept, UNCHANGED <<active, host, history, unit>>
  PROVE  UnitInv'
<1>1. HostInv'
  BY Zenon DEF UnitInv, HostInv, Untouched, history
<1>2. ASSUME NEW b \in Bundle
      PROVE  JobSafe(b)'
  <2>1. JobSafe(b)
    BY Zenon DEF UnitInv
  <2>2. Verified(b) => Verified(b)'
    BY Zenon DEF Verified, DiskGrows, SourceFiles
  <2> QED BY <2>1, <2>2, Zenon DEF JobSafe, ProofKept, history
<1> QED BY <1>1, <1>2, Zenon DEF UnitInv

\* The disk after a write of one file.
LEMMA DiskPut ==
  ASSUME TypeOK, NEW b \in Bundle, NEW f \in Named, NEW v \in Content,
         f \in SourceFiles => disk[b][f] # "full" \/ v = "full", disk' = [disk EXCEPT ![b][f] = v]
  PROVE  /\ DiskGrows /\ disk'[b][f] = v /\ (f # "proof" => ProofKept)
         /\ \A c \in Bundle, g \in Named : c # b \/ g # f => disk'[c][g] = disk[c][g]
<1>1. disk \in [Bundle -> [Named -> Content]] /\ "proof" \in Named
  BY Zenon DEF TypeOK, Named
<1>2. disk' \in [Bundle -> [Named -> Content]] /\ disk'[b][f] = v
  BY <1>1, Zenon
<1>3. \A c \in Bundle, g \in Named : c # b \/ g # f => disk'[c][g] = disk[c][g]
  BY <1>1, Zenon
<1>4. SourceFiles \subseteq Named
  BY Zenon DEF SourceFiles, Named
<1> QED BY <1>1, <1>2, <1>3, <1>4, Zenon DEF DiskGrows, ProofKept

\* The disk after a write of a file that is not of the bundle itself.
LEMMA DiskPutOther ==
  ASSUME TypeOK, NEW b \in Bundle, NEW f \in Named \ SourceFiles, NEW v \in Content,
         disk' = [disk EXCEPT ![b][f] = v]
  PROVE  /\ DiskGrows /\ (f # "proof" => ProofKept)
         /\ \A c \in Bundle \ {b} : disk'[c]["proof"] = disk[c]["proof"]
<1>1. disk \in [Bundle -> [Named -> Content]] /\ "proof" \in Named /\ f \in Named
  BY Zenon DEF TypeOK, Named
<1>2. disk' \in [Bundle -> [Named -> Content]]
  BY <1>1, Zenon
<1>3. \A c \in Bundle, g \in Named : c # b \/ g # f => disk'[c][g] = disk[c][g]
  BY <1>1, Zenon
<1>4. SourceFiles \subseteq Named
  BY Zenon DEF SourceFiles, Named
<1> QED BY <1>1, <1>2, <1>3, <1>4, Zenon DEF DiskGrows, ProofKept

\* The disk as it was.
LEMMA DiskSame ==
  ASSUME TypeOK, disk' = disk
  PROVE  DiskGrows /\ ProofKept
BY Zenon DEF TypeOK, DiskGrows, ProofKept

\* An answer that leaves the host and the job alone keeps the invariant.
LEMMA AnswerKeeps ==
  ASSUME InstallInv, NEW p \in Proc, NEW r, Answer(p, r), r = "completed" => proc[p].bundle \in exited,
         DiskGrows, ProofKept, chunk' \in [Bundle -> [Chunk -> Content]],
         UNCHANGED <<active, host, history, unit, spent>>
  PROVE  InstallInv'
<1>1. TypeOK /\ HookInv /\ ScriptInv /\ UnitInv
  BY Zenon DEF InstallInv
<1>2. Ends(p, r)
  BY <1>1, AnswerEnds, Zenon
<1>3. TypeOK'
  BY <1>1, <1>2, Zenon DEF TypeOK, Ends, Heard, DiskGrows, history
<1>4. exited' = exited
  BY Zenon DEF history
<1> QED BY <1>1, <1>2, <1>3, <1>4, HeardKeepsHooks, EndsKeepScripts, JobStays, Zenon DEF InstallInv, Ends

\* So does a move that leaves them alone.
LEMMA MoveKeeps ==
  ASSUME InstallInv, NEW p \in Proc, NEW x, Moves(p, x), x \notin Holding, ScriptSafe(p)',
         DiskGrows, ProofKept, chunk' \in [Bundle -> [Chunk -> Content]],
         UNCHANGED <<active, host, history, unit, spent>>
  PROVE  InstallInv'
<1>1. TypeOK /\ HookInv /\ ScriptInv /\ UnitInv
  BY Zenon DEF InstallInv
<1>2. TypeOK'
  BY <1>1, Zenon DEF TypeOK, Moves, DiskGrows, history
<1>3. exited' = exited
  BY Zenon DEF history
<1> QED BY <1>1, <1>2, <1>3, MovesKeepHooks, MovesKeepScripts, JobStays, Zenon DEF InstallInv

\* run, up to the branch on the mode, keeps the invariant: it goes on to a submission
\* only when there is no reservation and no runtime unit.
LEMMA CheckKeeps ==
  ASSUME InstallInv, NEW p \in Proc, Check(p)
  PROVE  InstallInv'
<1>1. TypeOK /\ ScriptSafe(p)
  BY Zenon DEF InstallInv, ScriptInv
<1>2. /\ proc[p].pc = "check" /\ proc[p].bundle \in Bundle /\ UNCHANGED <<durable, unit, history, spent>>
      /\ proc[p].mode \in {"observe", "chunk", "submit"}
  BY <1>1, Zenon DEF Check, ScriptSafe, TypeOK, ScriptRecord
<1>3. DiskGrows /\ ProofKept /\ chunk' \in [Bundle -> [Chunk -> Content]]
  BY <1>1, <1>2, DiskSame, Zenon DEF TypeOK, durable
<1>4. UNCHANGED <<active, host, history, unit, spent>>
  BY <1>2, Zenon DEF durable
<1>5. \/ \E r \in {"error", "not-installed"} : Answer(p, r)
      \/ Goto(p, "show") \/ Goto(p, "chunk")
      \/ Goto(p, "submit") /\ ~ host.runtime
  BY <1>2, Zenon DEF Check
<1>6. ASSUME NEW r \in {"error", "not-installed"}, Answer(p, r)
      PROVE  InstallInv'
  BY <1>3, <1>4, <1>6, AnswerKeeps, Zenon
<1>7. ASSUME NEW x \in {"show", "chunk", "submit"}, Goto(p, x), x = "submit" => ~ host.runtime
      PROVE  InstallInv'
  <2>1. Moves(p, x)
    BY <1>1, <1>7, GotoMoves, Zenon DEF ScriptPlace
  <2>2. ScriptSafe(p)'
    BY <1>2, <1>4, <1>7, <2>1, Zenon DEF ScriptSafe, Moves, Submitting
  <2> QED BY <1>3, <1>4, <1>7, <2>1, <2>2, MoveKeeps, Zenon DEF Holding
<1> QED BY <1>5, <1>6, <1>7, Zenon

\* The upload of a chunk keeps it.
LEMMA PutChunkKeeps ==
  ASSUME InstallInv, NEW p \in Proc, PutChunk(p)
  PROVE  InstallInv'
<1>1. TypeOK /\ ScriptSafe(p)
  BY DEF InstallInv, ScriptInv
<1>2. /\ proc[p].pc = "chunk" /\ proc[p].bundle \in Bundle /\ proc[p].index \in Chunk
      /\ UNCHANGED <<disk, active, host, unit, history, spent>>
  BY <1>1, Zenon DEF PutChunk, ScriptSafe, TypeOK, ScriptRecord
<1>3. DiskGrows /\ ProofKept
  BY <1>1, <1>2, DiskSame, Zenon
<1>4. ASSUME NEW v \in Content, chunk' = [chunk EXCEPT ![proc[p].bundle][proc[p].index] = v]
      PROVE  chunk' \in [Bundle -> [Chunk -> Content]]
  BY <1>1, <1>2, <1>4, Zenon DEF TypeOK
<1>5. chunk' \in [Bundle -> [Chunk -> Content]]
  <2>1. "partial" \in Content /\ "full" \in Content /\ chunk \in [Bundle -> [Chunk -> Content]]
    BY <1>1, Zenon DEF Content, TypeOK
  <2> QED BY <1>4, <2>1, Zenon DEF PutChunk
<1>6. (\E r \in {"chunk", "error"} : Answer(p, r)) \/ Filling(p)
  BY Zenon DEF PutChunk
<1>7. ASSUME NEW r \in {"chunk", "error"}, Answer(p, r)
      PROVE  InstallInv'
  BY <1>2, <1>3, <1>5, <1>7, AnswerKeeps, Zenon
<1>8. CASE Filling(p)
  <2>1. Moves(p, "chunk")
    BY <1>1, <1>2, <1>8, FillingMoves, Zenon
  <2>2. ScriptSafe(p)'
    BY <1>2, <2>1, Zenon DEF ScriptSafe, Moves, Submitting
  <2> QED BY <1>2, <1>3, <1>5, <2>1, <2>2, MoveKeeps, Zenon DEF Holding
<1> QED BY <1>6, <1>7, <1>8, Zenon

\* The directory of a bundle keeps it: bundle.json is complete when it is skipped.
LEMMA SubmitKeeps ==
  ASSUME InstallInv, NEW p \in Proc, Submit(p)
  PROVE  InstallInv'
<1>1. TypeOK /\ ScriptSafe(p)
  BY DEF InstallInv, ScriptInv
<1>2. PICK b \in Bundle : b = proc[p].bundle
  BY <1>1, Zenon DEF Submit, ScriptSafe
<1>3. /\ proc[p].pc = "submit" /\ UNCHANGED <<chunk, active, host, unit, history, spent>>
      /\ host.fresh \/ ~ host.runtime
  BY <1>1, Zenon DEF Submit, ScriptSafe, Submitting
<1>4. chunk' \in [Bundle -> [Chunk -> Content]]
  BY <1>1, <1>3, Zenon DEF TypeOK
<1>5. \/ disk' = [disk EXCEPT ![b]["dir"] = "full"] /\ Goto(p, "bundle")
      \/ disk[b]["bundle"] = "full" /\ disk' = disk /\ Goto(p, "source")
      \/ disk' = disk /\ Answer(p, "error")
  BY <1>2, Zenon DEF Submit, Identical
<1>6. CASE disk' = [disk EXCEPT ![b]["dir"] = "full"] /\ Goto(p, "bundle")
  <2> "dir" \in Named \ SourceFiles /\ "dir" # "proof" /\ "full" \in Content
    BY Zenon DEF Named, SourceFiles, Content
  <2>1. DiskGrows /\ ProofKept
    BY <1>1, <1>6, DiskPutOther, Zenon
  <2>2. Moves(p, "bundle")
    BY <1>1, <1>6, GotoMoves, Zenon DEF ScriptPlace
  <2>3. ScriptSafe(p)'
    BY <1>2, <1>3, <2>2, Zenon DEF ScriptSafe, Moves, Submitting
  <2> QED BY <1>3, <1>4, <2>1, <2>2, <2>3, MoveKeeps, Zenon DEF Holding
<1>7. CASE disk[b]["bundle"] = "full" /\ disk' = disk /\ Goto(p, "source")
  <2>1. DiskGrows /\ ProofKept
    BY <1>1, <1>7, DiskSame, Zenon
  <2>2. Moves(p, "source")
    BY <1>1, <1>7, GotoMoves, Zenon DEF ScriptPlace
  <2>3. ScriptSafe(p)'
    BY <1>2, <1>3, <1>7, <2>2, Zenon DEF ScriptSafe, Moves, Submitting
  <2> QED BY <1>3, <1>4, <2>1, <2>2, <2>3, MoveKeeps, Zenon DEF Holding
<1>8. CASE disk' = disk /\ Answer(p, "error")
  <2>1. DiskGrows /\ ProofKept
    BY <1>1, <1>8, DiskSame, Zenon
  <2> QED BY <1>3, <1>4, <1>8, <2>1, AnswerKeeps, Zenon
<1> QED BY <1>5, <1>6, <1>7, <1>8, Zenon

\* exclusive() keeps it: a script goes on only when the file has its content.
LEMMA StoreKeeps ==
  ASSUME InstallInv, NEW p \in Proc, Store(p)
  PROVE  InstallInv'
<1>1. TypeOK /\ ScriptSafe(p)
  BY DEF InstallInv, ScriptInv
<1>2. PICK b \in Bundle, f \in {"bundle", "source", "context"} : b = proc[p].bundle /\ f = proc[p].pc
  BY <1>1, Zenon DEF Store, ScriptSafe
<1>3. PICK next : next = CASE f = "bundle" -> "source" [] f = "source" -> "fresh" [] f = "context" -> "reserve"
  BY Zenon
<1>4. /\ UNCHANGED <<chunk, active, host, unit, history, spent>>
      /\ chunk' \in [Bundle -> [Chunk -> Content]]
      /\ f \in Named /\ f # "proof" /\ "full" \in Content /\ "partial" \in Content
  BY <1>1, <1>2, Zenon DEF Store, TypeOK, Named, Content
<1>5. \/ disk' = [disk EXCEPT ![b][f] = "full"] /\ Goto(p, next)
      \/ disk[b][f] = "absent" /\ disk' = [disk EXCEPT ![b][f] = "partial"] /\ Filling(p)
      \/ disk[b][f] = "full" /\ disk' = disk /\ Goto(p, next)
      \/ disk' = disk /\ Answer(p, "error")
  BY <1>2, <1>3, Zenon DEF Store, Identical
<1>6. ASSUME DiskGrows, ProofKept, disk'[b][f] = "full", Goto(p, next)
      PROVE  InstallInv'
  <2>1. next \in ScriptPlace \ Holding
    BY <1>3, Zenon DEF ScriptPlace, Holding
  <2>2. Moves(p, next)
    BY <1>1, <1>6, <2>1, GotoMoves, Zenon
  <2>3. /\ f \in {"source", "context"} => disk'[b]["bundle"] = "full"
        /\ f = "context" => disk'[b]["source"] = "full" /\ host.fresh
        /\ host.fresh \/ ~ host.runtime
    BY <1>1, <1>2, <1>6, Zenon DEF ScriptSafe, DiskGrows, Submitting, SourceFiles
  <2>4. ScriptSafe(p)'
    BY <1>2, <1>3, <1>4, <1>6, <2>2, <2>3, Zenon DEF ScriptSafe, Moves, Submitting
  <2> QED BY <1>4, <1>6, <2>1, <2>2, <2>4, MoveKeeps, Zenon
<1>7. CASE disk' = [disk EXCEPT ![b][f] = "full"] /\ Goto(p, next)
  <2>1. DiskGrows /\ ProofKept /\ disk'[b][f] = "full"
    <3>1. PICK v \in Content : v = "full"
      BY <1>4, Zenon
    <3>2. disk' = [disk EXCEPT ![b][f] = v] /\ (f \in SourceFiles => disk[b][f] # "full" \/ v = "full")
      BY <1>7, <3>1, Zenon
    <3>3. DiskGrows /\ ProofKept /\ disk'[b][f] = v
      BY <1>1, <1>4, <3>2, DiskPut, ZenonT(60)
    <3> QED BY <3>1, <3>3, Zenon
  <2> QED BY <1>6, <1>7, <2>1, Zenon
<1>8. CASE disk[b][f] = "absent" /\ disk' = [disk EXCEPT ![b][f] = "partial"] /\ Filling(p)
  <2>1. DiskGrows /\ ProofKept
    <3>1. disk[b][f] # "full"
      BY <1>8, Zenon
    <3> QED BY <1>1, <1>4, <1>8, <3>1, DiskPut, Zenon
  <2>2. Moves(p, f)
    BY <1>1, <1>2, <1>8, FillingMoves, Zenon
  <2>3. ScriptSafe(p)'
    BY <1>1, <1>2, <1>4, <2>1, <2>2, StillSafe, Zenon DEF Moves
  <2> QED BY <1>4, <2>1, <2>2, <2>3, MoveKeeps, Zenon DEF Holding
<1>9. CASE disk[b][f] = "full" /\ disk' = disk /\ Goto(p, next)
  BY <1>1, <1>6, <1>9, DiskSame, Zenon
<1>10. CASE disk' = disk /\ Answer(p, "error")
  <2>1. DiskGrows /\ ProofKept
    BY <1>1, <1>10, DiskSame, Zenon
  <2> QED BY <1>4, <1>10, <2>1, AnswerKeeps, Zenon
<1> QED BY <1>5, <1>7, <1>8, <1>9, <1>10, Zenon

\* The search for containers and volumes keeps it: a host without them, and without a
\* runtime of its own, is fresh.
LEMMA FreshKeeps ==
  ASSUME InstallInv, NEW p \in Proc, Fresh(p)
  PROVE  InstallInv'
<1>1. TypeOK /\ ScriptSafe(p) /\ HostInv
  BY Zenon DEF InstallInv, ScriptInv, UnitInv
<1>2. proc[p].pc = "fresh" /\ UNCHANGED <<durable, unit, history, spent>>
  BY Zenon DEF Fresh
<1>3. /\ DiskGrows /\ ProofKept /\ chunk' \in [Bundle -> [Chunk -> Content]]
      /\ UNCHANGED <<active, host, history, unit, spent>> /\ disk' = disk
  BY <1>1, <1>2, DiskSame, Zenon DEF TypeOK, durable
<1>4. CASE Answer(p, "error")
  BY <1>3, <1>4, AnswerKeeps, Zenon
<1>5. CASE Goto(p, "context") /\ ~ host.docker
  <2>1. Moves(p, "context")
    BY <1>1, <1>5, GotoMoves, Zenon DEF ScriptPlace
  <2>2. host.fresh
    BY <1>1, <1>2, <1>5, Zenon DEF ScriptSafe, Submitting, HostInv
  <2>3. ScriptSafe(p)'
    BY <1>1, <1>2, <1>3, <2>1, <2>2, Zenon DEF ScriptSafe, Moves, Submitting
  <2> QED BY <1>3, <2>1, <2>3, MoveKeeps, Zenon DEF Holding
<1> QED BY <1>4, <1>5, Zenon DEF Fresh

\* The reservation keeps it: exclusive(ACTIVE) lets one script in while the host is
\* untouched, and its bundle is the one the reservation names.
LEMMA ReserveKeeps ==
  ASSUME InstallInv, NEW p \in Proc, Reserve(p)
  PROVE  InstallInv'
<1>1. TypeOK /\ HookInv /\ ScriptInv /\ UnitInv /\ ScriptSafe(p) /\ HostInv
  BY Zenon DEF InstallInv, ScriptInv, UnitInv
<1>2. PICK b \in Bundle : b = proc[p].bundle
  BY <1>1, Zenon DEF Reserve, ScriptSafe
<1>3. UNCHANGED <<chunk, disk, host, unit, history, spent>> /\ exited' = exited
  BY Zenon DEF Reserve, history
<1>4. ASSUME NEW x \in Holding, Moves(p, x), active \notin Bundle,
             \A q \in Proc \ {p} : proc[q].pc \notin Holding,
             x = "reserved" => active' = "partial", x = "run" => active' = b,
             proc[p].pc \in {"reserve", "reserved"}
      PROVE  InstallInv'
  <2>1. active' \in Bundle \cup {Nil, "partial"}
    BY <1>4, Zenon DEF Holding
  <2>2. TypeOK'
    BY <1>1, <1>3, <1>4, <2>1, Zenon DEF TypeOK, Moves, history
  <2>3. HookInv'
    BY <1>1, <1>3, <1>4, MovesKeepHooks, Zenon
  <2>4. Untouched /\ exited = {} /\ Untouched'
    BY <1>1, <1>3, <1>4, Zenon DEF HostInv, Untouched, history
  <2>5. ScriptSafe(p)'
    BY <1>1, <1>2, <1>3, <1>4, <2>4, Zenon DEF ScriptSafe, Moves, Submitting, Holding
  <2>6. ASSUME NEW q \in Proc \ {p}
        PROVE  ScriptSafe(q)' /\ proc'[q].pc \notin Holding
    <3>1. ScriptSafe(q) /\ proc'[q] = proc[q] /\ proc[q].pc \notin Holding
      BY <1>1, <1>4, Zenon DEF ScriptInv, Moves
    <3> QED BY <1>3, <3>1, Zenon DEF ScriptSafe, Holding
  <2>7. ScriptInv'
    BY <2>5, <2>6, Zenon DEF ScriptInv
  <2>8. HostInv'
    BY <1>1, <1>3, <2>4, Zenon DEF HostInv, history
  <2>9. ASSUME NEW c \in Bundle
        PROVE  JobSafe(c)'
    <3>1. JobSafe(c) /\ unit'[c] = unit[c] /\ unit[c].st = "not-found" /\ c \notin exited'
      BY <1>1, <1>3, <2>4, Zenon DEF UnitInv, Untouched
    <3> QED BY <1>3, <3>1, Zenon DEF JobSafe
  <2> QED BY <2>2, <2>3, <2>7, <2>8, <2>9, Zenon DEF InstallInv, UnitInv
<1>5. CASE proc[p].pc = "reserved" /\ active' = proc[p].bundle /\ Goto(p, "run")
  <2>1. Moves(p, "run")
    BY <1>1, <1>5, GotoMoves, Zenon DEF ScriptPlace
  <2>2. active \notin Bundle
    BY <1>1, <1>5, InstallAssumption, Zenon DEF ScriptSafe
  <2>3. \A q \in Proc \ {p} : proc[q].pc \notin Holding
    BY <1>1, <1>5, Zenon DEF ScriptInv, Holding
  <2> QED BY <1>2, <1>4, <1>5, <2>1, <2>2, <2>3, Zenon DEF Holding
<1>6. CASE proc[p].pc = "reserve" /\ active = Nil /\ active' = "partial" /\ Goto(p, "reserved")
  <2>1. Moves(p, "reserved")
    BY <1>1, <1>6, GotoMoves, Zenon DEF ScriptPlace
  <2>2. active \notin Bundle
    BY <1>6, InstallAssumption, Zenon
  <2>3. ASSUME NEW q \in Proc \ {p}
        PROVE  proc[q].pc \notin Holding
    <3>1. ScriptSafe(q)
      BY <1>1, Zenon DEF ScriptInv
    <3> QED BY <1>6, <3>1, InstallAssumption, Zenon DEF ScriptSafe, Holding
  <2> QED BY <1>2, <1>4, <1>6, <2>1, <2>2, <2>3, Zenon DEF Holding
<1>7. CASE active' = active /\ Answer(p, "error")
  <2>1. /\ DiskGrows /\ ProofKept /\ chunk' \in [Bundle -> [Chunk -> Content]]
        /\ UNCHANGED <<active, host, history, unit, spent>>
    BY <1>1, <1>3, <1>7, DiskSame, Zenon DEF TypeOK
  <2> QED BY <1>7, <2>1, AnswerKeeps, Zenon
<1> QED BY <1>5, <1>6, <1>7, Zenon DEF Reserve

\* A unit's record replaced.
LEMMA UnitPut ==
  ASSUME TypeOK, NEW b \in Bundle, NEW u \in UnitRecord, unit' = [unit EXCEPT ![b] = u]
  PROVE  /\ unit' \in [Bundle -> UnitRecord] /\ unit'[b] = u
         /\ \A c \in Bundle \ {b} : unit'[c] = unit[c]
BY Zenon DEF TypeOK

\* systemd-run keeps it: the start is queued by the one script that holds the host,
\* which has not been touched.
LEMMA RunKeeps ==
  ASSUME InstallInv, NEW p \in Proc, Run(p)
  PROVE  InstallInv'
<1>1. TypeOK /\ HookInv /\ ScriptInv /\ UnitInv /\ ScriptSafe(p) /\ HostInv
  BY DEF InstallInv, ScriptInv, UnitInv
<1>2. PICK b \in Bundle : b = proc[p].bundle
  BY <1>1, Zenon DEF Run, ScriptSafe
<1>3. /\ UNCHANGED <<chunk, disk, active, host, history, spent>> /\ exited' = exited
      /\ proc[p].pc = "run" /\ Untouched /\ active = b /\ Verified(b) /\ host.fresh
  BY <1>1, <1>2, Zenon DEF Run, history, durable, ScriptSafe, Verified, Submitting
<1>4. CASE unit' = unit /\ Answer(p, "error")
  <2>1. /\ DiskGrows /\ ProofKept /\ chunk' \in [Bundle -> [Chunk -> Content]]
        /\ UNCHANGED <<active, host, history, unit, spent>>
    BY <1>1, <1>3, <1>4, DiskSame, Zenon DEF TypeOK
  <2> QED BY <1>4, <2>1, AnswerKeeps, Zenon
<1>5. CASE /\ unit' = [unit EXCEPT ![b] = [st |-> "queued", step |-> "none", ok |-> TRUE]]
           /\ Goto(p, "show")
  <2>1. Moves(p, "show")
    BY <1>1, <1>5, GotoMoves, Zenon DEF ScriptPlace
  <2>2. PICK u \in UnitRecord : u = [st |-> "queued", step |-> "none", ok |-> TRUE]
    BY Zenon DEF UnitRecord
  <2>3. /\ unit' \in [Bundle -> UnitRecord] /\ unit'[b] = u /\ u.st = "queued"
        /\ \A c \in Bundle \ {b} : unit'[c] = unit[c]
    BY <1>1, <1>5, <2>2, UnitPut, Zenon
  <2>4. TypeOK'
    BY <1>1, <1>3, <2>1, <2>3, Zenon DEF TypeOK, Moves, history
  <2>5. HookInv'
    BY <1>1, <1>3, <2>1, MovesKeepHooks, Zenon
  <2>6. ScriptSafe(p)'
    BY <1>2, <2>1, Zenon DEF ScriptSafe, Moves, Submitting
  <2>7. ASSUME NEW q \in Proc \ {p}
        PROVE  ScriptSafe(q)' /\ proc'[q].pc \notin Holding
    <3>1. ScriptSafe(q) /\ proc'[q] = proc[q] /\ proc[q].pc \notin Holding
      BY <1>1, <1>3, <2>1, Zenon DEF ScriptInv, Moves, Holding
    <3> QED BY <1>3, <3>1, Zenon DEF ScriptSafe, Holding
  <2>8. ScriptInv'
    BY <2>1, <2>6, <2>7, Zenon DEF ScriptInv, Moves, Holding
  <2>9. starts' = 0 /\ inits' = 0
    BY <1>3, Zenon DEF Untouched, history
  <2>10. HostInv'
    BY <1>1, <1>2, <1>3, <2>9 DEF HostInv
  <2>11. ASSUME NEW c \in Bundle
         PROVE  JobSafe(c)'
    <3>1. JobSafe(c) /\ unit[c].st = "not-found"
      BY <1>1, <1>3, Zenon DEF UnitInv, Untouched
    <3>2. Verified(b)'
      BY <1>3, Zenon DEF Verified
    <3>3. CASE c = b
      BY <1>3, <2>3, <2>9, <3>1, <3>2, <3>3, Zenon DEF JobSafe, Untouched
    <3>4. CASE c # b
      BY <1>3, <2>3, <2>9, <3>1, <3>4, Zenon DEF JobSafe, Untouched
    <3> QED BY <3>3, <3>4, Zenon
  <2> QED BY <2>4, <2>5, <2>8, <2>10, <2>11, Zenon DEF InstallInv, UnitInv
<1> QED BY <1>2, <1>4, <1>5, Zenon DEF Run

\* systemctl show keeps it.
LEMMA ShowKeeps ==
  ASSUME InstallInv, NEW p \in Proc, Show(p)
  PROVE  InstallInv'
<1>1. TypeOK /\ ScriptSafe(p)
  BY DEF InstallInv, ScriptInv
<1>2. /\ proc[p].pc = "show" /\ proc[p].bundle \in Bundle
      /\ UNCHANGED <<hook, durable, unit, history, spent>>
  BY <1>1, Zenon DEF Show, ScriptSafe
<1>3. /\ DiskGrows /\ ProofKept /\ chunk' \in [Bundle -> [Chunk -> Content]]
      /\ UNCHANGED <<active, host, history, unit, spent>>
  BY <1>1, <1>2, DiskSame, Zenon DEF TypeOK, durable
<1>4. PICK s \in ScriptRecord : s = proc[p]
  BY <1>1, Zenon DEF TypeOK
<1>5. PICK v : v = Seen(unit[proc[p].bundle])
  BY Zenon
<1>6. v \in {"inactive", "activating", "deactivating", "failed", "not-found"}
  <2>1. unit[proc[p].bundle] \in UnitRecord
    BY <1>1, <1>2, Zenon DEF TypeOK
  <2> QED BY <1>5, <2>1, Zenon DEF Seen, UnitRecord
<1>7. PICK r : r = [s EXCEPT !.pc = "status", !.seen = v]
  BY Zenon
<1>8. /\ r \in ScriptRecord /\ r.pc = "status" /\ r.bundle = s.bundle /\ r.owner = s.owner
      /\ r.mode = s.mode
  BY <1>6, <1>7, Zenon DEF ScriptRecord, ScriptPlace
<1>9. proc' = [proc EXCEPT ![p] = r] /\ hook' = hook
  BY <1>4, <1>5, <1>7, Zenon DEF Show
<1>10. Moves(p, "status")
  BY <1>1, <1>4, <1>8, <1>9, ScriptMoved, Zenon
<1>11. ScriptSafe(p)'
  BY <1>2, <1>10, Zenon DEF ScriptSafe, Moves, Submitting
<1> QED BY <1>3, <1>10, <1>11, MoveKeeps, Zenon DEF Holding

\* status keeps it: "completed" needs a complete proof, which only a job that has
\* exited with status 0 has.
LEMMA StatusKeeps ==
  ASSUME InstallInv, NEW p \in Proc, Status(p)
  PROVE  InstallInv'
<1>1. TypeOK /\ ScriptSafe(p)
  BY DEF InstallInv, ScriptInv
<1>2. proc[p].pc = "status" /\ proc[p].bundle \in Bundle /\ UNCHANGED <<durable, unit, history, spent>>
  BY <1>1, Zenon DEF Status, ScriptSafe
<1>3. /\ DiskGrows /\ ProofKept /\ chunk' \in [Bundle -> [Chunk -> Content]]
      /\ UNCHANGED <<active, host, history, unit, spent>>
  BY <1>1, <1>2, DiskSame, Zenon DEF TypeOK, durable
<1>4. PICK r : Answer(p, r) /\ (r = "completed" => disk[proc[p].bundle]["proof"] = "full")
  <2>1. proc[p].seen # "completed"
    BY <1>1, Zenon DEF TypeOK, ScriptRecord
  <2> QED BY <2>1 DEF Status, Proven
<1>5. r = "completed" => proc[p].bundle \in exited
  <2>1. JobSafe(proc[p].bundle)
    BY <1>2, Zenon DEF InstallInv, UnitInv
  <2> QED BY <1>4, <2>1, Zenon DEF JobSafe
<1> QED BY <1>3, <1>4, <1>5, AnswerKeeps, Zenon

\* No script holds the host while a unit is loaded.
LEMMA NobodyHolds ==
  ASSUME InstallInv, NEW b \in Bundle, unit[b].st # "not-found"
  PROVE  \A p \in Proc : proc[p].pc \notin Holding
<1>1. active = b
  BY Zenon DEF InstallInv, UnitInv, JobSafe
<1>2. ASSUME NEW p \in Proc
      PROVE  proc[p].pc \notin Holding
  <2>1. ScriptSafe(p)
    BY Zenon DEF InstallInv, ScriptInv
  <2> QED BY <1>1, <2>1, InstallAssumption, Zenon DEF ScriptSafe, Untouched, Holding
<1> QED BY <1>2, Zenon

\* Nothing but the unit of b is loaded while it is.
LEMMA OnlyUnit ==
  ASSUME InstallInv, NEW b \in Bundle, unit[b].st # "not-found", NEW c \in Bundle \ {b}
  PROVE  unit[c].st = "not-found" /\ c \notin exited /\ disk[c]["proof"] = "absent"
<1>1. JobSafe(b) /\ JobSafe(c)
  BY Zenon DEF InstallInv, UnitInv
<1> QED BY <1>1, Zenon DEF JobSafe

\* The hooks and the scripts while the job works: it writes no file of theirs back,
\* makes no reservation, and gives the host a runtime only when it was fresh.
LEMMA JobKeepsScripts ==
  ASSUME InstallInv, NEW b \in Bundle, unit[b].st # "not-found", UNCHANGED <<hook, proc, active>>,
         DiskGrows, exited \subseteq exited', host'.fresh = host.fresh
  PROVE  HookInv' /\ ScriptInv'
<1>1. HookInv /\ ScriptInv /\ JobSafe(b)
  BY Zenon DEF InstallInv, UnitInv
<1>2. HookInv'
  BY <1>1, Zenon DEF HookInv
<1>3. host.fresh
  BY <1>1, Zenon DEF JobSafe
<1>4. ASSUME NEW p \in Proc
      PROVE  ScriptSafe(p)' /\ proc[p].pc \notin Holding
  <2>1. ScriptSafe(p) /\ proc[p].pc \notin Holding
    BY <1>1, NobodyHolds, Zenon DEF ScriptInv
  <2>2. proc[p].pc # "free" => \A f \in SourceFiles :
            disk[proc[p].bundle][f] = "full" => disk'[proc[p].bundle][f] = "full"
    BY <2>1, Zenon DEF DiskGrows, ScriptSafe, SourceFiles
  <2> QED BY <1>3, <2>1, <2>2, Zenon DEF ScriptSafe, Submitting, Holding, SourceFiles
<1>5. ScriptInv'
  BY <1>4, Zenon DEF ScriptInv
<1> QED BY <1>2, <1>5, Zenon

\* A step of the loaded unit of b keeps the invariant, when it starts and initialises no
\* more than once and what the unit then says of its own bundle is true.
LEMMA JobStepKeeps ==
  ASSUME InstallInv, NEW b \in Bundle, unit[b].st # "not-found",
         NEW u \in UnitRecord, unit' = [unit EXCEPT ![b] = u],
         UNCHANGED <<hook, proc, chunk, active, spent>>,
         DiskGrows, \A c \in Bundle \ {b} : disk'[c]["proof"] = disk[c]["proof"],
         host' \in [docker : BOOLEAN, runtime : BOOLEAN, fresh : BOOLEAN], host'.fresh = host.fresh,
         starts' \in Nat, starts' <= 1, inits' \in Nat, inits' <= 1,
         exited \subseteq exited', exited' \subseteq exited \cup {b},
         active' = b /\ Verified(b)' /\ host'.fresh => JobSafe(b)'
  PROVE  InstallInv'
<1>1. TypeOK /\ JobSafe(b) /\ HostInv
  BY Zenon DEF InstallInv, UnitInv
<1>2. unit' \in [Bundle -> UnitRecord] /\ unit'[b] = u /\ \A c \in Bundle \ {b} : unit'[c] = unit[c]
  BY <1>1, UnitPut, Zenon
<1>3. exited' \subseteq Bundle
  BY <1>1, Zenon DEF TypeOK
<1>4. TypeOK'
  BY <1>1, <1>2, <1>3, Zenon DEF TypeOK, DiskGrows
<1>5. HookInv' /\ ScriptInv'
  BY JobKeepsScripts, Zenon
<1>6. active' = b /\ Verified(b)' /\ host'.fresh
  BY <1>1, Zenon DEF JobSafe, Verified, DiskGrows, SourceFiles
<1>7. HostInv'
  BY <1>6, Zenon DEF HostInv
<1>8. ASSUME NEW c \in Bundle \ {b}
      PROVE  JobSafe(c)'
  <2>1. unit'[c].st = "not-found" /\ c \notin exited' /\ disk'[c]["proof"] = "absent"
    BY <1>2, OnlyUnit, Zenon
  <2> QED BY <2>1, Zenon DEF JobSafe
<1>9. \A c \in Bundle : JobSafe(c)'
  BY <1>6, <1>8, Zenon
<1> QED BY <1>4, <1>5, <1>7, <1>9, Zenon DEF InstallInv, UnitInv

\* A step of the program that the unit runs: the unit's record afterwards.
LEMMA StepResult ==
  ASSUME TypeOK, NEW b \in Bundle, NEW from,
         NEW to \in {"verify", "build", "stage", "activate", "complete", "completing", "exit", "record"},
         Step(b, from, to)
  PROVE  /\ unit[b].st = "running" /\ unit[b].step = from
         /\ \E u \in UnitRecord : /\ unit' = [unit EXCEPT ![b] = u] /\ unit'[b] = u
                                  /\ u.st = "running" /\ u.step = to /\ u.ok = unit[b].ok
<1>1. PICK s \in UnitRecord : s = unit[b]
  BY Zenon DEF TypeOK
<1>2. PICK u : u = [s EXCEPT !.step = to]
  BY Zenon
<1>3. u \in UnitRecord /\ u.st = s.st /\ u.step = to /\ u.ok = s.ok
  BY <1>2, Zenon DEF UnitRecord
<1>4. unit[b].st = "running" /\ unit[b].step = from /\ unit' = [unit EXCEPT ![b] = u]
  BY <1>1, <1>2, Zenon DEF Step
<1>5. unit'[b] = u
  BY <1>3, <1>4, UnitPut, Zenon
<1> QED BY <1>1, <1>3, <1>4, <1>5, Zenon

\* What the steps of a job have in common.
LEMMA JobFacts ==
  ASSUME InstallInv, NEW b \in Bundle, unit[b].st # "not-found"
  PROVE  /\ TypeOK /\ JobSafe(b) /\ starts \in Nat /\ starts <= 1 /\ inits \in Nat /\ inits <= 1
         /\ host \in [docker : BOOLEAN, runtime : BOOLEAN, fresh : BOOLEAN]
BY Zenon DEF InstallInv, UnitInv, HostInv, TypeOK

\* systemd starts the queued job: it was queued before any start.
LEMMA JobStartsKeeps ==
  ASSUME InstallInv, NEW b \in Bundle, JobStarts(b)
  PROVE  InstallInv'
<1>1. unit[b].st = "queued" /\ UNCHANGED <<hook, proc, durable, inits, exited, spent>> /\ starts' = starts + 1
  BY Zenon DEF JobStarts
<1>2. /\ TypeOK /\ JobSafe(b) /\ inits \in Nat
      /\ host \in [docker : BOOLEAN, runtime : BOOLEAN, fresh : BOOLEAN]
  BY <1>1, JobFacts, Zenon
<1>3. starts' = 1 /\ inits' = 0
  BY <1>1, <1>2 DEF JobSafe
<1>4. PICK s \in UnitRecord : s = unit[b]
  BY <1>2, Zenon DEF TypeOK
<1>5. PICK u : u = [s EXCEPT !.st = "running", !.step = "verify"]
  BY Zenon
<1>6. u \in UnitRecord /\ u.st = "running" /\ u.step = "verify"
  BY <1>5, Zenon DEF UnitRecord
<1>7. unit' = [unit EXCEPT ![b] = u]
  BY <1>4, <1>5, Zenon DEF JobStarts
<1>8. unit'[b] = u
  BY <1>2, <1>6, <1>7, UnitPut, Zenon
<1>9. DiskGrows /\ UNCHANGED <<chunk, disk, active, host>>
  BY <1>1, <1>2, DiskSame, Zenon DEF durable
<1>10. active' = b /\ Verified(b)' /\ host'.fresh => JobSafe(b)'
  BY <1>1, <1>2, <1>3, <1>6, <1>8, <1>9, Zenon DEF JobSafe
<1>11. starts' \in Nat /\ starts' <= 1 /\ inits' \in Nat /\ inits' <= 1
  BY <1>3, SMTT(60)
<1>12. unit[b].st # "not-found" /\ exited' = exited
  BY <1>1, Zenon
<1> QED BY <1>1, <1>2, <1>6, <1>7, <1>9, <1>10, <1>11, <1>12, JobStepKeeps, Zenon

\* The job verifies its bundle and makes the evidence directory.
LEMMA JobVerifiesKeeps ==
  ASSUME InstallInv, NEW b \in Bundle, JobVerifies(b)
  PROVE  InstallInv'
<1>1. /\ Step(b, "verify", "build") /\ UNCHANGED <<hook, proc, chunk, active, host, history, spent>>
      /\ disk' = [disk EXCEPT ![b]["evidence"] = "full"] /\ disk[b]["evidence"] = "absent"
      /\ unit[b].st = "running"
  BY Zenon DEF JobVerifies, Step
<1>2. /\ TypeOK /\ JobSafe(b) /\ starts \in Nat /\ starts <= 1 /\ inits \in Nat /\ inits <= 1
      /\ host \in [docker : BOOLEAN, runtime : BOOLEAN, fresh : BOOLEAN]
  BY <1>1, JobFacts, Zenon
<1>3. unit[b].step = "verify"
  BY <1>1, Zenon DEF Step
<1>4. PICK u \in UnitRecord : /\ unit' = [unit EXCEPT ![b] = u] /\ unit'[b] = u
                              /\ u.st = "running" /\ u.step = "build"
  BY <1>1, <1>2, StepResult
<1>5. DiskGrows /\ ProofKept
  <2>1. "evidence" \in Named \ SourceFiles /\ "evidence" # "proof" /\ "full" \in Content
    BY Zenon DEF Named, SourceFiles, Content
  <2> QED BY <1>1, <1>2, <2>1, DiskPutOther, Zenon
<1>6. UNCHANGED <<starts, inits, exited>>
  BY <1>1, Zenon DEF history
<1>7. active' = b /\ Verified(b)' /\ host'.fresh => JobSafe(b)'
  BY <1>1, <1>2, <1>3, <1>4, <1>5, <1>6, Zenon DEF JobSafe, ProofKept
<1> QED BY <1>1, <1>2, <1>4, <1>5, <1>6, <1>7, JobStepKeeps, ZenonT(60) DEF ProofKept

\* The job builds.
LEMMA JobBuildsKeeps ==
  ASSUME InstallInv, NEW b \in Bundle, JobBuilds(b)
  PROVE  InstallInv'
<1>1. /\ Step(b, "build", "stage") /\ UNCHANGED <<hook, proc, durable, history, spent>>
      /\ unit[b].st = "running" /\ unit[b].step = "build"
  BY Zenon DEF JobBuilds, Step
<1>2. /\ TypeOK /\ JobSafe(b) /\ starts \in Nat /\ starts <= 1 /\ inits \in Nat /\ inits <= 1
      /\ host \in [docker : BOOLEAN, runtime : BOOLEAN, fresh : BOOLEAN]
  BY <1>1, JobFacts, Zenon
<1>3. PICK u \in UnitRecord : /\ unit' = [unit EXCEPT ![b] = u] /\ unit'[b] = u
                              /\ u.st = "running" /\ u.step = "stage"
  BY <1>1, <1>2, StepResult
<1>4. DiskGrows /\ UNCHANGED <<chunk, disk, active, host, starts, inits, exited>>
  BY <1>1, <1>2, DiskSame, Zenon DEF durable, history
<1>5. active' = b /\ Verified(b)' /\ host'.fresh => JobSafe(b)'
  BY <1>1, <1>2, <1>3, <1>4, Zenon DEF JobSafe
<1> QED BY <1>1, <1>2, <1>3, <1>4, <1>5, JobStepKeeps, Zenon

\* The job initialises the data: it has not done so before.
LEMMA JobStagesKeeps ==
  ASSUME InstallInv, NEW b \in Bundle, JobStages(b)
  PROVE  InstallInv'
<1>1. /\ Step(b, "stage", "activate") /\ UNCHANGED <<hook, proc, chunk, disk, active, starts, exited, spent>>
      /\ inits' = inits + 1 /\ host' = [host EXCEPT !.docker = TRUE]
      /\ unit[b].st = "running" /\ unit[b].step = "stage"
  BY Zenon DEF JobStages, Step
<1>2. /\ TypeOK /\ JobSafe(b) /\ starts \in Nat /\ starts <= 1
      /\ host \in [docker : BOOLEAN, runtime : BOOLEAN, fresh : BOOLEAN]
  BY <1>1, JobFacts, Zenon
<1>3. inits' = 1 /\ b \notin exited
  BY <1>1, <1>2 DEF JobSafe
<1>4. PICK u \in UnitRecord : /\ unit' = [unit EXCEPT ![b] = u] /\ unit'[b] = u
                              /\ u.st = "running" /\ u.step = "activate"
  BY <1>1, <1>2, StepResult
<1>5. DiskGrows
  BY <1>1, <1>2, DiskSame, Zenon
<1>6. /\ host' \in [docker : BOOLEAN, runtime : BOOLEAN, fresh : BOOLEAN]
      /\ host'.fresh = host.fresh
  BY <1>1, <1>2, Zenon
<1>7. active' = b /\ Verified(b)' /\ host'.fresh => JobSafe(b)'
  BY <1>1, <1>2, <1>3, <1>4, Zenon DEF JobSafe
<1>8. inits' \in Nat /\ inits' <= 1 /\ unit[b].st # "not-found"
  BY <1>1, <1>3
<1> QED BY <1>1, <1>2, <1>4, <1>5, <1>6, <1>7, <1>8, JobStepKeeps, Zenon

\* The job writes the manifest, the anchor and the runtime unit.
LEMMA JobActivatesKeeps ==
  ASSUME InstallInv, NEW b \in Bundle, JobActivates(b)
  PROVE  InstallInv'
<1>1. /\ Step(b, "activate", "complete") /\ UNCHANGED <<hook, proc, chunk, disk, active, history, spent>>
      /\ host' = [host EXCEPT !.runtime = TRUE]
      /\ unit[b].st = "running" /\ unit[b].step = "activate"
  BY Zenon DEF JobActivates, Step
<1>2. /\ TypeOK /\ JobSafe(b) /\ starts \in Nat /\ starts <= 1 /\ inits \in Nat /\ inits <= 1
      /\ host \in [docker : BOOLEAN, runtime : BOOLEAN, fresh : BOOLEAN]
  BY <1>1, JobFacts, Zenon
<1>3. PICK u \in UnitRecord : /\ unit' = [unit EXCEPT ![b] = u] /\ unit'[b] = u
                              /\ u.st = "running" /\ u.step = "complete"
  BY <1>1, <1>2, StepResult
<1>4. DiskGrows /\ UNCHANGED <<starts, inits, exited>>
  BY <1>1, <1>2, DiskSame, Zenon DEF history
<1>5. /\ host' \in [docker : BOOLEAN, runtime : BOOLEAN, fresh : BOOLEAN]
      /\ host'.fresh = host.fresh
  BY <1>1, <1>2, Zenon
<1>6. active' = b /\ Verified(b)' /\ host'.fresh => JobSafe(b)'
  BY <1>1, <1>2, <1>3, <1>4, Zenon DEF JobSafe
<1> QED BY <1>1, <1>2, <1>3, <1>4, <1>5, <1>6, JobStepKeeps, Zenon

\* The job writes complete.json.
LEMMA JobCompletesKeeps ==
  ASSUME InstallInv, NEW b \in Bundle, JobCompletes(b)
  PROVE  InstallInv'
<1>1. PICK from \in {"complete", "completing"}, to \in {"completing", "exit"}, v \in {"partial", "full"} :
        /\ Step(b, from, to) /\ disk' = [disk EXCEPT ![b]["complete"] = v]
        /\ v = "partial" => from = "complete"
  BY Zenon DEF JobCompletes
<1>2. /\ UNCHANGED <<hook, proc, chunk, active, host, starts, inits, exited, spent>>
      /\ unit[b].st = "running" /\ unit[b].step = from
  BY <1>1, Zenon DEF JobCompletes, Step, history
<1>3. /\ TypeOK /\ JobSafe(b) /\ starts \in Nat /\ starts <= 1 /\ inits \in Nat /\ inits <= 1
      /\ host \in [docker : BOOLEAN, runtime : BOOLEAN, fresh : BOOLEAN]
  BY <1>2, JobFacts, Zenon
<1>4. PICK u \in UnitRecord : /\ unit' = [unit EXCEPT ![b] = u] /\ unit'[b] = u
                              /\ u.st = "running" /\ u.step = to
  BY <1>1, <1>3, StepResult
<1>5. DiskGrows /\ ProofKept
  <2>1. "complete" \in Named \ SourceFiles /\ "complete" # "proof" /\ v \in Content
    BY Zenon DEF Named, SourceFiles, Content
  <2> QED BY <1>1, <1>3, <2>1, DiskPutOther, Zenon
<1>6. active' = b /\ Verified(b)' /\ host'.fresh => JobSafe(b)'
  BY <1>2, <1>3, <1>4, <1>5, Zenon DEF JobSafe, ProofKept
<1>7. unit[b].st # "not-found"
  BY <1>2, Zenon
<1> QED BY <1>2, <1>3, <1>4, <1>5, <1>6, <1>7, JobStepKeeps, Zenon DEF ProofKept

\* The job exits with status 0.
LEMMA JobExitsKeeps ==
  ASSUME InstallInv, NEW b \in Bundle, JobExits(b)
  PROVE  InstallInv'
<1>1. /\ Step(b, "exit", "record") /\ UNCHANGED <<hook, proc, chunk, disk, active, host, starts, inits, spent>>
      /\ exited' = exited \cup {b} /\ unit[b].st = "running" /\ unit[b].step = "exit"
  BY Zenon DEF JobExits, Step, durable
<1>2. /\ TypeOK /\ JobSafe(b) /\ starts \in Nat /\ starts <= 1 /\ inits \in Nat /\ inits <= 1
      /\ host \in [docker : BOOLEAN, runtime : BOOLEAN, fresh : BOOLEAN]
  BY <1>1, JobFacts, Zenon
<1>3. PICK u \in UnitRecord : /\ unit' = [unit EXCEPT ![b] = u] /\ unit'[b] = u
                              /\ u.st = "running" /\ u.step = "record"
  BY <1>1, <1>2, StepResult
<1>4. DiskGrows /\ ProofKept
  BY <1>1, <1>2, DiskSame, Zenon
<1>5. active' = b /\ Verified(b)' /\ host'.fresh => JobSafe(b)'
  BY <1>1, <1>2, <1>3, Zenon DEF JobSafe
<1>6. unit[b].st # "not-found" /\ exited \subseteq exited' /\ exited' \subseteq exited \cup {b}
  BY <1>1, Zenon
<1> QED BY <1>1, <1>2, <1>3, <1>4, <1>5, <1>6, JobStepKeeps, Zenon DEF ProofKept

\* The job fails, at any step.
LEMMA JobFailsKeeps ==
  ASSUME InstallInv, NEW b \in Bundle, JobFails(b)
  PROVE  InstallInv'
<1>1. /\ UNCHANGED <<hook, proc, chunk, disk, active, host, starts, inits, exited, spent>>
      /\ unit[b].st = "running"
  BY Zenon DEF JobFails, durable, history
<1>2. /\ TypeOK /\ JobSafe(b) /\ starts \in Nat /\ starts <= 1 /\ inits \in Nat /\ inits <= 1
      /\ host \in [docker : BOOLEAN, runtime : BOOLEAN, fresh : BOOLEAN]
  BY <1>1, JobFacts, Zenon
<1>3. PICK s \in UnitRecord : s = unit[b]
  BY <1>2, Zenon DEF TypeOK
<1>4. PICK u : u = [s EXCEPT !.step = "record", !.ok = FALSE]
  BY Zenon
<1>5. u \in UnitRecord /\ u.st = s.st /\ u.step = "record" /\ u.ok = FALSE
  BY <1>4, Zenon DEF UnitRecord
<1>6. unit' = [unit EXCEPT ![b] = u]
  BY <1>3, <1>4, Zenon DEF JobFails
<1>7. unit'[b] = u
  BY <1>2, <1>5, <1>6, UnitPut, Zenon
<1>8. DiskGrows /\ ProofKept
  BY <1>1, <1>2, DiskSame, Zenon
<1>9. active' = b /\ Verified(b)' /\ host'.fresh => JobSafe(b)'
  BY <1>1, <1>2, <1>3, <1>5, <1>7, Zenon DEF JobSafe
<1>10. unit[b].st # "not-found"
  BY <1>1, Zenon
<1> QED BY <1>1, <1>2, <1>5, <1>6, <1>8, <1>9, <1>10, JobStepKeeps, Zenon DEF ProofKept

\* The recorder begins the proof: the job whose success it records has exited.
LEMMA RecordKeeps ==
  ASSUME InstallInv, NEW b \in Bundle, Record(b)
  PROVE  InstallInv'
<1>1. /\ UNCHANGED <<hook, proc, chunk, active, host, starts, inits, exited, spent>>
      /\ unit[b].st = "running" /\ unit[b].step = "record" /\ unit[b].ok
      /\ disk' = [disk EXCEPT ![b]["proof"] = "partial"]
  BY Zenon DEF Record, Recordable, history
<1>2. /\ TypeOK /\ JobSafe(b) /\ starts \in Nat /\ starts <= 1 /\ inits \in Nat /\ inits <= 1
      /\ host \in [docker : BOOLEAN, runtime : BOOLEAN, fresh : BOOLEAN]
  BY <1>1, JobFacts, Zenon
<1>3. PICK s \in UnitRecord : s = unit[b]
  BY <1>2, Zenon DEF TypeOK
<1>4. PICK u : u = [s EXCEPT !.st = "stopping"]
  BY Zenon
<1>5. u \in UnitRecord /\ u.st = "stopping"
  BY <1>4, Zenon DEF UnitRecord
<1>6. unit' = [unit EXCEPT ![b] = u]
  BY <1>3, <1>4, Zenon DEF Record
<1>7. unit'[b] = u
  BY <1>2, <1>5, <1>6, UnitPut, Zenon
<1>8. DiskGrows /\ \A c \in Bundle \ {b} : disk'[c]["proof"] = disk[c]["proof"]
  <2>1. "proof" \in Named \ SourceFiles /\ "partial" \in Content
    BY Zenon DEF Named, SourceFiles, Content
  <2> QED BY <1>1, <1>2, <2>1, DiskPutOther, Zenon
<1>9. b \in exited
  BY <1>1, <1>2, Zenon DEF JobSafe
<1>10. active' = b /\ Verified(b)' /\ host'.fresh => JobSafe(b)'
  BY <1>1, <1>2, <1>5, <1>7, <1>9, Zenon DEF JobSafe
<1>11. unit[b].st # "not-found"
  BY <1>1, Zenon
<1> QED BY <1>1, <1>2, <1>5, <1>6, <1>8, <1>10, <1>11, JobStepKeeps, Zenon

\* The unit ends, unloaded or failed, with or without its proof.
LEMMA UnitEndsKeeps ==
  ASSUME InstallInv, NEW b \in Bundle, UnitEnds(b)
  PROVE  InstallInv'
<1>1. /\ UNCHANGED <<hook, proc, chunk, active, host, starts, inits, exited, spent>>
      /\ unit[b].st # "not-found"
  BY Zenon DEF UnitEnds, history
<1>2. /\ TypeOK /\ JobSafe(b) /\ starts \in Nat /\ starts <= 1 /\ inits \in Nat /\ inits <= 1
      /\ host \in [docker : BOOLEAN, runtime : BOOLEAN, fresh : BOOLEAN]
  BY <1>1, JobFacts, Zenon
<1>3. \/ disk' = disk
      \/ unit[b].st = "stopping" /\ \E v \in {"partial", "full"} : disk' = [disk EXCEPT ![b]["proof"] = v]
  BY Zenon DEF UnitEnds
<1>4. DiskGrows /\ \A c \in Bundle \ {b} : disk'[c]["proof"] = disk[c]["proof"]
  <2>1. CASE disk' = disk
    BY <1>2, <2>1, DiskSame, Zenon DEF ProofKept
  <2>2. ASSUME NEW v \in {"partial", "full"}, disk' = [disk EXCEPT ![b]["proof"] = v]
        PROVE  DiskGrows /\ \A c \in Bundle \ {b} : disk'[c]["proof"] = disk[c]["proof"]
    <3>1. "proof" \in Named \ SourceFiles /\ v \in Content
      BY Zenon DEF Named, SourceFiles, Content
    <3> QED BY <1>2, <2>2, <3>1, DiskPutOther, Zenon
  <2> QED BY <1>3, <2>1, <2>2, Zenon
<1>5. disk'[b]["proof"] # "absent" => b \in exited
  BY <1>2, <1>3, Zenon DEF JobSafe
<1>6. PICK u \in UnitRecord : unit' = [unit EXCEPT ![b] = u] /\ u.st \in {"not-found", "failed"}
  <2>1. PICK s \in UnitRecord : s = unit[b]
    BY <1>2, Zenon DEF TypeOK
  <2>2. PICK u : u = [s EXCEPT !.st = "failed", !.ok = FALSE]
    BY Zenon
  <2>3. u \in UnitRecord /\ u.st = "failed"
    BY <2>2, Zenon DEF UnitRecord
  <2>4. unit' = [unit EXCEPT ![b] = NoUnit] \/ unit' = [unit EXCEPT ![b] = u]
    BY <2>1, <2>2, Zenon DEF UnitEnds
  <2>5. NoUnit \in UnitRecord /\ NoUnit.st = "not-found"
    BY NoRecords, Zenon DEF NoUnit
  <2> QED BY <2>3, <2>4, <2>5, Zenon
<1>7. unit'[b] = u
  BY <1>2, <1>6, UnitPut, Zenon
<1>8. active' = b /\ Verified(b)' /\ host'.fresh => JobSafe(b)'
  BY <1>1, <1>2, <1>5, <1>6, <1>7, Zenon DEF JobSafe
<1> QED BY <1>1, <1>2, <1>4, <1>6, <1>8, JobStepKeeps, Zenon

\* A command is sent: the script that starts carries its hook's bundle, and the hook
\* waits for no other.
LEMMA SendCommandKeeps ==
  ASSUME InstallInv, NEW h \in Hook, NEW p \in Proc, SendCommand(h, p)
  PROVE  InstallInv'
<1>1. TypeOK /\ HookInv /\ ScriptInv /\ UnitInv /\ hook[h] \in HookRecord /\ h # Nil
  BY InstallAssumption, Zenon DEF InstallInv, TypeOK
<1>2. PICK m \in {"observe", "chunk", "submit"} :
        proc' = [proc EXCEPT ![p] = [NoProc EXCEPT !.pc = "check", !.mode = m, !.owner = h,
                                       !.bundle = hook[h].bundle, !.index = hook[h].index]]
  BY Zenon DEF SendCommand
<1>3. PICK r : r = [NoProc EXCEPT !.pc = "check", !.mode = m, !.owner = h,
                      !.bundle = hook[h].bundle, !.index = hook[h].index]
  BY Zenon
<1>4. r \in ScriptRecord /\ r.pc = "check" /\ r.mode = m /\ r.owner = h /\ r.bundle = hook[h].bundle
  <2>1. hook[h].bundle \in Bundle \cup {Nil} /\ hook[h].index \in Chunk
    BY <1>1, Zenon DEF HookRecord
  <2> QED BY <1>2, <1>3, <2>1, NoRecords, Zenon DEF ScriptRecord, ScriptPlace
<1>5. /\ proc' \in [Proc -> ScriptRecord] /\ proc'[p] = r
      /\ \A q \in Proc \ {p} : proc'[q] = proc[q]
  BY <1>1, <1>2, <1>3, <1>4, Zenon DEF TypeOK
<1>6. /\ hook[h].pc \in Sending /\ hook[h].bundle \in Bundle
      /\ UNCHANGED <<hook, chunk, disk, active, host, unit, history, spent, starts, inits, exited>>
  BY <1>1, Zenon DEF SendCommand, HookInv, durable, history
<1>7. \A q \in Proc : proc[q].owner # h
  BY Zenon DEF SendCommand, Waiting
<1>8. TypeOK'
  BY <1>1, <1>5, <1>6, Zenon DEF TypeOK
<1>9. HookInv'
  BY <1>1, <1>4, <1>5, <1>6, <1>7 DEF HookInv
<1>10. DiskGrows /\ ProofKept
  BY <1>1, <1>6, DiskSame, Zenon
<1>11. ScriptSafe(p)'
  BY <1>4, <1>5, <1>6, Zenon DEF ScriptSafe, Submitting
<1>12. ASSUME NEW q \in Proc \ {p}
       PROVE  ScriptSafe(q)'
  BY <1>1, <1>5, <1>6, <1>10, StillSafe, Zenon DEF ScriptInv
<1>13. \A q \in Proc : proc'[q].pc \in Holding => proc[q].pc \in Holding
  BY <1>4, <1>5, Zenon DEF Holding
<1>14. ScriptInv'
  BY <1>1, <1>11, <1>12, <1>13, Zenon DEF ScriptInv
<1>15. UnitInv'
  BY <1>1, <1>6, <1>10, JobStays, Zenon
<1> QED BY <1>8, <1>9, <1>14, <1>15, Zenon DEF InstallInv

\* A hook that waits for no script starts again or gives up.
LEMMA HookAloneKeeps ==
  ASSUME InstallInv, NEW h \in Hook, NEW s \in HookRecord, hook' = [hook EXCEPT ![h] = s],
         s.pc # "bound", s.pc \in Sending => s.bundle \in Bundle,
         \A q \in Proc : proc[q].owner # h, UNCHANGED <<proc, durable, unit, history, spent>>
  PROVE  InstallInv'
<1>1. TypeOK /\ HookInv /\ ScriptInv /\ UnitInv
  BY Zenon DEF InstallInv
<1>2. /\ UNCHANGED <<chunk, disk, active, host, starts, inits, exited>>
      /\ UNCHANGED <<active, host, history, unit>>
  BY Zenon DEF durable, history
<1>3. /\ hook' \in [Hook -> HookRecord] /\ hook'[h] = s
      /\ \A g \in Hook \ {h} : hook'[g] = hook[g]
  BY <1>1, Zenon DEF TypeOK
<1>4. TypeOK'
  BY <1>1, <1>2, <1>3, Zenon DEF TypeOK
<1>5. \A q \in Proc : proc[q].owner # Nil => proc[q].owner \in Hook \ {h}
  BY <1>1, Zenon DEF TypeOK, ScriptRecord
<1>6. HookInv'
  BY <1>1, <1>2, <1>3, <1>5, Zenon DEF HookInv
<1>7. DiskGrows /\ ProofKept
  BY <1>1, <1>2, DiskSame, Zenon
<1>8. \A q \in Proc : ScriptSafe(q)'
  BY <1>1, <1>2, <1>7, StillSafe, Zenon DEF ScriptInv
<1>9. ScriptInv'
  BY <1>1, <1>8, Zenon DEF ScriptInv
<1>10. UnitInv'
  BY <1>1, <1>2, <1>7, JobStays, Zenon
<1> QED BY <1>4, <1>6, <1>9, <1>10, Zenon DEF InstallInv

\* azd up, and the deadline of the polling loop.
LEMMA StartKeeps ==
  ASSUME InstallInv, NEW h \in Hook, Start(h) \/ Deadline(h)
  PROVE  InstallInv'
<1>1. UNCHANGED <<proc, durable, unit, history, spent>>
  BY Zenon DEF Start, Deadline
<1>2. CASE Start(h)
  <2>1. PICK b \in Bundle : hook' = [hook EXCEPT ![h] = [pc |-> "observe", bundle |-> b, index |-> 0]]
    BY <1>2, Zenon DEF Start
  <2>2. PICK s : s = [pc |-> "observe", bundle |-> b, index |-> 0]
    BY Zenon
  <2>3. s \in HookRecord /\ s.pc # "bound" /\ s.bundle \in Bundle
    BY <2>2, InstallAssumption, SMTT(60) DEF HookRecord, Sending, Chunk
  <2>4. \A q \in Proc : proc[q].owner # h
    BY <1>2, InstallAssumption, Zenon DEF Start, InstallInv, HookInv, Sending, Ended
  <2> QED BY <1>1, <2>1, <2>2, <2>3, <2>4, HookAloneKeeps, Zenon
<1>3. CASE Deadline(h)
  <2>1. hook' = [hook EXCEPT ![h] = NoHook] /\ \A q \in Proc : proc[q].owner # h
    BY <1>3, Zenon DEF Deadline, Waiting
  <2>2. NoHook \in HookRecord /\ NoHook.pc # "bound" /\ NoHook.pc \notin Sending
    BY NoRecords, Zenon DEF NoHook, Sending
  <2> QED BY <1>1, <2>1, <2>2, HookAloneKeeps, Zenon
<1> QED BY <1>2, <1>3, Zenon

\* A reply is lost: the hook hears an error, the script runs on with nobody waiting.
LEMMA LoseReplyKeeps ==
  ASSUME InstallInv, NEW p \in Proc, LoseReply(p)
  PROVE  InstallInv'
<1>1. TypeOK /\ HookInv /\ ScriptInv /\ UnitInv
  BY Zenon DEF InstallInv
<1>2. /\ proc[p].owner # Nil /\ Hears(proc[p].owner, "error") /\ spent.lost < MaxLost
      /\ spent' = [spent EXCEPT !.lost = @ + 1]
      /\ UNCHANGED <<chunk, disk, active, host, unit, history, starts, inits, exited>>
  BY Zenon DEF LoseReply, durable, history
<1>3. PICK s \in ScriptRecord : s = proc[p]
  BY <1>1, Zenon DEF TypeOK
<1>4. PICK r : r = [s EXCEPT !.owner = Nil]
  BY Zenon
<1>5. r \in ScriptRecord /\ r.owner = Nil /\ r.pc = s.pc /\ r.bundle = s.bundle /\ r.mode = s.mode
  BY <1>4, Zenon DEF ScriptRecord
<1>6. proc' = [proc EXCEPT ![p] = r]
  BY <1>3, <1>4, Zenon DEF LoseReply
<1>7. proc' \in [Proc -> ScriptRecord] /\ proc'[p] = r /\ \A q \in Proc \ {p} : proc'[q] = proc[q]
  BY <1>1, <1>5, <1>6, Zenon DEF TypeOK
<1>8. Heard(p, "error")
  BY <1>1, <1>2, <1>5, <1>7, HearsHeard, Zenon DEF Heard
<1>9. HookInv'
  BY <1>1, <1>2, <1>8, HeardKeepsHooks, Zenon
<1>10. spent' \in [crash : 0 .. MaxCrash, lost : 0 .. MaxLost]
  BY <1>1, <1>2, InstallAssumption DEF TypeOK
<1>11. TypeOK'
  BY <1>1, <1>2, <1>7, <1>8, <1>10, Zenon DEF TypeOK, Heard
<1>12. DiskGrows /\ ProofKept
  BY <1>1, <1>2, DiskSame, Zenon
<1>13. \A q \in Proc : proc'[q].pc = proc[q].pc /\ proc'[q].bundle = proc[q].bundle /\ proc'[q].mode = proc[q].mode
  BY <1>3, <1>5, <1>7, Zenon
<1>14. \A q \in Proc : ScriptSafe(q)'
  BY <1>1, <1>2, <1>12, <1>13, StillSafe, Zenon DEF ScriptInv
<1>15. ScriptInv'
  BY <1>1, <1>13, <1>14, Zenon DEF ScriptInv
<1>16. UnitInv'
  BY <1>1, <1>2, <1>12, JobStays, Zenon
<1> QED BY <1>9, <1>11, <1>15, <1>16, Zenon DEF InstallInv

\* The VM restarts: what was started and initialised stays counted, a complete file and
\* a complete reservation stay, and no script or unit is left.
LEMMA RestartKeeps ==
  ASSUME InstallInv, Restart
  PROVE  InstallInv'
<1>1. TypeOK /\ HookInv /\ ScriptInv /\ UnitInv
  BY Zenon DEF InstallInv
<1>2. /\ proc' = [p \in Proc |-> NoProc] /\ unit' = [b \in Bundle |-> NoUnit]
      /\ hook' = [h \in Hook |-> IF Waiting(h) THEN AfterReply(hook[h], "error") ELSE hook[h]]
      /\ UNCHANGED <<host, starts, inits, exited>>
  BY Zenon DEF Restart, history
<1>3. /\ proc' \in [Proc -> ScriptRecord] /\ unit' \in [Bundle -> UnitRecord]
      /\ \A p \in Proc : proc'[p].pc = "free" /\ proc'[p].owner = Nil
      /\ \A b \in Bundle : unit'[b].st = "not-found"
  BY <1>2, NoRecords, Zenon DEF NoProc, NoUnit
<1>4. ASSUME NEW h \in Hook
      PROVE  /\ hook'[h] \in HookRecord
             /\ hook'[h].pc \in Sending => hook'[h].bundle \in Bundle
             /\ hook'[h].pc = "bound" => hook'[h].bundle \in exited
  <2>1. CASE Waiting(h)
    <3>1. hook'[h] = AfterReply(hook[h], "error")
      BY <1>2, <2>1, Zenon
    <3>2. hook[h] \in HookRecord /\ hook[h].pc \in Sending /\ hook[h].bundle \in Bundle
      BY <1>1, <2>1, InstallAssumption, Zenon DEF Waiting, HookInv, TypeOK
    <3>3. PICK a : a = AfterReply(hook[h], "error")
      BY Zenon
    <3>4. a \in HookRecord /\ (a.pc # "idle" => a.bundle = hook[h].bundle) /\ a.pc # "bound"
      BY <3>2, <3>3, ReplyResult, Zenon
    <3> QED BY <3>1, <3>2, <3>3, <3>4, Zenon DEF Sending
  <2>2. CASE ~ Waiting(h)
    <3>1. hook'[h] = hook[h]
      BY <1>2, <2>2, Zenon
    <3> QED BY <1>1, <3>1, Zenon DEF HookInv, TypeOK
  <2> QED BY <2>1, <2>2, Zenon
<1>5. PICK kept \in {"partial", "absent"} :
        /\ chunk' = [b \in Bundle |-> [i \in Chunk |-> IF chunk[b][i] = "partial" THEN kept ELSE chunk[b][i]]]
        /\ disk' = [b \in Bundle |-> [f \in Named |-> IF disk[b][f] = "partial" THEN kept ELSE disk[b][f]]]
        /\ active' = IF active = "partial" /\ kept = "absent" THEN Nil ELSE active
  BY Zenon DEF Restart
<1>6. kept \in Content
  BY Zenon DEF Content
<1>7. chunk' \in [Bundle -> [Chunk -> Content]]
  BY <1>1, <1>5, <1>6, Zenon DEF TypeOK
<1>8. /\ disk' \in [Bundle -> [Named -> Content]]
      /\ \A b \in Bundle, f \in Named : disk'[b][f] = IF disk[b][f] = "partial" THEN kept ELSE disk[b][f]
  BY <1>1, <1>5, <1>6, Zenon DEF TypeOK
<1>9. /\ active' \in Bundle \cup {Nil, "partial"} /\ (active \in Bundle => active' = active)
      /\ active' \in Bundle => active \in Bundle
  BY <1>1, <1>5, InstallAssumption, Zenon DEF TypeOK
<1>10. spent' \in [crash : 0 .. MaxCrash, lost : 0 .. MaxLost]
  BY <1>1, InstallAssumption, SMTT(60) DEF TypeOK, Restart
<1>11. hook' \in [Hook -> HookRecord]
  BY <1>2, <1>4, Zenon
<1>12. TypeOK'
  BY <1>1, <1>2, <1>3, <1>7, <1>8, <1>9, <1>10, <1>11, Zenon DEF TypeOK
<1>13. HookInv'
  BY <1>2, <1>3, <1>4, Zenon DEF HookInv
<1>14. ScriptInv'
  BY <1>3, Zenon DEF ScriptInv, ScriptSafe, Submitting, Holding
<1>15. HostInv'
  BY <1>1, <1>2, <1>3, <1>9, Zenon DEF UnitInv, HostInv, Untouched
<1>16. ASSUME NEW b \in Bundle
       PROVE  JobSafe(b)'
  <2>1. JobSafe(b) /\ "proof" \in Named
    BY <1>1, Zenon DEF UnitInv, Named
  <2>2. disk'[b]["proof"] # "absent" => disk[b]["proof"] # "absent"
    BY <1>8, <2>1, Zenon
  <2>3. unit'[b].st = "not-found"
    BY <1>3, Zenon
  <2> QED BY <1>2, <1>9, <2>1, <2>2, <2>3, Zenon DEF JobSafe
<1> QED BY <1>12, <1>13, <1>14, <1>15, <1>16, Zenon DEF InstallInv, UnitInv

\* The first hook has not run: nothing is reserved, started or installed by it.
LEMMA InstallInit == Init => InstallInv
<1> SUFFICES ASSUME Init PROVE InstallInv
  BY Zenon
<1>1. /\ hook \in [Hook -> HookRecord] /\ \A h \in Hook : hook[h].pc = "idle"
      /\ proc \in [Proc -> ScriptRecord] /\ \A p \in Proc : proc[p].pc = "free" /\ proc[p].owner = Nil
      /\ unit \in [Bundle -> UnitRecord] /\ \A b \in Bundle : unit[b].st = "not-found"
  BY NoRecords, Zenon DEF Init, NoHook, NoProc, NoUnit
<1>2. /\ chunk \in [Bundle -> [Chunk -> Content]] /\ disk \in [Bundle -> [Named -> Content]]
      /\ \A b \in Bundle : disk[b]["proof"] = "absent"
  BY Zenon DEF Init, Content, Named
<1>3. /\ host \in [docker : BOOLEAN, runtime : BOOLEAN, fresh : BOOLEAN]
      /\ ~ host.fresh => host.docker \/ host.runtime
  <2>1. PICK docker \in BOOLEAN, runtime \in BOOLEAN, fresh \in BOOLEAN :
          /\ host = [docker |-> docker, runtime |-> runtime, fresh |-> fresh]
          /\ fresh = (~ docker /\ ~ runtime)
    BY Zenon DEF Init
  <2> QED BY <2>1, Zenon
<1>4. active = Nil /\ starts = 0 /\ inits = 0 /\ exited = {}
  BY Zenon DEF Init
<1>5. spent \in [crash : 0 .. MaxCrash, lost : 0 .. MaxLost]
  BY InstallAssumption DEF Init
<1>6. TypeOK
  BY <1>1, <1>2, <1>3, <1>4, <1>5, Zenon DEF TypeOK
<1>7. HookInv
  BY <1>1, Zenon DEF HookInv, Sending
<1>8. ScriptInv
  BY <1>1, Zenon DEF ScriptInv, ScriptSafe, Submitting, Holding
<1>9. HostInv
  BY <1>1, <1>3, <1>4 DEF HostInv, Untouched
<1>10. ASSUME NEW b \in Bundle
       PROVE  JobSafe(b)
  BY <1>1, <1>2, <1>4, Zenon DEF JobSafe
<1> QED BY <1>6, <1>7, <1>8, <1>9, <1>10, Zenon DEF InstallInv, UnitInv

\* The inductive invariant of the installation: what hooks, scripts, the disk and the
\* unit say of each other, whatever overlaps, is lost or restarts.
THEOREM InstallInvariant == Spec => []InstallInv
<1>1. InstallInv /\ [Next]_vars => InstallInv'
  <2> SUFFICES ASSUME InstallInv, [Next]_vars PROVE InstallInv'
    BY Zenon
  <2>1. CASE UNCHANGED vars
    <3>1. UNCHANGED <<hook, proc, chunk, disk, active, host, unit, history, starts, inits, exited, spent>>
      BY <2>1, Zenon DEF vars, durable, history
    <3>2. TypeOK /\ HookInv /\ ScriptInv /\ UnitInv
      BY Zenon DEF InstallInv
    <3>3. TypeOK'
      BY <3>1, <3>2, Zenon DEF TypeOK
    <3>4. HookInv'
      BY <3>1, <3>2, Zenon DEF HookInv
    <3>5. DiskGrows /\ ProofKept
      BY <3>1, <3>2, DiskSame, Zenon
    <3>6. \A p \in Proc : ScriptSafe(p)'
      BY <3>1, <3>2, <3>5, StillSafe, Zenon DEF ScriptInv
    <3>7. ScriptInv'
      BY <3>1, <3>2, <3>6, Zenon DEF ScriptInv
    <3>8. UnitInv'
      BY <3>1, <3>2, <3>5, JobStays, Zenon
    <3> QED BY <3>3, <3>4, <3>7, <3>8, Zenon DEF InstallInv
  <2>2. ASSUME NEW h \in Hook, HookStep(h) PROVE InstallInv'
    BY <2>2, SendCommandKeeps, StartKeeps, Zenon DEF HookStep
  <2>3. ASSUME NEW p \in Proc, Script(p) PROVE InstallInv'
    BY <2>3, CheckKeeps, PutChunkKeeps, SubmitKeeps, StoreKeeps, FreshKeeps, ReserveKeeps, RunKeeps,
       ShowKeeps, StatusKeeps, Zenon DEF Script
  <2>4. ASSUME NEW b \in Bundle, Job(b) PROVE InstallInv'
    BY <2>4, JobStartsKeeps, JobVerifiesKeeps, JobBuildsKeeps, JobStagesKeeps, JobActivatesKeeps,
       JobCompletesKeeps, JobExitsKeeps, JobFailsKeeps, RecordKeeps, UnitEndsKeeps, Zenon DEF Job
  <2> QED BY <2>1, <2>2, <2>3, <2>4, LoseReplyKeeps, RestartKeeps, Zenon DEF Next
<1> QED BY <1>1, InstallInit, PTL DEF Spec

\* One job starts, on a host that was fresh, under its own reservation and with every
\* file of its bundle complete, and the data is initialised once (run, install).
THEOREM InstallsOnceOnFreshHost == Spec => []OneFreshInstallation
<1>1. InstallInv => OneFreshInstallation
  BY Zenon DEF InstallInv, UnitInv, HostInv, JobSafe, OneFreshInstallation, OneInstallation, OnlyFreshHost,
     JobIsReserved
<1> QED BY <1>1, InstallInvariant, PTL

\* A hook is bound only to the reserved bundle, after the job of that bundle has
\* exited with status 0 (status, record_terminal).
THEOREM CompletionAlwaysEarned == Spec => []CompletionEarned
<1>1. InstallInv => CompletionEarned
  <2> SUFFICES ASSUME InstallInv, NEW h \in Hook, hook[h].pc = "bound"
               PROVE  active = hook[h].bundle /\ hook[h].bundle \in exited /\ inits = 1
    BY Zenon DEF CompletionEarned
  <2>1. hook[h].bundle \in exited /\ hook[h].bundle \in Bundle
    BY Zenon DEF InstallInv, HookInv, TypeOK
  <2> QED BY <2>1, Zenon DEF InstallInv, UnitInv, JobSafe
<1> QED BY <1>1, InstallInvariant, PTL
=============================================================================
