------------------------ MODULE ServiceBindingProofs ------------------------
(***************************************************************************)
(* Theorems about the binding of the service to its files                  *)
(* (ServiceBinding), for any set of jobs, of volumes and of versions of    *)
(* the files, and about the supervisor that starts them (Runtime): it      *)
(* implements the host steps of Admission.                                 *)
(***************************************************************************)
EXTENDS ServiceBinding, Runtime, TLAPS

Hashing == {<<"compose", "config", "code">>, <<"config", "code">>, <<"code">>, <<>>}
Loading == {<<"code", "compose", "config">>, <<"compose", "config">>, <<"config">>, <<>>}
Elements(q) == {q[k] : k \in 1 .. Len(q)}

\* The steps of an install, and of a supervisor, that work from a loaded manifest.
Installing == {"load", "fill", "reload", "enable"}
Checking == {"dependencies", "workers", "listener", "ready"}

\* What a job has still to read is the end of the order it reads in; what prepare has
\* read it has recorded.  The manifest and the unit are written once, each by the job
\* that created it, and an install works from the finished manifest.
JobOK(j) ==
  /\ place[j] \in JobSteps
  /\ place[j] = "hash" => todo[j] \in Hashing /\ \A i \in Item \ Elements(todo[j]) : bound[j][i] \in Version
  /\ place[j] # "hash" => todo[j] \in Loading
  /\ place[j] = "write" => manifest = Partial /\ bound[j] \in Content
  /\ place[j] \in Installing => bound[j] \in Content /\ manifest = bound[j]
  /\ place[j] = "fill" => unitFile = Partial
  /\ place[j] \in {"reload", "enable"} => unitFile = bound[j]
  /\ place[j] = "enable" => loaded = unitFile

\* The supervisor works from the finished manifest; what it has compared in this step
\* is as recorded, unless it was replaced since the step began.
SupOK ==
  /\ place["sup"] \in {"off", "init", "backing"} \cup Checking
  /\ todo["sup"] \in Loading
  /\ place["sup"] # "off" => bound["sup"] \in Content /\ manifest = bound["sup"]
  /\ place["sup"] \in Checking =>
       \A i \in Item \ (changed \cup Elements(todo["sup"])) : disk[i] = bound["sup"][i]

\* The mkdir and the exclusive creation of the unit each have one winner.
OneWriter ==
  \A step \in {"write", "fill"}, j, k \in Job : place[j] = step /\ place[k] = step => j = k

FilesOK ==
  /\ loaded \in Content => loaded = unitFile
  /\ UnitNamesManifest /\ EnabledUnitFinished /\ NoBlankStart

BindingInv ==
  BindingTypeOK /\ (\A j \in Job : JobOK(j)) /\ SupOK /\ OneWriter /\ FilesOK

\* The steps of the supervisor, spelt out.
LEMMA SupStepsAre == SupSteps = {"off", "init", "backing"} \cup Checking
<1>1. 1 .. 6 = {1, 2, 3, 4, 5, 6}
  OBVIOUS
<1>2. /\ Starting[1] = "init" /\ Starting[2] = "backing" /\ Starting[3] = "dependencies"
      /\ Starting[4] = "workers" /\ Starting[5] = "listener" /\ Starting[6] = "ready"
  BY Zenon DEF Starting
<1>3. SupSteps = {"off"} \cup {Starting[i] : i \in {1, 2, 3, 4, 5, 6}}
  BY <1>1, Zenon DEF SupSteps
<1> QED
  BY <1>2, <1>3, Zenon DEF Checking

\* The orders in which the files are read reach every file.
LEMMA WholeOrders ==
  /\ HashOrder \in Hashing /\ LoadOrder \in Loading /\ <<>> \in Hashing /\ <<>> \in Loading
  /\ Elements(HashOrder) = Item /\ Elements(LoadOrder) = Item /\ Elements(<<>>) = {}
<1>1. 1 .. 3 = {1, 2, 3} /\ 1 .. 0 = {}
  OBVIOUS
<1>2. Elements(HashOrder) = {HashOrder[k] : k \in {1, 2, 3}}
  BY <1>1, Zenon DEF Elements, HashOrder
<1>3. Elements(LoadOrder) = {LoadOrder[k] : k \in {1, 2, 3}}
  BY <1>1, Zenon DEF Elements, LoadOrder
<1>4. Elements(<<>>) = {}
  BY <1>1, Zenon DEF Elements
<1> QED
  BY <1>2, <1>3, <1>4 DEF HashOrder, LoadOrder, Item, Hashing, Loading

\* Reading the next file leaves the rest of the order.
LEMMA ReadNext ==
  ASSUME NEW q \in Hashing \cup Loading
  PROVE  /\ q \in Seq(Item)
         /\ q # <<>> => /\ Head(q) \in Item
                        /\ Elements(q) = {Head(q)} \cup Elements(Tail(q))
                        /\ q \in Hashing => Tail(q) \in Hashing
                        /\ q \in Loading => Tail(q) \in Loading
<1>1. q \in Seq(Item)
  <2>1. /\ <<"compose", "config", "code">> \in Seq(Item) /\ <<"config", "code">> \in Seq(Item)
        /\ <<"code">> \in Seq(Item) /\ <<"code", "compose", "config">> \in Seq(Item)
        /\ <<"compose", "config">> \in Seq(Item) /\ <<"config">> \in Seq(Item) /\ <<>> \in Seq(Item)
    BY DEF Item
  <2> QED
    BY <2>1, Zenon DEF Hashing, Loading
<1>2. ASSUME q # <<>> PROVE Elements(q) = {Head(q)} \cup Elements(Tail(q))
  <2>1. /\ Len(q) \in Nat /\ Len(q) > 0 /\ Len(Tail(q)) = Len(q) - 1 /\ Head(q) = q[1]
        /\ \A k \in 1 .. Len(q) - 1 : Tail(q)[k] = q[k + 1]
    BY <1>1, <1>2
  <2>2. ASSUME NEW k \in 1 .. Len(q) PROVE q[k] \in {Head(q)} \cup Elements(Tail(q))
    <3>1. CASE k = 1
      BY <2>1, <3>1, Zenon
    <3>2. CASE k # 1
      <4>1. k - 1 \in 1 .. Len(Tail(q)) /\ Tail(q)[k - 1] = q[k]
        BY <2>1, <3>2
      <4> QED
        BY <4>1, Zenon DEF Elements
    <3> QED
      BY <3>1, <3>2, Zenon
  <2>3. ASSUME NEW k \in 1 .. Len(Tail(q)) PROVE Tail(q)[k] \in Elements(q)
    <3>1. k + 1 \in 1 .. Len(q) /\ Tail(q)[k] = q[k + 1]
      BY <2>1
    <3> QED
      BY <3>1, Zenon DEF Elements
  <2>4. Head(q) \in Elements(q)
    BY <2>1 DEF Elements
  <2> QED
    BY <2>2, <2>3, <2>4, Zenon DEF Elements
<1>3. q # <<>> => Head(q) \in Item
  BY <1>1
<1>4. q \in Hashing /\ q # <<>> => Tail(q) \in Hashing
  <2>1. /\ Tail(<<"compose", "config", "code">>) = <<"config", "code">>
        /\ Tail(<<"config", "code">>) = <<"code">> /\ Tail(<<"code">>) = <<>>
    OBVIOUS
  <2> QED
    BY <2>1, Zenon DEF Hashing
<1>5. q \in Loading /\ q # <<>> => Tail(q) \in Loading
  <2>1. /\ Tail(<<"code", "compose", "config">>) = <<"compose", "config">>
        /\ Tail(<<"compose", "config">>) = <<"config">> /\ Tail(<<"config">>) = <<>>
    OBVIOUS
  <2> QED
    BY <2>1, Zenon DEF Loading
<1> QED
  BY <1>1, <1>2, <1>3, <1>4, <1>5, Zenon

\* Jobs and the supervisor are processes, and the supervisor is not a job.
LEMMA Processes == "sup" \in Proc /\ \A j \in Job : j \in Proc /\ j # "sup"
BY NamesDistinct, Zenon DEF Proc

\* A step of one job leaves the others' invariant, when it writes a file that only it
\* may write.
LEMMA JobMoves ==
  ASSUME BindingInv, NEW j \in Job, NEW step \in JobSteps, NEW q \in Seq(Item),
         NEW b \in [Item -> Version \cup {Absent}],
         place' = [place EXCEPT ![j] = step], todo' = [todo EXCEPT ![j] = q], bound' = [bound EXCEPT ![j] = b],
         UNCHANGED <<disk, changed, volumes, counters>>,
         {manifest', unitFile', loaded'} \subseteq Content \cup {Absent, Partial}, enabled' \in BOOLEAN,
         manifest' # manifest => manifest \notin Content /\ \A k \in Job \ {j} : place[k] # "write",
         unitFile' # unitFile => unitFile \notin Content /\ \A k \in Job \ {j} : place[k] # "fill",
         loaded' # loaded => loaded' = unitFile'
  PROVE  /\ BindingTypeOK' /\ SupOK' /\ NoBlankStart' /\ \A k \in Job \ {j} : JobOK(k)'
         /\ place'[j] = step /\ todo'[j] = q /\ bound'[j] = b
         /\ \A k \in Job \ {j} : place'[k] = place[k]
<1>1. /\ BindingTypeOK /\ SupOK /\ NoBlankStart /\ \A k \in Job : JobOK(k)
      /\ "sup" \in Proc /\ \A k \in Job : k \in Proc /\ k # "sup"
  BY Processes, Zenon DEF BindingInv, FilesOK
<1>2. place \in [Proc -> JobSteps \cup SupSteps] /\ todo \in [Proc -> Seq(Item)]
      /\ bound \in [Proc -> [Item -> Version \cup {Absent}]]
  BY <1>1, Zenon DEF BindingTypeOK
<1>3. /\ place'[j] = step /\ todo'[j] = q /\ bound'[j] = b
      /\ \A p \in Proc \ {j} : place'[p] = place[p] /\ todo'[p] = todo[p] /\ bound'[p] = bound[p]
  BY <1>1, <1>2, Zenon
<1>4. BindingTypeOK'
  <2>1. place' \in [Proc -> JobSteps \cup SupSteps] /\ todo' \in [Proc -> Seq(Item)]
        /\ bound' \in [Proc -> [Item -> Version \cup {Absent}]]
    BY <1>1, <1>2, Zenon
  <2> QED
    BY <1>1, <2>1, Zenon DEF BindingTypeOK, volumes, counters
<1>5. SupOK'
  BY <1>1, <1>3, Zenon DEF SupOK
<1>6. NoBlankStart'
  BY <1>1, <1>3, Zenon DEF NoBlankStart, volumes
<1>7. ASSUME NEW k \in Job \ {j} PROVE JobOK(k)'
  <2>1. /\ JobOK(k) /\ place'[k] = place[k] /\ todo'[k] = todo[k] /\ bound'[k] = bound[k]
    BY <1>1, <1>3, Zenon
  <2>2. place[k] \in Installing \cup {"write"} => manifest' = manifest
    BY <2>1, Zenon DEF JobOK
  <2>3. place[k] \in {"fill", "reload", "enable"} => unitFile' = unitFile
    BY <2>1, Zenon DEF JobOK, Installing
  <2>4. place[k] = "enable" => loaded' = unitFile'
    BY <2>1, <2>3, Zenon DEF JobOK
  <2> QED
    BY <2>1, <2>2, <2>3, <2>4, Zenon DEF JobOK
<1> QED
  BY <1>1, <1>3, <1>4, <1>5, <1>6, <1>7, Zenon

\* What remains to be shown of a step of a job.
LEMMA JobStepOK ==
  ASSUME BindingInv, NEW j \in Job, BindingTypeOK', SupOK', NoBlankStart', \A k \in Job \ {j} : JobOK(k)',
         \A k \in Job \ {j} : place'[k] = place[k], JobOK(j)',
         place'[j] \in {"write", "fill"} => \A k \in Job \ {j} : place[k] # place'[j],
         loaded' \in Content => loaded' = unitFile', UnitNamesManifest', EnabledUnitFinished'
  PROVE  BindingInv'
<1>1. OneWriter'
  BY Zenon DEF BindingInv, OneWriter
<1>2. \A k \in Job : JobOK(k)'
  BY Zenon
<1> QED
  BY <1>1, <1>2, Zenon DEF BindingInv, FilesOK

\* What is known of a job when it makes a step.
JobFacts(j) ==
  /\ JobOK(j) /\ j \in Proc /\ j # "sup"
  /\ todo[j] \in Seq(Item) /\ bound[j] \in [Item -> Version \cup {Absent}]
  /\ bound = [bound EXCEPT ![j] = bound[j]] /\ place = [place EXCEPT ![j] = place[j]]
  /\ {manifest, unitFile, loaded} \subseteq Content \cup {Absent, Partial} /\ enabled \in BOOLEAN
  /\ Content \subseteq [Item -> Version \cup {Absent}] /\ Nothing \in [Item -> Version \cup {Absent}]
  /\ Absent \notin Content /\ Partial \notin Content
  /\ <<>> \in Seq(Item) /\ HashOrder \in Seq(Item) /\ LoadOrder \in Seq(Item)

\* What is known of the unit as written and as loaded.
UnitFacts ==
  /\ loaded \in Content => loaded = unitFile
  /\ unitFile \in Content => manifest = unitFile
  /\ enabled => unitFile \in Content /\ loaded = unitFile

\* Both follow from the invariant.
LEMMA BindingFacts ==
  ASSUME BindingInv, NEW j \in Job
  PROVE  JobFacts(j) /\ UnitFacts
<1>1. BindingTypeOK /\ JobOK(j) /\ FilesOK
  BY Zenon DEF BindingInv
<1>2. j \in Proc /\ j # "sup"
  BY Processes, Zenon
<1>3. /\ todo[j] \in Seq(Item) /\ bound[j] \in [Item -> Version \cup {Absent}]
      /\ {manifest, unitFile, loaded} \subseteq Content \cup {Absent, Partial} /\ enabled \in BOOLEAN
  BY <1>1, <1>2, Zenon DEF BindingTypeOK
<1>4. bound = [bound EXCEPT ![j] = bound[j]] /\ place = [place EXCEPT ![j] = place[j]]
  BY <1>1, <1>2, Zenon DEF BindingTypeOK
<1>5. /\ Content \subseteq [Item -> Version \cup {Absent}] /\ Nothing \in [Item -> Version \cup {Absent}]
      /\ Absent \notin Content /\ Partial \notin Content
  BY NamesDistinct, Zenon DEF Content, Nothing
<1>6. <<>> \in Seq(Item) /\ HashOrder \in Seq(Item) /\ LoadOrder \in Seq(Item)
  BY WholeOrders, ReadNext, Zenon
<1>7. UnitFacts
  BY <1>1, Zenon DEF FilesOK, UnitFacts, UnitNamesManifest, EnabledUnitFinished
<1> QED
  BY <1>1, <1>2, <1>3, <1>4, <1>5, <1>6, <1>7, Zenon DEF JobFacts

\* prepare begins with nothing read.
LEMMA BindingPrepareBegin ==
  ASSUME BindingInv, NEW j \in Job, PrepareBegin(j)
  PROVE  BindingInv'
<1>1. JobFacts(j) /\ UnitFacts
  BY BindingFacts, Zenon
<1>2. j # "sup"
  BY Processes, Zenon
<1>3. /\ place[j] = "idle"
      /\ place' = [place EXCEPT ![j] = "hash"] /\ todo' = [todo EXCEPT ![j] = HashOrder]
      /\ bound' = [bound EXCEPT ![j] = bound[j]]
      /\ UNCHANGED <<changed, manifest, unitFile, loaded, enabled, disk, volumes, counters>>
  BY <1>1, <1>2, Zenon DEF PrepareBegin, Enter, files, JobFacts
<1>4. "hash" \in JobSteps /\ HashOrder \in Seq(Item) /\ bound[j] \in [Item -> Version \cup {Absent}]
  BY <1>1, <1>3, Zenon DEF JobFacts, JobSteps, JobOK
<1>5. /\ BindingTypeOK' /\ SupOK' /\ NoBlankStart' /\ \A k \in Job \ {j} : JobOK(k)'
      /\ place'[j] = "hash" /\ todo'[j] = HashOrder /\ bound'[j] = bound[j]
      /\ \A k \in Job \ {j} : place'[k] = place[k]
  BY <1>1, <1>3, <1>4, JobMoves, Zenon DEF JobFacts, volumes, counters
<1>6. JobOK(j)'
  BY <1>1, <1>3, <1>5, WholeOrders, Zenon DEF JobFacts, JobOK, JobSteps, Installing
<1>7. UnitFacts'
  BY <1>1, <1>3, Zenon DEF UnitFacts, JobFacts
<1> QED
  BY <1>3, <1>5, <1>6, <1>7, JobStepOK, Zenon DEF UnitFacts, UnitNamesManifest, EnabledUnitFinished

\* What prepare has hashed it has recorded.
LEMMA BindingHashNext ==
  ASSUME BindingInv, NEW j \in Job, HashNext(j)
  PROVE  BindingInv'
<1>1. JobFacts(j) /\ UnitFacts
  BY BindingFacts
<1>2. j # "sup"
  BY Processes
<1>3. /\ place[j] = "hash" /\ todo[j] # <<>>
      /\ place' = [place EXCEPT ![j] = "hash"] /\ todo' = [todo EXCEPT ![j] = Tail(todo[j])]
      /\ bound' = [bound EXCEPT ![j] = [bound[j] EXCEPT ![Head(todo[j])] = disk[Head(todo[j])]]]
      /\ UNCHANGED <<changed, manifest, unitFile, loaded, enabled, disk, volumes, counters>>
  BY <1>1, <1>2, Zenon DEF HashNext, files, JobFacts
<1>31. /\ Head(todo[j]) \in Item /\ disk[Head(todo[j])] \in Version /\ Tail(todo[j]) \in Hashing
       /\ Elements(todo[j]) = {Head(todo[j])} \cup Elements(Tail(todo[j]))
       /\ Tail(todo[j]) \in Seq(Item)
  <2>1. todo[j] \in Hashing /\ disk \in [Item -> Version]
    BY <1>1, <1>3, Zenon DEF JobFacts, JobOK, BindingInv, BindingTypeOK, Content
  <2>2. Head(todo[j]) \in Item /\ Tail(todo[j]) \in Hashing
        /\ Elements(todo[j]) = {Head(todo[j])} \cup Elements(Tail(todo[j]))
    BY <1>3, <2>1, ReadNext, Zenon
  <2> QED
    BY <2>1, <2>2, ReadNext, Zenon
<1>4. "hash" \in JobSteps /\ Tail(todo[j]) \in Seq(Item) /\ [bound[j] EXCEPT ![Head(todo[j])] = disk[Head(todo[j])]] \in [Item -> Version \cup {Absent}]
  BY <1>1, <1>3, <1>31, Zenon DEF JobFacts, JobSteps, JobOK
<1>5. /\ BindingTypeOK' /\ SupOK' /\ NoBlankStart' /\ \A k \in Job \ {j} : JobOK(k)'
      /\ place'[j] = "hash" /\ todo'[j] = Tail(todo[j]) /\ bound'[j] = [bound[j] EXCEPT ![Head(todo[j])] = disk[Head(todo[j])]]
      /\ \A k \in Job \ {j} : place'[k] = place[k]
  BY <1>1, <1>3, <1>4, JobMoves, Zenon DEF JobFacts, volumes, counters
<1>6. JobOK(j)'
  BY <1>1, <1>3, <1>5, WholeOrders, <1>31 DEF JobFacts, JobOK, JobSteps, Installing
<1>7. UnitFacts'
  BY <1>1, <1>3, Zenon DEF UnitFacts, JobFacts
<1> QED
  BY <1>3, <1>5, <1>6, <1>7, JobStepOK, Zenon DEF UnitFacts, UnitNamesManifest, EnabledUnitFinished

\* The mkdir succeeds once, for a prepare that has recorded every file.
LEMMA BindingMakeDirectory ==
  ASSUME BindingInv, NEW j \in Job, MakeDirectory(j)
  PROVE  BindingInv'
<1>1. JobFacts(j) /\ UnitFacts
  BY BindingFacts
<1>2. j # "sup"
  BY Processes
<1>3. /\ place[j] = "hash" /\ todo[j] = <<>> /\ manifest = Absent
      /\ manifest' = Partial
      /\ place' = [place EXCEPT ![j] = "write"] /\ todo' = [todo EXCEPT ![j] = <<>>]
      /\ bound' = [bound EXCEPT ![j] = bound[j]]
      /\ UNCHANGED <<changed, unitFile, loaded, enabled, disk, volumes, counters>>
  BY <1>1, <1>2, Zenon DEF MakeDirectory, Finished, Goto, Enter, JobFacts
<1>31. \A k \in Job : place[k] # "write"
  BY <1>3, NamesDistinct, Zenon DEF BindingInv, JobOK
<1>32. bound[j] \in Content
  BY <1>1, <1>3, WholeOrders, Zenon DEF JobFacts, JobOK, Content
<1>4. "write" \in JobSteps /\ <<>> \in Seq(Item) /\ bound[j] \in [Item -> Version \cup {Absent}]
  BY <1>1, <1>3, Zenon DEF JobFacts, JobSteps, JobOK
<1>5. /\ BindingTypeOK' /\ SupOK' /\ NoBlankStart' /\ \A k \in Job \ {j} : JobOK(k)'
      /\ place'[j] = "write" /\ todo'[j] = <<>> /\ bound'[j] = bound[j]
      /\ \A k \in Job \ {j} : place'[k] = place[k]
  BY <1>1, <1>3, <1>4, <1>31, JobMoves, ZenonT(60) DEF JobFacts, volumes, counters
<1>6. JobOK(j)'
  BY <1>1, <1>3, <1>5, WholeOrders, <1>32, NamesDistinct, Zenon DEF JobFacts, JobOK, JobSteps, Installing
<1>7. UnitFacts'
  BY <1>1, <1>3, <1>31, Zenon DEF UnitFacts, JobFacts
<1> QED
  BY <1>3, <1>5, <1>6, <1>7, <1>31, JobStepOK DEF UnitFacts, UnitNamesManifest, EnabledUnitFinished

\* An existing manifest stays.
LEMMA BindingExistingManifest ==
  ASSUME BindingInv, NEW j \in Job, ExistingManifest(j)
  PROVE  BindingInv'
<1>1. JobFacts(j) /\ UnitFacts
  BY BindingFacts
<1>2. j # "sup"
  BY Processes
<1>3. /\ place[j] = "hash" /\ todo[j] = <<>>
      /\ place' = [place EXCEPT ![j] = "idle"] /\ todo' = [todo EXCEPT ![j] = <<>>]
      /\ bound' = [bound EXCEPT ![j] = Nothing]
      /\ UNCHANGED <<changed, manifest, unitFile, loaded, enabled, disk, volumes, counters>>
  BY <1>1, <1>2, Zenon DEF ExistingManifest, Finished, End, Enter, files, JobFacts
<1>4. "idle" \in JobSteps /\ <<>> \in Seq(Item) /\ Nothing \in [Item -> Version \cup {Absent}]
  BY <1>1, <1>3, Zenon DEF JobFacts, JobSteps, JobOK
<1>5. /\ BindingTypeOK' /\ SupOK' /\ NoBlankStart' /\ \A k \in Job \ {j} : JobOK(k)'
      /\ place'[j] = "idle" /\ todo'[j] = <<>> /\ bound'[j] = Nothing
      /\ \A k \in Job \ {j} : place'[k] = place[k]
  BY <1>1, <1>3, <1>4, JobMoves, Zenon DEF JobFacts, volumes, counters
<1>6. JobOK(j)'
  BY <1>1, <1>3, <1>5, WholeOrders, Zenon DEF JobFacts, JobOK, JobSteps, Installing
<1>7. UnitFacts'
  BY <1>1, <1>3, Zenon DEF UnitFacts, JobFacts
<1> QED
  BY <1>3, <1>5, <1>6, <1>7, JobStepOK, Zenon DEF UnitFacts, UnitNamesManifest, EnabledUnitFinished

\* The job that made the directory completes the manifest.
LEMMA BindingWriteManifest ==
  ASSUME BindingInv, NEW j \in Job, WriteManifest(j)
  PROVE  BindingInv'
<1>1. JobFacts(j) /\ UnitFacts
  BY BindingFacts
<1>2. j # "sup"
  BY Processes
<1>3. /\ place[j] = "write"
      /\ manifest' = bound[j]
      /\ place' = [place EXCEPT ![j] = "idle"] /\ todo' = [todo EXCEPT ![j] = <<>>]
      /\ bound' = [bound EXCEPT ![j] = Nothing]
      /\ UNCHANGED <<changed, unitFile, loaded, enabled, disk, volumes, counters>>
  BY <1>1, <1>2, Zenon DEF WriteManifest, End, Enter, JobFacts
<1>31. manifest = Partial /\ bound[j] \in Content /\ \A k \in Job \ {j} : place[k] # "write"
  BY <1>1, <1>3, Zenon DEF JobFacts, JobOK, BindingInv, OneWriter
<1>4. "idle" \in JobSteps /\ <<>> \in Seq(Item) /\ Nothing \in [Item -> Version \cup {Absent}]
  BY <1>1, <1>3, Zenon DEF JobFacts, JobSteps, JobOK
<1>5. /\ BindingTypeOK' /\ SupOK' /\ NoBlankStart' /\ \A k \in Job \ {j} : JobOK(k)'
      /\ place'[j] = "idle" /\ todo'[j] = <<>> /\ bound'[j] = Nothing
      /\ \A k \in Job \ {j} : place'[k] = place[k]
  BY <1>1, <1>3, <1>4, <1>31, JobMoves, ZenonT(60) DEF JobFacts, volumes, counters
<1>6. JobOK(j)'
  BY <1>1, <1>3, <1>5, WholeOrders, Zenon DEF JobFacts, JobOK, JobSteps, Installing
<1>7. UnitFacts'
  BY <1>1, <1>3, <1>31, Zenon DEF UnitFacts, JobFacts
<1> QED
  BY <1>3, <1>5, <1>6, <1>7, <1>31, JobStepOK, Zenon DEF UnitFacts, UnitNamesManifest, EnabledUnitFinished

\* An install begins with the digest of the finished manifest.
LEMMA BindingInstallBegin ==
  ASSUME BindingInv, NEW j \in Job, InstallBegin(j)
  PROVE  BindingInv'
<1>1. JobFacts(j) /\ UnitFacts
  BY BindingFacts
<1>2. j # "sup"
  BY Processes
<1>3. /\ place[j] = "idle"
      /\ manifest \in Content
      /\ place' = [place EXCEPT ![j] = "load"] /\ todo' = [todo EXCEPT ![j] = LoadOrder]
      /\ bound' = [bound EXCEPT ![j] = manifest]
      /\ UNCHANGED <<changed, manifest, unitFile, loaded, enabled, disk, volumes, counters>>
  BY <1>1, <1>2, Zenon DEF InstallBegin, Enter, Selects, files, JobFacts
<1>4. "load" \in JobSteps /\ LoadOrder \in Seq(Item) /\ manifest \in [Item -> Version \cup {Absent}]
  BY <1>1, <1>3, Zenon DEF JobFacts, JobSteps, JobOK
<1>5. /\ BindingTypeOK' /\ SupOK' /\ NoBlankStart' /\ \A k \in Job \ {j} : JobOK(k)'
      /\ place'[j] = "load" /\ todo'[j] = LoadOrder /\ bound'[j] = manifest
      /\ \A k \in Job \ {j} : place'[k] = place[k]
  BY <1>1, <1>3, <1>4, JobMoves, Zenon DEF JobFacts, volumes, counters
<1>6. JobOK(j)'
  BY <1>1, <1>3, <1>5, WholeOrders, Zenon DEF JobFacts, JobOK, JobSteps, Installing
<1>7. UnitFacts'
  BY <1>1, <1>3, Zenon DEF UnitFacts, JobFacts
<1> QED
  BY <1>3, <1>5, <1>6, <1>7, JobStepOK, Zenon DEF UnitFacts, UnitNamesManifest, EnabledUnitFinished

\* The exclusive creation of the unit succeeds once.
LEMMA BindingCreateUnit ==
  ASSUME BindingInv, NEW j \in Job, CreateUnit(j)
  PROVE  BindingInv'
<1>1. JobFacts(j) /\ UnitFacts
  BY BindingFacts
<1>2. j # "sup"
  BY Processes
<1>3. /\ place[j] = "load" /\ unitFile = Absent
      /\ unitFile' = Partial
      /\ place' = [place EXCEPT ![j] = "fill"] /\ todo' = [todo EXCEPT ![j] = <<>>]
      /\ bound' = [bound EXCEPT ![j] = bound[j]]
      /\ UNCHANGED <<changed, manifest, loaded, enabled, disk, volumes, counters>>
  BY <1>1, <1>2, Zenon DEF CreateUnit, Finished, Goto, Enter, JobFacts
<1>31. \A k \in Job : place[k] # "fill"
  BY <1>3, NamesDistinct, Zenon DEF BindingInv, JobOK
<1>4. "fill" \in JobSteps /\ <<>> \in Seq(Item) /\ bound[j] \in [Item -> Version \cup {Absent}]
  BY <1>1, <1>3, Zenon DEF JobFacts, JobSteps, JobOK
<1>5. /\ BindingTypeOK' /\ SupOK' /\ NoBlankStart' /\ \A k \in Job \ {j} : JobOK(k)'
      /\ place'[j] = "fill" /\ todo'[j] = <<>> /\ bound'[j] = bound[j]
      /\ \A k \in Job \ {j} : place'[k] = place[k]
  BY <1>1, <1>3, <1>4, <1>31, JobMoves, ZenonT(60) DEF JobFacts, volumes, counters
<1>6. JobOK(j)'
  BY <1>1, <1>3, <1>5, WholeOrders, Zenon DEF JobFacts, JobOK, JobSteps, Installing
<1>7. UnitFacts'
  BY <1>1, <1>3, <1>31, Zenon DEF UnitFacts, JobFacts
<1> QED
  BY <1>3, <1>5, <1>6, <1>7, <1>31, JobStepOK, ZenonT(60) DEF UnitFacts, UnitNamesManifest, EnabledUnitFinished

\* The job that created the unit completes it.
LEMMA BindingFillUnit ==
  ASSUME BindingInv, NEW j \in Job, FillUnit(j)
  PROVE  BindingInv'
<1>1. JobFacts(j) /\ UnitFacts
  BY BindingFacts
<1>2. j # "sup"
  BY Processes
<1>3. /\ place[j] = "fill"
      /\ unitFile' = bound[j]
      /\ place' = [place EXCEPT ![j] = "reload"] /\ todo' = [todo EXCEPT ![j] = <<>>]
      /\ bound' = [bound EXCEPT ![j] = bound[j]]
      /\ UNCHANGED <<changed, manifest, loaded, enabled, disk, volumes, counters>>
  BY <1>1, <1>2, Zenon DEF FillUnit, Goto, Enter, JobFacts
<1>31. /\ unitFile = Partial /\ bound[j] \in Content /\ manifest = bound[j]
       /\ \A k \in Job \ {j} : place[k] # "fill"
  BY <1>1, <1>3, Zenon DEF JobFacts, JobOK, Installing, BindingInv, OneWriter
<1>4. "reload" \in JobSteps /\ <<>> \in Seq(Item) /\ bound[j] \in [Item -> Version \cup {Absent}]
  BY <1>1, <1>3, Zenon DEF JobFacts, JobSteps, JobOK
<1>5. /\ BindingTypeOK' /\ SupOK' /\ NoBlankStart' /\ \A k \in Job \ {j} : JobOK(k)'
      /\ place'[j] = "reload" /\ todo'[j] = <<>> /\ bound'[j] = bound[j]
      /\ \A k \in Job \ {j} : place'[k] = place[k]
  BY <1>1, <1>3, <1>4, <1>31, JobMoves, ZenonT(60) DEF JobFacts, volumes, counters
<1>6. JobOK(j)'
  BY <1>1, <1>3, <1>5, WholeOrders, Zenon DEF JobFacts, JobOK, JobSteps, Installing
<1>7. UnitFacts'
  BY <1>1, <1>3, <1>31, Zenon DEF UnitFacts, JobFacts
<1> QED
  BY <1>3, <1>5, <1>6, <1>7, <1>31, JobStepOK, Zenon DEF UnitFacts, UnitNamesManifest, EnabledUnitFinished

\* Only a loaded, finished unit is enabled.
LEMMA BindingEnable ==
  ASSUME BindingInv, NEW j \in Job, Enable(j)
  PROVE  BindingInv'
<1>1. JobFacts(j) /\ UnitFacts
  BY BindingFacts
<1>2. j # "sup"
  BY Processes
<1>3. /\ place[j] = "enable"
      /\ enabled' = TRUE
      /\ place' = [place EXCEPT ![j] = "idle"] /\ todo' = [todo EXCEPT ![j] = <<>>]
      /\ bound' = [bound EXCEPT ![j] = Nothing]
      /\ UNCHANGED <<changed, manifest, unitFile, loaded, disk, volumes, counters>>
  BY <1>1, <1>2, Zenon DEF Enable, End, Enter, JobFacts
<1>31. unitFile = bound[j] /\ bound[j] \in Content /\ loaded = unitFile
  BY <1>1, <1>3, Zenon DEF JobFacts, JobOK, Installing
<1>4. "idle" \in JobSteps /\ <<>> \in Seq(Item) /\ Nothing \in [Item -> Version \cup {Absent}]
  BY <1>1, <1>3, Zenon DEF JobFacts, JobSteps, JobOK
<1>5. /\ BindingTypeOK' /\ SupOK' /\ NoBlankStart' /\ \A k \in Job \ {j} : JobOK(k)'
      /\ place'[j] = "idle" /\ todo'[j] = <<>> /\ bound'[j] = Nothing
      /\ \A k \in Job \ {j} : place'[k] = place[k]
  BY <1>1, <1>3, <1>4, <1>31, JobMoves, Zenon DEF JobFacts, volumes, counters
<1>6. JobOK(j)'
  BY <1>1, <1>3, <1>5, WholeOrders, Zenon DEF JobFacts, JobOK, JobSteps, Installing
<1>7. UnitFacts'
  BY <1>1, <1>3, <1>31, Zenon DEF UnitFacts, JobFacts
<1> QED
  BY <1>3, <1>5, <1>6, <1>7, <1>31, JobStepOK, Zenon DEF UnitFacts, UnitNamesManifest, EnabledUnitFinished

\* A job that ends leaves the files.
LEMMA BindingJobEnds ==
  ASSUME BindingInv, NEW j \in Job, JobEnds(j)
  PROVE  BindingInv'
<1>1. JobFacts(j) /\ UnitFacts
  BY BindingFacts
<1>2. j # "sup"
  BY Processes
<1>3. TRUE
      /\ place' = [place EXCEPT ![j] = "idle"] /\ todo' = [todo EXCEPT ![j] = <<>>]
      /\ bound' = [bound EXCEPT ![j] = Nothing]
      /\ UNCHANGED <<changed, manifest, unitFile, loaded, enabled, disk, volumes, counters>>
  BY <1>1, <1>2, Zenon DEF JobEnds, End, Enter, files, JobFacts
<1>4. "idle" \in JobSteps /\ <<>> \in Seq(Item) /\ Nothing \in [Item -> Version \cup {Absent}]
  BY <1>1, <1>3, Zenon DEF JobFacts, JobSteps, JobOK
<1>5. /\ BindingTypeOK' /\ SupOK' /\ NoBlankStart' /\ \A k \in Job \ {j} : JobOK(k)'
      /\ place'[j] = "idle" /\ todo'[j] = <<>> /\ bound'[j] = Nothing
      /\ \A k \in Job \ {j} : place'[k] = place[k]
  BY <1>1, <1>3, <1>4, JobMoves, Zenon DEF JobFacts, volumes, counters
<1>6. JobOK(j)'
  BY <1>1, <1>3, <1>5, WholeOrders, Zenon DEF JobFacts, JobOK, JobSteps, Installing
<1>7. UnitFacts'
  BY <1>1, <1>3, Zenon DEF UnitFacts, JobFacts
<1> QED
  BY <1>3, <1>5, <1>6, <1>7, JobStepOK, Zenon DEF UnitFacts, UnitNamesManifest, EnabledUnitFinished

\* An install goes on with a unit that is the one it would write.
LEMMA BindingUnitReused ==
  ASSUME BindingInv, NEW j \in Job, ExistingUnit(j), unitFile = bound[j]
  PROVE  BindingInv'
<1>1. JobFacts(j) /\ UnitFacts
  BY BindingFacts, Zenon
<1>2. j # "sup"
  BY Processes, Zenon
<1>3. /\ place[j] = "load"
      /\ place' = [place EXCEPT ![j] = "reload"] /\ todo' = [todo EXCEPT ![j] = <<>>]
      /\ bound' = [bound EXCEPT ![j] = bound[j]]
      /\ UNCHANGED <<changed, manifest, unitFile, loaded, enabled, disk, volumes, counters>>
  BY <1>1, <1>2, Zenon DEF ExistingUnit, Finished, Goto, Enter, files, JobFacts
<1>4. "reload" \in JobSteps /\ <<>> \in Seq(Item) /\ bound[j] \in [Item -> Version \cup {Absent}]
  BY <1>1, <1>3, Zenon DEF JobFacts, JobSteps, JobOK
<1>5. /\ BindingTypeOK' /\ SupOK' /\ NoBlankStart' /\ \A k \in Job \ {j} : JobOK(k)'
      /\ place'[j] = "reload" /\ todo'[j] = <<>> /\ bound'[j] = bound[j]
      /\ \A k \in Job \ {j} : place'[k] = place[k]
  BY <1>1, <1>3, <1>4, JobMoves, Zenon DEF JobFacts, volumes, counters
<1>6. JobOK(j)'
  BY <1>1, <1>3, <1>5, WholeOrders, Zenon DEF JobFacts, JobOK, JobSteps, Installing
<1>7. UnitFacts'
  BY <1>1, <1>3, Zenon DEF UnitFacts, JobFacts
<1> QED
  BY <1>3, <1>5, <1>6, <1>7, JobStepOK, Zenon DEF UnitFacts, UnitNamesManifest, EnabledUnitFinished

\* An install refuses any other unit.
LEMMA BindingUnitRefused ==
  ASSUME BindingInv, NEW j \in Job, ExistingUnit(j), unitFile # bound[j]
  PROVE  BindingInv'
<1>1. JobFacts(j) /\ UnitFacts
  BY BindingFacts, Zenon
<1>2. j # "sup"
  BY Processes, Zenon
<1>3. /\ place[j] = "load"
      /\ place' = [place EXCEPT ![j] = "idle"] /\ todo' = [todo EXCEPT ![j] = <<>>]
      /\ bound' = [bound EXCEPT ![j] = Nothing]
      /\ UNCHANGED <<changed, manifest, unitFile, loaded, enabled, disk, volumes, counters>>
  BY <1>1, <1>2, Zenon DEF ExistingUnit, Finished, End, Enter, files, JobFacts
<1>4. "idle" \in JobSteps /\ <<>> \in Seq(Item) /\ Nothing \in [Item -> Version \cup {Absent}]
  BY <1>1, <1>3, Zenon DEF JobFacts, JobSteps, JobOK
<1>5. /\ BindingTypeOK' /\ SupOK' /\ NoBlankStart' /\ \A k \in Job \ {j} : JobOK(k)'
      /\ place'[j] = "idle" /\ todo'[j] = <<>> /\ bound'[j] = Nothing
      /\ \A k \in Job \ {j} : place'[k] = place[k]
  BY <1>1, <1>3, <1>4, JobMoves, Zenon DEF JobFacts, volumes, counters
<1>6. JobOK(j)'
  BY <1>1, <1>3, <1>5, WholeOrders, Zenon DEF JobFacts, JobOK, JobSteps, Installing
<1>7. UnitFacts'
  BY <1>1, <1>3, Zenon DEF UnitFacts, JobFacts
<1> QED
  BY <1>3, <1>5, <1>6, <1>7, JobStepOK, Zenon DEF UnitFacts, UnitNamesManifest, EnabledUnitFinished

\* systemd then has the finished unit.
LEMMA BindingReload ==
  ASSUME BindingInv, NEW j \in Job, Reload(j), Goto(j, "enable")
  PROVE  BindingInv'
<1>1. JobFacts(j) /\ UnitFacts
  BY BindingFacts, Zenon
<1>2. j # "sup"
  BY Processes, Zenon
<1>3. /\ place[j] = "reload"
      /\ loaded' = unitFile
      /\ place' = [place EXCEPT ![j] = "enable"] /\ todo' = [todo EXCEPT ![j] = <<>>]
      /\ bound' = [bound EXCEPT ![j] = bound[j]]
      /\ UNCHANGED <<changed, manifest, unitFile, enabled, disk, volumes, counters>>
  BY <1>1, <1>2, Zenon DEF Reload, Goto, Enter, JobFacts
<1>31. unitFile = bound[j] /\ bound[j] \in Content
  BY <1>1, <1>3, Zenon DEF JobFacts, JobOK, Installing
<1>4. "enable" \in JobSteps /\ <<>> \in Seq(Item) /\ bound[j] \in [Item -> Version \cup {Absent}]
  BY <1>1, <1>3, Zenon DEF JobFacts, JobSteps, JobOK
<1>5. /\ BindingTypeOK' /\ SupOK' /\ NoBlankStart' /\ \A k \in Job \ {j} : JobOK(k)'
      /\ place'[j] = "enable" /\ todo'[j] = <<>> /\ bound'[j] = bound[j]
      /\ \A k \in Job \ {j} : place'[k] = place[k]
  BY <1>1, <1>3, <1>4, <1>31, JobMoves, ZenonT(60) DEF JobFacts, volumes, counters
<1>6. JobOK(j)'
  BY <1>1, <1>3, <1>5, WholeOrders, Zenon DEF JobFacts, JobOK, JobSteps, Installing
<1>7. UnitFacts'
  BY <1>1, <1>3, <1>31, Zenon DEF UnitFacts, JobFacts
<1> QED
  BY <1>3, <1>5, <1>6, <1>7, <1>31, JobStepOK, Zenon DEF UnitFacts, UnitNamesManifest, EnabledUnitFinished

\* The same without --enable-now.
LEMMA BindingReloadEnd ==
  ASSUME BindingInv, NEW j \in Job, Reload(j), End(j, "idle")
  PROVE  BindingInv'
<1>1. JobFacts(j) /\ UnitFacts
  BY BindingFacts, Zenon
<1>2. j # "sup"
  BY Processes, Zenon
<1>3. /\ place[j] = "reload"
      /\ loaded' = unitFile
      /\ place' = [place EXCEPT ![j] = "idle"] /\ todo' = [todo EXCEPT ![j] = <<>>]
      /\ bound' = [bound EXCEPT ![j] = Nothing]
      /\ UNCHANGED <<changed, manifest, unitFile, enabled, disk, volumes, counters>>
  BY <1>1, <1>2, Zenon DEF Reload, End, Enter, JobFacts
<1>31. unitFile = bound[j] /\ bound[j] \in Content
  BY <1>1, <1>3, Zenon DEF JobFacts, JobOK, Installing
<1>4. "idle" \in JobSteps /\ <<>> \in Seq(Item) /\ Nothing \in [Item -> Version \cup {Absent}]
  BY <1>1, <1>3, Zenon DEF JobFacts, JobSteps, JobOK
<1>5. /\ BindingTypeOK' /\ SupOK' /\ NoBlankStart' /\ \A k \in Job \ {j} : JobOK(k)'
      /\ place'[j] = "idle" /\ todo'[j] = <<>> /\ bound'[j] = Nothing
      /\ \A k \in Job \ {j} : place'[k] = place[k]
  BY <1>1, <1>3, <1>4, <1>31, JobMoves, ZenonT(60) DEF JobFacts, volumes, counters
<1>6. JobOK(j)'
  BY <1>1, <1>3, <1>5, WholeOrders, Zenon DEF JobFacts, JobOK, JobSteps, Installing
<1>7. UnitFacts'
  BY <1>1, <1>3, <1>31, Zenon DEF UnitFacts, JobFacts
<1> QED
  BY <1>3, <1>5, <1>6, <1>7, <1>31, JobStepOK, Zenon DEF UnitFacts, UnitNamesManifest, EnabledUnitFinished

\* An install goes on to the next file.
LEMMA BindingJobCheckNext ==
  ASSUME BindingInv, NEW j \in Job, CheckNext(j)
  PROVE  BindingInv'
<1>1. JobFacts(j) /\ UnitFacts
  BY BindingFacts
<1>2. j # "sup"
  BY Processes
<1>3. /\ place[j] # "hash" /\ todo[j] # <<>>
      /\ place' = [place EXCEPT ![j] = place[j]] /\ todo' = [todo EXCEPT ![j] = Tail(todo[j])]
      /\ bound' = [bound EXCEPT ![j] = bound[j]]
      /\ UNCHANGED <<changed, manifest, unitFile, loaded, enabled, disk, volumes, counters>>
  BY <1>1, <1>2, Zenon DEF CheckNext, files, JobFacts
<1>31. Tail(todo[j]) \in Loading /\ Tail(todo[j]) \in Seq(Item)
  <2>1. todo[j] \in Loading
    BY <1>1, <1>3, Zenon DEF JobFacts, JobOK
  <2>2. Tail(todo[j]) \in Loading
    BY <1>3, <2>1, ReadNext, Zenon
  <2> QED
    BY <2>2, ReadNext, Zenon
<1>32. place[j] \notin {"write", "fill"} \/ \A k \in Job \ {j} : place[k] # place[j]
  BY Zenon DEF BindingInv, OneWriter
<1>4. place[j] \in JobSteps /\ Tail(todo[j]) \in Seq(Item) /\ bound[j] \in [Item -> Version \cup {Absent}]
  BY <1>1, <1>3, <1>31, Zenon DEF JobFacts, JobSteps, JobOK
<1>5. /\ BindingTypeOK' /\ SupOK' /\ NoBlankStart' /\ \A k \in Job \ {j} : JobOK(k)'
      /\ place'[j] = place[j] /\ todo'[j] = Tail(todo[j]) /\ bound'[j] = bound[j]
      /\ \A k \in Job \ {j} : place'[k] = place[k]
  BY <1>1, <1>3, <1>4, <1>32, JobMoves, Zenon DEF JobFacts, volumes, counters
<1>6. JobOK(j)'
  BY <1>1, <1>3, <1>5, WholeOrders, <1>31, Zenon DEF JobFacts, JobOK, JobSteps, Installing
<1>7. UnitFacts'
  BY <1>1, <1>3, <1>32, Zenon DEF UnitFacts, JobFacts
<1> QED
  BY <1>3, <1>5, <1>6, <1>7, <1>32, JobStepOK, Zenon DEF UnitFacts, UnitNamesManifest, EnabledUnitFinished

\* A step of the supervisor leaves the jobs' invariant.
LEMMA SupMoves ==
  ASSUME BindingInv, NEW step \in SupSteps, NEW q \in Seq(Item), NEW b \in [Item -> Version \cup {Absent}],
         place' = [place EXCEPT !["sup"] = step], todo' = [todo EXCEPT !["sup"] = q],
         bound' = [bound EXCEPT !["sup"] = b],
         UNCHANGED <<files, edits, losses>>, starts' \in 0 .. MaxStarts,
         changed' \subseteq Item, data' \subseteq Volume, lost' \subseteq Volume,
         NoBlankStart', SupOK'
  PROVE  BindingInv'
<1>1. /\ BindingTypeOK /\ (\A j \in Job : JobOK(j)) /\ OneWriter /\ FilesOK
      /\ "sup" \in Proc /\ \A k \in Job : k \in Proc /\ k # "sup"
  BY Processes, Zenon DEF BindingInv
<1>2. /\ place \in [Proc -> JobSteps \cup SupSteps] /\ todo \in [Proc -> Seq(Item)]
      /\ bound \in [Proc -> [Item -> Version \cup {Absent}]]
  BY <1>1, Zenon DEF BindingTypeOK
<1>3. \A j \in Job : place'[j] = place[j] /\ todo'[j] = todo[j] /\ bound'[j] = bound[j]
  BY <1>1, <1>2, Zenon
<1>4. BindingTypeOK'
  <2>1. /\ place' \in [Proc -> JobSteps \cup SupSteps] /\ todo' \in [Proc -> Seq(Item)]
        /\ bound' \in [Proc -> [Item -> Version \cup {Absent}]]
    BY <1>1, <1>2, Zenon
  <2> QED
    BY <1>1, <2>1, Zenon DEF BindingTypeOK, files
<1>5. \A j \in Job : JobOK(j)'
  BY <1>1, <1>3, Zenon DEF JobOK, files
<1>6. OneWriter'
  BY <1>1, <1>3 DEF OneWriter
<1>7. FilesOK'
  BY <1>1, Zenon DEF FilesOK, UnitNamesManifest, EnabledUnitFinished, files
<1> QED
  BY <1>4, <1>5, <1>6, <1>7, Zenon DEF BindingInv

\* What is known when the supervisor makes a step.
SupFacts ==
  /\ SupOK /\ NoBlankStart /\ "sup" \in Proc
  /\ todo["sup"] \in Seq(Item) /\ bound["sup"] \in [Item -> Version \cup {Absent}]
  /\ bound = [bound EXCEPT !["sup"] = bound["sup"]] /\ place = [place EXCEPT !["sup"] = place["sup"]]
  /\ \A step, q, b : /\ place' = [place EXCEPT !["sup"] = step] => place'["sup"] = step
                     /\ todo' = [todo EXCEPT !["sup"] = q] => todo'["sup"] = q
                     /\ bound' = [bound EXCEPT !["sup"] = b] => bound'["sup"] = b
  /\ disk \in Content /\ changed \subseteq Item /\ data \subseteq Volume /\ lost \subseteq Volume
  /\ starts \in 0 .. MaxStarts
  /\ Content \subseteq [Item -> Version \cup {Absent}] /\ Nothing \in [Item -> Version \cup {Absent}]
  /\ <<>> \in Seq(Item) /\ LoadOrder \in Seq(Item)
  /\ SupSteps = {"off", "init", "backing", "dependencies", "workers", "listener", "ready"}

\* It follows from the invariant.
LEMMA SupervisorFacts == BindingInv => SupFacts
<1> SUFFICES ASSUME BindingInv PROVE SupFacts
  BY Zenon
<1>1. BindingTypeOK /\ SupOK /\ NoBlankStart /\ "sup" \in Proc
  BY Processes, Zenon DEF BindingInv, FilesOK
<1>2. /\ todo["sup"] \in Seq(Item) /\ bound["sup"] \in [Item -> Version \cup {Absent}]
      /\ disk \in Content /\ changed \subseteq Item /\ data \subseteq Volume /\ lost \subseteq Volume
      /\ starts \in 0 .. MaxStarts
  BY <1>1, Zenon DEF BindingTypeOK
<1>3. bound = [bound EXCEPT !["sup"] = bound["sup"]] /\ place = [place EXCEPT !["sup"] = place["sup"]]
  BY <1>1, Zenon DEF BindingTypeOK
<1>4. \A step, q, b : /\ place' = [place EXCEPT !["sup"] = step] => place'["sup"] = step
                      /\ todo' = [todo EXCEPT !["sup"] = q] => todo'["sup"] = q
                      /\ bound' = [bound EXCEPT !["sup"] = b] => bound'["sup"] = b
  BY <1>1, Zenon DEF BindingTypeOK
<1>5. Content \subseteq [Item -> Version \cup {Absent}] /\ Nothing \in [Item -> Version \cup {Absent}]
  BY Zenon DEF Content, Nothing
<1>6. <<>> \in Seq(Item) /\ LoadOrder \in Seq(Item)
  BY WholeOrders, ReadNext, Zenon
<1>7. SupSteps = {"off", "init", "backing", "dependencies", "workers", "listener", "ready"}
  BY SupStepsAre, Zenon DEF Checking
<1> QED
  BY <1>1, <1>2, <1>3, <1>4, <1>5, <1>6, <1>7, Zenon DEF SupFacts

\* The step after the workers is the listener, and after it readiness.
LEMMA AfterApps == After("workers") = "listener" /\ After("listener") = "ready"
<1>1. 1 .. 5 = {1, 2, 3, 4, 5}
  OBVIOUS
<1>2. /\ Starting[1] = "init" /\ Starting[2] = "backing" /\ Starting[3] = "dependencies"
      /\ Starting[4] = "workers" /\ Starting[5] = "listener" /\ Starting[6] = "ready"
  BY DEF Starting
<1>3. (CHOOSE i \in 1 .. 5 : Starting[i] = "workers") = 4
  BY <1>1, <1>2, Zenon
<1>4. (CHOOSE i \in 1 .. 5 : Starting[i] = "listener") = 5
  BY <1>1, <1>2, Zenon
<1> QED
  BY <1>2, <1>3, <1>4 DEF After

\* The supervisor starts from the finished manifest that the loaded unit names.
LEMMA BindingLaunch ==
  ASSUME BindingInv, LaunchUnit
  PROVE  BindingInv'
<1>1. SupFacts
  BY SupervisorFacts, Zenon
<1>2. /\ starts < MaxStarts
      /\ manifest = loaded /\ loaded \in Content
      /\ place' = [place EXCEPT !["sup"] = "init"] /\ todo' = [todo EXCEPT !["sup"] = LoadOrder]
      /\ bound' = [bound EXCEPT !["sup"] = loaded]
      /\ changed' = {} /\ data' = data /\ lost' = lost /\ starts' = starts + 1
      /\ UNCHANGED <<files, edits, losses>>
  BY <1>1, Zenon DEF LaunchUnit, Selects, Enter, SupFacts, volumes, counters
<1>3. /\ place'["sup"] = "init" /\ todo'["sup"] = LoadOrder /\ bound'["sup"] = loaded
  BY <1>1, <1>2, Zenon DEF SupFacts
<1>4. "init" \in SupSteps /\ LoadOrder \in Seq(Item) /\ loaded \in [Item -> Version \cup {Absent}]
  BY <1>1, <1>2, Zenon DEF SupFacts
<1>5. SupOK'
  BY <1>1, <1>2, <1>3, WholeOrders, Zenon DEF SupFacts, SupOK, Checking, files
<1>6. NoBlankStart'
  BY <1>1, <1>2, <1>3, Zenon DEF SupFacts, NoBlankStart
<1>7. starts' \in 0 .. MaxStarts /\ changed' \subseteq Item /\ data' \subseteq Volume /\ lost' \subseteq Volume
  BY <1>1, <1>2, BoundsAreNat DEF SupFacts
<1> QED
  BY <1>2, <1>4, <1>5, <1>6, <1>7, SupMoves, Zenon

\* The check of the volumes begins.
LEMMA BindingLoaded ==
  ASSUME BindingInv, Loaded
  PROVE  BindingInv'
<1>1. SupFacts
  BY SupervisorFacts
<1>2. /\ place["sup"] = "init"
      /\ place' = [place EXCEPT !["sup"] = "backing"] /\ todo' = [todo EXCEPT !["sup"] = <<>>]
      /\ bound' = [bound EXCEPT !["sup"] = bound["sup"]]
      /\ changed' = {} /\ data' = data /\ lost' = {} /\ starts' = starts
      /\ UNCHANGED <<files, edits, losses>>
  BY <1>1, Zenon DEF Loaded, Finished, Goto, Enter, SupFacts, volumes, counters
<1>3. /\ place'["sup"] = "backing" /\ todo'["sup"] = <<>> /\ bound'["sup"] = bound["sup"]
  BY <1>1, <1>2, Zenon DEF SupFacts
<1>4. "backing" \in SupSteps /\ <<>> \in Seq(Item) /\ bound["sup"] \in [Item -> Version \cup {Absent}]
  BY <1>1, <1>2, Zenon DEF SupFacts
<1>5. SupOK'
  BY <1>1, <1>2, <1>3, WholeOrders, Zenon DEF SupFacts, SupOK, Checking, files
<1>6. NoBlankStart'
  BY <1>1, <1>2, <1>3, Zenon DEF SupFacts, NoBlankStart
<1>7. starts' \in 0 .. MaxStarts /\ changed' \subseteq Item /\ data' \subseteq Volume /\ lost' \subseteq Volume
  BY <1>1, <1>2, BoundsAreNat, Zenon DEF SupFacts
<1> QED
  BY <1>2, <1>4, <1>5, <1>6, <1>7, SupMoves, Zenon

\* Every volume held data when the dependencies are about to be started.
LEMMA BindingBackingData ==
  ASSUME BindingInv, BackingData
  PROVE  BindingInv'
<1>1. SupFacts
  BY SupervisorFacts
<1>2. /\ place["sup"] = "backing"
      /\ \A v \in Volume : v \in data
      /\ place' = [place EXCEPT !["sup"] = "dependencies"] /\ todo' = [todo EXCEPT !["sup"] = LoadOrder]
      /\ bound' = [bound EXCEPT !["sup"] = bound["sup"]]
      /\ changed' = {} /\ data' = data /\ lost' = lost /\ starts' = starts
      /\ UNCHANGED <<files, edits, losses>>
  BY <1>1, Zenon DEF BackingData, Initialised, Recheck, Enter, SupFacts, volumes, counters
<1>3. /\ place'["sup"] = "dependencies" /\ todo'["sup"] = LoadOrder /\ bound'["sup"] = bound["sup"]
  BY <1>1, <1>2, Zenon DEF SupFacts
<1>4. "dependencies" \in SupSteps /\ LoadOrder \in Seq(Item) /\ bound["sup"] \in [Item -> Version \cup {Absent}]
  BY <1>1, <1>2, Zenon DEF SupFacts
<1>5. SupOK'
  BY <1>1, <1>2, <1>3, WholeOrders, Zenon DEF SupFacts, SupOK, Checking, files
<1>6. NoBlankStart'
  BY <1>1, <1>2, <1>3, Zenon DEF SupFacts, NoBlankStart
<1>7. starts' \in 0 .. MaxStarts /\ changed' \subseteq Item /\ data' \subseteq Volume /\ lost' \subseteq Volume
  BY <1>1, <1>2, BoundsAreNat, Zenon DEF SupFacts
<1> QED
  BY <1>2, <1>4, <1>5, <1>6, <1>7, SupMoves, Zenon

\* The next step compares the files again.
LEMMA BindingStartDependencies ==
  ASSUME BindingInv, StartDependencies
  PROVE  BindingInv'
<1>1. SupFacts
  BY SupervisorFacts
<1>2. /\ place["sup"] = "dependencies"
      /\ place' = [place EXCEPT !["sup"] = "workers"] /\ todo' = [todo EXCEPT !["sup"] = LoadOrder]
      /\ bound' = [bound EXCEPT !["sup"] = bound["sup"]]
      /\ changed' = {} /\ data' = Volume /\ lost' = lost /\ starts' = starts
      /\ UNCHANGED <<files, edits, losses>>
  BY <1>1, Zenon DEF StartDependencies, Finished, Recheck, Enter, SupFacts, volumes, counters
<1>3. /\ place'["sup"] = "workers" /\ todo'["sup"] = LoadOrder /\ bound'["sup"] = bound["sup"]
  BY <1>1, <1>2, Zenon DEF SupFacts
<1>4. "workers" \in SupSteps /\ LoadOrder \in Seq(Item) /\ bound["sup"] \in [Item -> Version \cup {Absent}]
  BY <1>1, <1>2, Zenon DEF SupFacts
<1>5. SupOK'
  BY <1>1, <1>2, <1>3, WholeOrders, Zenon DEF SupFacts, SupOK, Checking, files
<1>6. NoBlankStart'
  BY <1>1, <1>2, <1>3, Zenon DEF SupFacts, NoBlankStart
<1>7. starts' \in 0 .. MaxStarts /\ changed' \subseteq Item /\ data' \subseteq Volume /\ lost' \subseteq Volume
  BY <1>1, <1>2, BoundsAreNat, Zenon DEF SupFacts
<1> QED
  BY <1>2, <1>4, <1>5, <1>6, <1>7, SupMoves, Zenon

\* So does the one after the workers.
LEMMA BindingStartWorkers ==
  ASSUME BindingInv, Finished("sup", "workers"), Recheck("listener"), UNCHANGED <<files, volumes, counters>>
  PROVE  BindingInv'
<1>1. SupFacts
  BY SupervisorFacts, Zenon
<1>2. /\ place["sup"] = "workers"
      /\ place' = [place EXCEPT !["sup"] = "listener"] /\ todo' = [todo EXCEPT !["sup"] = LoadOrder]
      /\ bound' = [bound EXCEPT !["sup"] = bound["sup"]]
      /\ changed' = {} /\ data' = data /\ lost' = lost /\ starts' = starts
      /\ UNCHANGED <<files, edits, losses>>
  BY <1>1, Zenon DEF Finished, Recheck, Enter, SupFacts, volumes, counters
<1>3. /\ place'["sup"] = "listener" /\ todo'["sup"] = LoadOrder /\ bound'["sup"] = bound["sup"]
  BY <1>1, <1>2, Zenon DEF SupFacts
<1>4. "listener" \in SupSteps /\ LoadOrder \in Seq(Item) /\ bound["sup"] \in [Item -> Version \cup {Absent}]
  BY <1>1, <1>2, Zenon DEF SupFacts
<1>5. SupOK'
  BY <1>1, <1>2, <1>3, WholeOrders, Zenon DEF SupFacts, SupOK, Checking, files
<1>6. NoBlankStart'
  BY <1>1, <1>2, <1>3, Zenon DEF SupFacts, NoBlankStart
<1>7. starts' \in 0 .. MaxStarts /\ changed' \subseteq Item /\ data' \subseteq Volume /\ lost' \subseteq Volume
  BY <1>1, <1>2, BoundsAreNat, Zenon DEF SupFacts
<1> QED
  BY <1>2, <1>4, <1>5, <1>6, <1>7, SupMoves, Zenon

\* So does the one after the listener.
LEMMA BindingStartListener ==
  ASSUME BindingInv, Finished("sup", "listener"), Recheck("ready"), UNCHANGED <<files, volumes, counters>>
  PROVE  BindingInv'
<1>1. SupFacts
  BY SupervisorFacts, Zenon
<1>2. /\ place["sup"] = "listener"
      /\ place' = [place EXCEPT !["sup"] = "ready"] /\ todo' = [todo EXCEPT !["sup"] = LoadOrder]
      /\ bound' = [bound EXCEPT !["sup"] = bound["sup"]]
      /\ changed' = {} /\ data' = data /\ lost' = lost /\ starts' = starts
      /\ UNCHANGED <<files, edits, losses>>
  BY <1>1, Zenon DEF Finished, Recheck, Enter, SupFacts, volumes, counters
<1>3. /\ place'["sup"] = "ready" /\ todo'["sup"] = LoadOrder /\ bound'["sup"] = bound["sup"]
  BY <1>1, <1>2, Zenon DEF SupFacts
<1>4. "ready" \in SupSteps /\ LoadOrder \in Seq(Item) /\ bound["sup"] \in [Item -> Version \cup {Absent}]
  BY <1>1, <1>2, Zenon DEF SupFacts
<1>5. SupOK'
  BY <1>1, <1>2, <1>3, WholeOrders, Zenon DEF SupFacts, SupOK, Checking, files
<1>6. NoBlankStart'
  BY <1>1, <1>2, <1>3, Zenon DEF SupFacts, NoBlankStart
<1>7. starts' \in 0 .. MaxStarts /\ changed' \subseteq Item /\ data' \subseteq Volume /\ lost' \subseteq Volume
  BY <1>1, <1>2, BoundsAreNat, Zenon DEF SupFacts
<1> QED
  BY <1>2, <1>4, <1>5, <1>6, <1>7, SupMoves, Zenon

\* So does every round of supervision.
LEMMA BindingSupervise ==
  ASSUME BindingInv, Supervise
  PROVE  BindingInv'
<1>1. SupFacts
  BY SupervisorFacts
<1>2. /\ place["sup"] = "ready"
      /\ place' = [place EXCEPT !["sup"] = "ready"] /\ todo' = [todo EXCEPT !["sup"] = LoadOrder]
      /\ bound' = [bound EXCEPT !["sup"] = bound["sup"]]
      /\ changed' = {} /\ data' = data /\ lost' = lost /\ starts' = starts
      /\ UNCHANGED <<files, edits, losses>>
  BY <1>1, Zenon DEF Supervise, Finished, Recheck, Enter, SupFacts, volumes, counters
<1>3. /\ place'["sup"] = "ready" /\ todo'["sup"] = LoadOrder /\ bound'["sup"] = bound["sup"]
  BY <1>1, <1>2, Zenon DEF SupFacts
<1>4. "ready" \in SupSteps /\ LoadOrder \in Seq(Item) /\ bound["sup"] \in [Item -> Version \cup {Absent}]
  BY <1>1, <1>2, Zenon DEF SupFacts
<1>5. SupOK'
  BY <1>1, <1>2, <1>3, WholeOrders, Zenon DEF SupFacts, SupOK, Checking, files
<1>6. NoBlankStart'
  BY <1>1, <1>2, <1>3, Zenon DEF SupFacts, NoBlankStart
<1>7. starts' \in 0 .. MaxStarts /\ changed' \subseteq Item /\ data' \subseteq Volume /\ lost' \subseteq Volume
  BY <1>1, <1>2, BoundsAreNat, Zenon DEF SupFacts
<1> QED
  BY <1>2, <1>4, <1>5, <1>6, <1>7, SupMoves, Zenon

\* A supervisor that ends knows nothing.
LEMMA BindingSupEnds ==
  ASSUME BindingInv, SupEnds
  PROVE  BindingInv'
<1>1. SupFacts
  BY SupervisorFacts
<1>2. TRUE
      /\ place' = [place EXCEPT !["sup"] = "off"] /\ todo' = [todo EXCEPT !["sup"] = <<>>]
      /\ bound' = [bound EXCEPT !["sup"] = Nothing]
      /\ changed' = {} /\ data' = data /\ lost' = lost /\ starts' = starts
      /\ UNCHANGED <<files, edits, losses>>
  BY <1>1, Zenon DEF SupEnds, End, Enter, SupFacts, volumes, counters
<1>3. /\ place'["sup"] = "off" /\ todo'["sup"] = <<>> /\ bound'["sup"] = Nothing
  BY <1>1, <1>2, Zenon DEF SupFacts
<1>4. "off" \in SupSteps /\ <<>> \in Seq(Item) /\ Nothing \in [Item -> Version \cup {Absent}]
  BY <1>1, <1>2, Zenon DEF SupFacts
<1>5. SupOK'
  BY <1>1, <1>2, <1>3, WholeOrders, Zenon DEF SupFacts, SupOK, Checking, files
<1>6. NoBlankStart'
  BY <1>1, <1>2, <1>3, Zenon DEF SupFacts, NoBlankStart
<1>7. starts' \in 0 .. MaxStarts /\ changed' \subseteq Item /\ data' \subseteq Volume /\ lost' \subseteq Volume
  BY <1>1, <1>2, BoundsAreNat, Zenon DEF SupFacts
<1> QED
  BY <1>2, <1>4, <1>5, <1>6, <1>7, SupMoves, Zenon

\* A file compared is as recorded.
LEMMA BindingSupCheckNext ==
  ASSUME BindingInv, CheckNext("sup")
  PROVE  BindingInv'
<1>1. SupFacts
  BY SupervisorFacts, Zenon
<1>2. /\ place["sup"] \notin {"idle", "hash"} /\ todo["sup"] # <<>>
      /\ disk[Head(todo["sup"])] = bound["sup"][Head(todo["sup"])]
      /\ place' = [place EXCEPT !["sup"] = place["sup"]] /\ todo' = [todo EXCEPT !["sup"] = Tail(todo["sup"])]
      /\ bound' = [bound EXCEPT !["sup"] = bound["sup"]]
      /\ changed' = changed /\ data' = data /\ lost' = lost /\ starts' = starts
      /\ UNCHANGED <<files, edits, losses>>
  BY <1>1, Zenon DEF CheckNext, SupFacts, volumes, counters
<1>21. /\ Tail(todo["sup"]) \in Loading /\ Tail(todo["sup"]) \in Seq(Item)
       /\ Elements(todo["sup"]) = {Head(todo["sup"])} \cup Elements(Tail(todo["sup"]))
       /\ place["sup"] \in SupSteps
  <2>1. todo["sup"] \in Loading /\ place["sup"] \in SupSteps
    BY <1>1, Zenon DEF SupFacts, SupOK, Checking
  <2>2. /\ Tail(todo["sup"]) \in Loading
        /\ Elements(todo["sup"]) = {Head(todo["sup"])} \cup Elements(Tail(todo["sup"]))
    BY <1>2, <2>1, ReadNext, Zenon
  <2> QED
    BY <2>1, <2>2, ReadNext, Zenon
<1>3. /\ place'["sup"] = place["sup"] /\ todo'["sup"] = Tail(todo["sup"]) /\ bound'["sup"] = bound["sup"]
  BY <1>1, <1>2, Zenon DEF SupFacts
<1>4. place["sup"] \in SupSteps /\ Tail(todo["sup"]) \in Seq(Item) /\ bound["sup"] \in [Item -> Version \cup {Absent}]
  BY <1>1, <1>2, <1>21, Zenon DEF SupFacts
<1>5. SupOK'
  BY <1>1, <1>2, <1>3, WholeOrders, <1>21, SMTT(60) DEF SupFacts, SupOK, Checking, files
<1>6. NoBlankStart'
  BY <1>1, <1>2, <1>3, Zenon DEF SupFacts, NoBlankStart
<1>7. starts' \in 0 .. MaxStarts /\ changed' \subseteq Item /\ data' \subseteq Volume /\ lost' \subseteq Volume
  BY <1>1, <1>2, BoundsAreNat, Zenon DEF SupFacts
<1> QED
  BY <1>2, <1>4, <1>5, <1>6, <1>7, SupMoves, Zenon

\* A file replaced is known to be changed in the supervisor's present step.
LEMMA BindingEdit ==
  ASSUME BindingInv, NEW i \in Item, Edit(i)
  PROVE  BindingInv'
<1>1. BindingTypeOK /\ SupOK /\ FilesOK /\ OneWriter /\ \A j \in Job : JobOK(j)
  BY Zenon DEF BindingInv
<1>2. /\ edits < MaxEdits /\ edits' = edits + 1 /\ changed' = changed \cup {i}
      /\ \E v \in Version : disk' = [disk EXCEPT ![i] = v]
      /\ UNCHANGED <<manifest, unitFile, loaded, enabled, place, todo, bound, data, lost, losses, starts>>
  BY Zenon DEF Edit, volumes
<1>3. disk' \in Content /\ \A k \in Item : k # i => disk'[k] = disk[k]
  BY <1>1, <1>2, Zenon DEF BindingTypeOK, Content
<1>4. BindingTypeOK'
  <2>1. edits' \in 0 .. MaxEdits
    BY <1>1, <1>2, BoundsAreNat DEF BindingTypeOK
  <2> QED
    BY <1>1, <1>2, <1>3, <2>1, Zenon DEF BindingTypeOK
<1>5. SupOK'
  BY <1>1, <1>2, <1>3, Zenon DEF SupOK
<1>6. FilesOK' /\ OneWriter' /\ \A j \in Job : JobOK(j)'
  BY <1>1, <1>2, Zenon DEF FilesOK, UnitNamesManifest, EnabledUnitFinished, NoBlankStart, OneWriter, JobOK
<1> QED
  BY <1>4, <1>5, <1>6, Zenon DEF BindingInv

\* A volume emptied is known to be lost.
LEMMA BindingLose ==
  ASSUME BindingInv, NEW v \in Volume, Lose(v)
  PROVE  BindingInv'
<1>1. BindingTypeOK /\ SupOK /\ FilesOK /\ OneWriter /\ \A j \in Job : JobOK(j)
  BY Zenon DEF BindingInv
<1>2. /\ losses < MaxLosses /\ losses' = losses + 1 /\ data' = data \ {v} /\ lost' = lost \cup {v}
      /\ UNCHANGED <<disk, manifest, unitFile, loaded, enabled, place, todo, bound, changed, edits, starts>>
  BY Zenon DEF Lose, files, procs
<1>3. BindingTypeOK'
  <2>1. losses' \in 0 .. MaxLosses
    BY <1>1, <1>2, BoundsAreNat DEF BindingTypeOK
  <2> QED
    BY <1>1, <1>2, <2>1, Zenon DEF BindingTypeOK
<1>4. FilesOK'
  BY <1>1, <1>2, Zenon DEF FilesOK, UnitNamesManifest, EnabledUnitFinished, NoBlankStart
<1>5. SupOK' /\ OneWriter' /\ \A j \in Job : JobOK(j)'
  BY <1>1, <1>2, Zenon DEF SupOK, OneWriter, JobOK
<1> QED
  BY <1>3, <1>4, <1>5, Zenon DEF BindingInv

\* Processes that know nothing are in order, whatever the files hold.
AllIdle ==
  /\ place = [p \in Proc |-> IF p = "sup" THEN "off" ELSE "idle"]
  /\ todo = [p \in Proc |-> <<>>] /\ bound = [p \in Proc |-> Nothing]

ProcessesOK ==
  /\ place \in [Proc -> JobSteps \cup SupSteps] /\ todo \in [Proc -> Seq(Item)]
  /\ bound \in [Proc -> [Item -> Version \cup {Absent}]]
  /\ SupOK /\ OneWriter /\ NoBlankStart /\ \A j \in Job : JobOK(j)

\* This is how they begin.
LEMMA BindingIdle == AllIdle => ProcessesOK
<1> SUFFICES ASSUME AllIdle PROVE ProcessesOK
  OBVIOUS
<1>1. /\ place["sup"] = "off" /\ todo["sup"] = <<>>
      /\ \A j \in Job : place[j] = "idle" /\ todo[j] = <<>>
  BY Processes, Zenon DEF AllIdle
<1>2. place \in [Proc -> JobSteps \cup SupSteps]
  BY SupStepsAre, Zenon DEF JobSteps, AllIdle
<1>3. todo \in [Proc -> Seq(Item)] /\ bound \in [Proc -> [Item -> Version \cup {Absent}]]
  BY DEF Nothing, AllIdle
<1>4. SupOK /\ NoBlankStart
  BY <1>1, WholeOrders, Zenon DEF SupOK, Checking, NoBlankStart
<1>5. OneWriter
  BY <1>1, Zenon DEF OneWriter
<1>6. \A j \in Job : JobOK(j)
  BY <1>1, WholeOrders, Zenon DEF JobOK, JobSteps, Installing
<1> QED
  BY <1>2, <1>3, <1>4, <1>5, <1>6, Zenon DEF ProcessesOK

\* And how they are after a boot.
LEMMA IdleAgain == AllIdle' => ProcessesOK'
BY BindingIdle, PTL

\* A boot starts the unit as it is on disk.
LEMMA BindingReboot ==
  ASSUME BindingInv, HostReboots
  PROVE  BindingInv'
<1>1. BindingTypeOK /\ FilesOK
  BY Zenon DEF BindingInv
<1>2. /\ AllIdle' /\ changed' = {} /\ loaded' = unitFile
      /\ UNCHANGED <<disk, manifest, unitFile, enabled, data, lost, edits, losses, starts>>
  BY Zenon DEF HostReboots, AllIdle, volumes, counters
<1>3. ProcessesOK'
  BY <1>2, IdleAgain, Zenon
<1>4. BindingTypeOK'
  BY <1>1, <1>2, <1>3, Zenon DEF ProcessesOK, BindingTypeOK
<1>5. FilesOK'
  BY <1>1, <1>2, <1>3, Zenon DEF ProcessesOK, FilesOK, UnitNamesManifest, EnabledUnitFinished
<1> QED
  BY <1>3, <1>4, <1>5, Zenon DEF ProcessesOK, BindingInv

\* The inductive invariant of the service's binding.
THEOREM BindingInvariant == BindingSpec => []BindingInv
<1>1. BindingInit => BindingInv
  <2> SUFFICES ASSUME BindingInit PROVE BindingInv
    OBVIOUS
  <2>1. ProcessesOK
    BY BindingIdle, Zenon DEF BindingInit, AllIdle
  <2>2. BindingTypeOK
    <3>1. disk \in Content
      BY Zenon DEF BindingInit, Content
    <3>2. edits \in 0 .. MaxEdits /\ losses \in 0 .. MaxLosses /\ starts \in 0 .. MaxStarts
      BY BoundsAreNat DEF BindingInit
    <3> QED
      BY <2>1, <3>1, <3>2, Zenon DEF BindingInit, ProcessesOK, BindingTypeOK
  <2>3. FilesOK
    BY <2>1, NamesDistinct, Zenon DEF BindingInit, ProcessesOK, FilesOK, UnitNamesManifest, EnabledUnitFinished
  <2> QED
    BY <2>1, <2>2, <2>3, Zenon DEF ProcessesOK, BindingInv
<1>2. BindingInv /\ [BindingNext]_bindingVars => BindingInv'
  <2> SUFFICES ASSUME BindingInv, [BindingNext]_bindingVars PROVE BindingInv'
    BY Zenon
  <2>1. ASSUME NEW j \in Job, Prepare(j) PROVE BindingInv'
    BY <2>1, BindingPrepareBegin, BindingHashNext, BindingMakeDirectory, BindingExistingManifest,
       BindingWriteManifest, Zenon DEF Prepare
  <2>2. ASSUME NEW j \in Job, Install(j) PROVE BindingInv'
    <3>1. CASE ExistingUnit(j)
      BY <3>1, BindingUnitReused, BindingUnitRefused, Zenon
    <3>2. CASE Reload(j)
      <4>1. Goto(j, "enable") \/ End(j, "idle")
        BY <3>2, Zenon DEF Reload
      <4> QED
        BY <3>2, <4>1, BindingReload, BindingReloadEnd, Zenon
    <3> QED
      BY <2>2, <3>1, <3>2, BindingInstallBegin, BindingCreateUnit, BindingFillUnit, BindingEnable, Zenon
         DEF Install
  <2>3. ASSUME NEW j \in Job, JobEnds(j) PROVE BindingInv'
    BY <2>3, BindingJobEnds, Zenon
  <2>4. ASSUME NEW p \in Proc, CheckNext(p) PROVE BindingInv'
    <3>1. p \in Job \/ p = "sup"
      BY Zenon DEF Proc
    <3> QED
      BY <2>4, <3>1, BindingJobCheckNext, BindingSupCheckNext, Zenon
  <2>5. CASE Supervisor
    <3>1. CASE StartApps
      <4>1. /\ \/ Finished("sup", "workers") /\ Recheck("listener")
               \/ Finished("sup", "listener") /\ Recheck("ready")
            /\ UNCHANGED <<files, volumes, counters>>
        BY <3>1, AfterApps, Zenon DEF StartApps
      <4> QED
        BY <4>1, BindingStartWorkers, BindingStartListener, Zenon
    <3> QED
      BY <2>5, <3>1, BindingLaunch, BindingLoaded, BindingBackingData, BindingStartDependencies,
         BindingSupervise, BindingSupEnds, Zenon DEF Supervisor
  <2>6. ASSUME NEW i \in Item, Edit(i) PROVE BindingInv'
    BY <2>6, BindingEdit, Zenon
  <2>7. ASSUME NEW v \in Volume, Lose(v) PROVE BindingInv'
    BY <2>7, BindingLose
  <2>8. CASE HostReboots
    BY <2>8, BindingReboot, ZenonT(60)
  <2>9. CASE UNCHANGED bindingVars
    <3>1. UNCHANGED <<disk, manifest, unitFile, loaded, enabled, place, todo, bound, changed, data, lost,
                      edits, losses, starts>>
      BY <2>9, Zenon DEF bindingVars, files, procs, volumes, counters
    <3> QED
      BY <3>1 DEF BindingInv, BindingTypeOK, JobOK, SupOK, OneWriter, FilesOK, UnitNamesManifest,
                  EnabledUnitFinished, NoBlankStart
  <2> QED
    BY <2>1, <2>2, <2>3, <2>4, <2>5, <2>6, <2>7, <2>8, <2>9, Zenon DEF BindingNext
<1> QED
  BY <1>1, <1>2, PTL DEF BindingSpec

\* A complete unit names a complete manifest by its digest, and what an enabled service
\* starts is that finished unit (prepare, install_unit).
THEOREM EnabledUnitAlwaysSound == BindingSpec => []EnabledUnitSound
<1>1. BindingInv => EnabledUnitSound
  BY Zenon DEF BindingInv, FilesOK, EnabledUnitSound
<1> QED
  BY <1>1, BindingInvariant, PTL

\* Containers are started over the files the manifest names, except those replaced since
\* this start's check began, and over volumes with data (start_ids, backing_data).
THEOREM AlwaysStartsChecked == BindingSpec => []StartsChecked
<1>1. BindingInv => StartsChecked
  <2> SUFFICES ASSUME BindingInv PROVE StartsChecked
    BY Zenon
  <2>1. SupOK /\ NoBlankStart
    BY Zenon DEF BindingInv, FilesOK
  <2>2. ASSUME NEW step \in {"dependencies", "workers", "listener"}, Finished("sup", step),
               NEW i \in Item \ changed
        PROVE  disk[i] = manifest[i]
    BY <2>1, <2>2, WholeOrders DEF SupOK, Finished, Checking
  <2> QED
    BY <2>1, <2>2, Zenon DEF StartsChecked, StartsBoundFiles
<1> QED
  BY <1>1, BindingInvariant, PTL

-----------------------------------------------------------------------------
(* The host.                                                               *)

\* The steps of a startup from the closing of the apps to the start of the listener,
\* and those after the check of the admission state.
BeforeListener == {"dependencies", "checks", "admission", "workers", "consumers", "listener"}
Cleared == {"workers", "consumers", "listener"}

\* What check(require_empty=True) establishes and Open needs.
Drained == stored /\ inflight = {} /\ \A s \in A!Slot : permits[s] = None

\* The lock keeps the supervisor and the jobs apart.  Without the listener no pc
\* is busy, so what the check found stays so until the listener starts, and what a
\* reconciliation found until it has run.
HostInv ==
  /\ running \in [Container -> BOOLEAN]
  /\ lock \in {"free", "supervisor", "job"}
  /\ sup # "off" => lock = "supervisor" /\ unit
  /\ job # "off" => lock = "job"
  /\ ~ unit => ~ running["web"] /\ inflight = {}
  /\ ~ running["web"] => \A t \in Thread : pc[t] = "idle"
  /\ sup \in BeforeListener => ~ running["web"]
  /\ sup \in Cleared => Drained
  /\ job = "reconcile" => ~ running["web"]
  /\ sup \in {"off", "inspect"} => cleanup = None
  /\ CleanupAuthorised

\* The order of Runtime.start.
LEMMA StepOrder ==
  /\ NextStep("inspect") = "close" /\ NextStep("close") = "dependencies"
  /\ NextStep("dependencies") = "checks" /\ NextStep("checks") = "admission"
  /\ NextStep("admission") = "workers" /\ NextStep("workers") = "consumers"
  /\ NextStep("consumers") = "listener" /\ NextStep("listener") = "verify"
  /\ NextStep("verify") = "http" /\ NextStep("http") = "ready"
<1>1. ASSUME NEW k \in 1 .. 10
      PROVE  NextStep(Steps[k]) = Steps[k + 1]
  <2>1. \A i \in 1 .. 10 : Steps[i] = Steps[k] => i = k
    BY DEF Steps
  <2>2. (CHOOSE i \in 1 .. 10 : Steps[i] = Steps[k]) = k
    BY <2>1, Zenon
  <2>3. NextStep(Steps[k]) = Steps[1 + k]
    BY <2>2, Zenon DEF NextStep
  <2> QED BY <2>3
<1> QED BY <1>1 DEF Steps

\* A supervisor that is off takes no step of start.
LEMMA OffInactive == "off" \notin Active /\ "inspect" \in Active
<1>1. \A i \in 1 .. 11 : Steps[i] # "off"
  BY DEF Steps
<1>2. 1 \in 1 .. 11 /\ Steps[1] = "inspect"
  BY DEF Steps
<1> QED BY <1>1, <1>2, Zenon DEF Active

\* The containers change: the web process dies, starts on a cleared admission state,
\* or stays as it was; the admission state sees no more of it than that.
LEMMA BecomesMaps ==
  ASSUME HostInv, NEW r \in [Container -> BOOLEAN], Becomes(r),
         r["web"] /\ ~ running["web"] => Drained
  PROVE  /\ [A!Next]_(A!vars)
         /\ running' = r /\ UNCHANGED <<stored, permits, inflight>>
         /\ ~ r["web"] => \A t \in Thread : pc'[t] = "idle"
<1>1. "web" \in Container
  BY Zenon DEF Container, App
<1>2. /\ running \in [Container -> BOOLEAN]
      /\ ~ running["web"] => \A t \in Thread : pc[t] = "idle"
  BY Zenon DEF HostInv
<1>3. running' = r /\ UNCHANGED <<stored, permits, count, ttl, inflight>>
  BY Zenon DEF Becomes
<1>4. CASE running["web"] /\ ~ r["web"]
  <2>1. pc' = [t \in Thread |-> "idle"] /\ permit' = [t \in Thread |-> None]
    BY <1>4, Zenon DEF Becomes
  <2>2. running["web"]' = FALSE
    BY <1>1, <1>3, <1>4, Zenon
  <2>3. A!Close
    BY <1>3, <1>4, <2>1, <2>2, Zenon DEF A!Close
  <2> QED BY <1>3, <2>1, <2>3, Zenon DEF A!Next
<1>5. CASE ~ (running["web"] /\ ~ r["web"])
  <2>1. pc' = pc /\ permit' = permit
    BY <1>5, Zenon DEF Becomes
  <2>2. CASE r["web"] /\ ~ running["web"]
    <3>1. running["web"]' = TRUE
      BY <1>1, <1>3, <2>2, Zenon
    <3>2. A!Open
      BY <1>3, <2>1, <2>2, <3>1, Zenon DEF A!Open, Drained
    <3> QED BY <1>3, <2>2, <3>2, Zenon DEF A!Next
  <2>3. CASE r["web"] = running["web"]
    <3>1. UNCHANGED A!vars
      BY <1>3, <2>1, <2>3, Zenon DEF A!vars
    <3> QED BY <1>2, <1>3, <2>1, <2>3, <3>1, Zenon
  <2>4. r["web"] \in BOOLEAN /\ running["web"] \in BOOLEAN
    BY <1>1, <1>2, Zenon
  <2> QED BY <1>5, <2>2, <2>3, <2>4, Zenon
<1> QED BY <1>4, <1>5, Zenon

\* What a failing, timed out or killed step may have done: it started the listener
\* only if it was the step that does.
LEMMA OutcomesType ==
  ASSUME HostInv, NEW r \in StepOutcomes
  PROVE  /\ r \in [Container -> BOOLEAN]
         /\ r["web"] /\ ~ running["web"] => sup = "listener"
<1>1. "web" \in Container /\ running \in [Container -> BOOLEAN]
  BY Zenon DEF HostInv, Container, App
<1>2. CASE r \in StopOutcomes(App)
  BY <1>1, <1>2, Zenon DEF StopOutcomes
<1>3. CASE r \in StartOutcomes({"redis"}) \/ r \in StartOutcomes({"workers"})
  BY <1>1, <1>3, Zenon DEF StartOutcomes
<1>4. CASE sup = "listener" /\ r \in StartOutcomes({"web"})
  BY <1>4, Zenon DEF StartOutcomes
<1>5. CASE r = running
  BY <1>1, <1>5, Zenon
<1> QED BY <1>2, <1>3, <1>4, <1>5, Zenon DEF StepOutcomes

\* Without the listener no request arrives and no thread has anything to send: only
\* the scripts in flight still run.
LEMMA ServeQuiet ==
  ASSUME Serve, ~ running["web"], \A t \in Thread : pc[t] = "idle"
  PROVE  /\ \A t \in Thread : pc'[t] = "idle"
         /\ inflight' \subseteq inflight
         /\ inflight = {} => UNCHANGED <<stored, permits>>
<1>1. ~ A!ThreadStep
  BY Zenon DEF A!ThreadStep, A!Arrive, A!GiveUp, A!Finish, A!Stream
<1>2. ASSUME NEW c, NEW state, A!Reply(c, state)
      PROVE  inflight' \subseteq inflight /\ \A t \in Thread : pc'[t] = "idle"
  <2>1. /\ inflight' \in {inflight, inflight \ {c}}
        /\ pc' = [t \in Thread |-> IF t \in A!Waiting(c) THEN state ELSE pc[t]]
    BY <1>2, Zenon DEF A!Reply
  <2>2. A!Waiting(c) = {}
    BY Zenon DEF A!Waiting
  <2> QED BY <2>1, <2>2, Zenon
<1>3. CASE A!Tick
  <2>1. UNCHANGED <<stored, permits, pc, inflight>>
    BY <1>3, Zenon DEF A!Tick
  <2> QED BY <2>1, Zenon
<1>4. CASE A!ScriptRuns \/ \E c \in inflight : A!Unavailable(c)
  <2>1. \E c \in inflight : \E state : A!Reply(c, state)
    BY <1>4, Zenon DEF A!ScriptRuns, A!AcquireLimited, A!AcquireRefused, A!AcquireGranted,
                A!Release, A!Unavailable
  <2> QED BY <1>2, <2>1, Zenon
<1> QED BY <1>1, <1>3, <1>4, Zenon DEF Serve

\* Requests and scripts: the steps of Admission's threads and of Redis.
LEMMA ServeKeeps ==
  ASSUME HostInv, Serve
  PROVE  HostInv' /\ A!Next
<1>1. A!Next
  BY Zenon DEF Serve, A!Next, A!ScriptRuns
<1>2. UNCHANGED <<running, current, anchor, unit, lock, sup, term, cleanup, job, chosen>>
  BY Zenon DEF Serve, dockerVars, supVars, jobVars
<1>3. ~ running["web"] => /\ \A t \in Thread : pc'[t] = "idle"
                          /\ inflight' \subseteq inflight
                          /\ inflight = {} => UNCHANGED <<stored, permits>>
  BY ServeQuiet, Zenon DEF HostInv
<1>4. Drained /\ ~ running["web"] => Drained'
  BY <1>3, Zenon DEF Drained
<1> QED BY <1>1, <1>2, <1>3, <1>4, Zenon DEF HostInv, BeforeListener, Cleared, CleanupAuthorised

\* A container that exits or is replaced, and a reboot: nothing starts.
LEMMA WorldKeeps ==
  ASSUME HostInv, World
  PROVE  HostInv' /\ [A!Next]_(A!vars)
<1>1. "web" \in Container /\ running \in [Container -> BOOLEAN]
  BY Zenon DEF HostInv, Container, App
<1>2. ASSUME NEW c \in Container, ContainerExits(c) \/ Replaced(c)
      PROVE  HostInv' /\ [A!Next]_(A!vars)
  <2>1. PICK r \in [Container -> BOOLEAN] : r = [running EXCEPT ![c] = FALSE]
    BY <1>1, Zenon
  <2>2. r["web"] => running["web"]
    BY <1>1, <2>1, Zenon
  <2>3. Becomes(r) /\ UNCHANGED <<anchor, unit, lock, sup, term, cleanup, job, chosen>>
    BY <1>2, <2>1, Zenon DEF ContainerExits, Replaced, supVars, jobVars
  <2>4. /\ [A!Next]_(A!vars)
        /\ running' = r /\ UNCHANGED <<stored, permits, inflight>>
        /\ ~ r["web"] => \A t \in Thread : pc'[t] = "idle"
    BY <2>2, <2>3, BecomesMaps, Zenon
  <2> QED BY <2>2, <2>3, <2>4, Zenon DEF HostInv, Drained, CleanupAuthorised
<1>3. CASE Reboot
  <2>1. PICK r \in [Container -> BOOLEAN] : r = [c \in Container |-> FALSE]
    BY Zenon
  <2>2. ~ r["web"]
    BY <1>1, <2>1, Zenon
  <2>3. Becomes(r) /\ UNCHANGED <<anchor, unit>>
    BY <1>3, <2>1, Zenon DEF Reboot
  <2>4. /\ [A!Next]_(A!vars)
        /\ running' = r /\ UNCHANGED <<stored, permits, inflight>>
        /\ \A t \in Thread : pc'[t] = "idle"
    BY <2>2, <2>3, BecomesMaps, Zenon
  <2>5. sup' = "off" /\ cleanup' = None /\ job' = "off" /\ lock' = "free"
    BY <1>3, Zenon DEF Reboot
  <2> QED BY <2>2, <2>3, <2>4, <2>5, Zenon DEF HostInv, BeforeListener, Cleared, CleanupAuthorised
<1> QED BY <1>2, <1>3, Zenon DEF World

\* A step of start() that is done: the listener starts in its own step only, and what
\* the next step relies on has been established.
LEMMA ProceedKeeps ==
  ASSUME HostInv, NEW step, NEW r \in [Container -> BOOLEAN], Proceed(step, r),
         step # "off", NEW next, next = NextStep(step), next \notin {"off", "inspect"},
         r["web"] /\ ~ running["web"] => step = "listener",
         next \in BeforeListener => ~ r["web"],
         next \in Cleared => Drained,
         cleanup' # None => cleanup' = anchor
  PROVE  HostInv' /\ [A!Next]_(A!vars)
<1>1. /\ sup = step /\ Becomes(r) /\ sup' = next
      /\ UNCHANGED <<current, anchor, unit, lock, term, job, chosen>>
  BY Zenon DEF Proceed, jobVars
<1>2. step = "listener" => Drained
  BY <1>1, Zenon DEF HostInv, Cleared
<1>3. /\ [A!Next]_(A!vars)
      /\ running' = r /\ UNCHANGED <<stored, permits, inflight>>
      /\ ~ r["web"] => \A t \in Thread : pc'[t] = "idle"
  BY <1>1, <1>2, BecomesMaps, Zenon
<1>4. sup # "off"
  BY <1>1, Zenon
<1>5. lock = "supervisor" /\ unit /\ job = "off"
  BY <1>4, Zenon DEF HostInv
<1> QED BY <1>1, <1>3, <1>5, Zenon DEF HostInv, Drained, CleanupAuthorised

\* Every step of start() that succeeds.
LEMMA AdvanceKeeps ==
  ASSUME HostInv, Advance
  PROVE  HostInv' /\ [A!Next]_(A!vars)
<1> USE StepOrder DEF BeforeListener, Cleared
<1>0. /\ "web" \in Container /\ running \in [Container -> BOOLEAN]
      /\ cleanup # None => cleanup = anchor
      /\ sup \in BeforeListener => ~ running["web"]
      /\ sup \in Cleared => Drained
  BY Zenon DEF HostInv, Container, App, CleanupAuthorised
<1>1. CASE Inspect
  <2>1. Proceed("inspect", running) /\ cleanup' = anchor
    BY <1>1, Zenon DEF Inspect
  <2> QED BY <1>0, <2>1, ProceedKeeps, Zenon
<1>2. CASE CloseAdmission
  <2>1. PICK r \in [Container -> BOOLEAN] :
          r = [c \in Container |-> running[c] /\ c \notin App]
    BY Zenon
  <2>2. ~ r["web"]
    BY <1>0, <2>1, Zenon DEF App
  <2>3. Proceed("close", r) /\ cleanup' = cleanup
    BY <1>2, <2>1, Zenon DEF CloseAdmission
  <2> QED BY <1>0, <2>2, <2>3, ProceedKeeps, SMTT(60)
<1>3. ASSUME NEW step, NEW cs, StartIds(step, cs),
             <<step, cs>> \in {<<"dependencies", {"redis"}>>, <<"workers", {"workers"}>>, <<"listener", {"web"}>>}
      PROVE  HostInv' /\ [A!Next]_(A!vars)
  <2>1. PICK r \in [Container -> BOOLEAN] : r = [c \in Container |-> running[c] \/ c \in cs]
    BY Zenon
  <2>2. r["web"] <=> running["web"] \/ "web" \in cs
    BY <1>0, <2>1, Zenon
  <2>3. Proceed(step, r) /\ cleanup' = cleanup
    BY <1>3, <2>1, Zenon DEF StartIds
  <2>4. sup = step
    BY <2>3, Zenon DEF Proceed
  <2>5. CASE step = "dependencies" /\ cs = {"redis"}
    BY <1>0, <2>2, <2>3, <2>4, <2>5, ProceedKeeps, Zenon
  <2>6. CASE step = "workers" /\ cs = {"workers"}
    BY <1>0, <2>2, <2>3, <2>4, <2>6, ProceedKeeps, ZenonT(60)
  <2>7. CASE step = "listener" /\ cs = {"web"}
    BY <1>0, <2>2, <2>3, <2>4, <2>7, ProceedKeeps, Zenon
  <2> QED BY <1>3, <2>5, <2>6, <2>7, Zenon
<1>4. CASE Checks
  <2>1. Proceed("checks", running) /\ cleanup' = cleanup /\ sup = "checks"
    BY <1>4, Zenon DEF Checks, Proceed
  <2> QED BY <1>0, <2>1, ProceedKeeps, Zenon
<1>5. CASE CheckAdmission
  <2>1. Proceed("admission", running) /\ cleanup' = cleanup /\ sup = "admission" /\ Drained
    BY <1>5, Zenon DEF CheckAdmission, Proceed, Drained
  <2> QED BY <1>0, <2>1, ProceedKeeps, Zenon
<1>6. CASE Consumers
  <2>1. Proceed("consumers", running) /\ cleanup' = cleanup /\ sup = "consumers"
    BY <1>6, Zenon DEF Consumers, Proceed
  <2> QED BY <1>0, <2>1, ProceedKeeps, Zenon
<1>7. CASE Verify
  <2>1. Proceed("verify", running) /\ cleanup' = cleanup
    BY <1>7, Zenon DEF Verify
  <2> QED BY <1>0, <2>1, ProceedKeeps, Zenon
<1>8. CASE HttpReady
  <2>1. Proceed("http", running) /\ cleanup' = cleanup
    BY <1>8, Zenon DEF HttpReady
  <2> QED BY <1>0, <2>1, ProceedKeeps, Zenon
<1> QED BY <1>1, <1>2, <1>3, <1>4, <1>5, <1>6, <1>7, <1>8, Zenon DEF Advance

\* The supervisor gives up, stops or is killed, wherever it is.
LEMMA EndsKeep ==
  ASSUME HostInv, Abandon \/ Stop \/ StopFails \/ Killed
  PROVE  HostInv' /\ [A!Next]_(A!vars)
<1>0. /\ "web" \in Container /\ running \in [Container -> BOOLEAN]
      /\ sup = "listener" => Drained
  BY Zenon DEF HostInv, Cleared, Container, App
<1>1. ASSUME NEW r \in [Container -> BOOLEAN], Becomes(r), sup # "off",
             r["web"] /\ ~ running["web"] => sup = "listener",
             UNCHANGED <<anchor, unit, job>>,
             \/ sup' = "stopping" /\ UNCHANGED <<lock, cleanup>>
             \/ sup' = "off" /\ cleanup' = None /\ lock' = "free"
      PROVE  HostInv' /\ [A!Next]_(A!vars)
  <2>1. lock = "supervisor" /\ unit /\ job = "off"
    BY <1>1, Zenon DEF HostInv
  <2>2. /\ [A!Next]_(A!vars)
        /\ running' = r /\ UNCHANGED <<stored, permits, inflight>>
        /\ ~ r["web"] => \A t \in Thread : pc'[t] = "idle"
    BY <1>0, <1>1, BecomesMaps, Zenon
  <2> QED BY <1>1, <2>1, <2>2, Zenon DEF HostInv, BeforeListener, Cleared, CleanupAuthorised
<1>2. CASE Abandon
  <2>1. sup # "off"
    BY <1>2, OffInactive, Zenon DEF Abandon
  <2>2. PICK r \in StepOutcomes : Becomes(r)
    BY <1>2, Zenon DEF Abandon
  <2> QED BY <1>1, <1>2, <2>1, <2>2, OutcomesType, Zenon DEF Abandon, jobVars
<1>3. CASE Killed
  <2>1. PICK r \in StepOutcomes : Becomes(r)
    BY <1>3, Zenon DEF Killed
  <2> QED BY <1>1, <1>3, <2>1, OutcomesType, Zenon DEF Killed, jobVars
<1>4. ASSUME NEW r \in [Container -> BOOLEAN], Leave(r), r["web"] => running["web"]
      PROVE  HostInv' /\ [A!Next]_(A!vars)
  BY <1>1, <1>4, Zenon DEF Leave, jobVars
<1>5. CASE Stop
  <2>1. PICK r \in [Container -> BOOLEAN] :
          r = [c \in Container |-> running[c] /\ c \notin Authorised]
    BY Zenon
  <2>2. r["web"] => running["web"]
    BY <1>0, <2>1, Zenon
  <2>3. Leave(r)
    BY <1>5, <2>1, Zenon DEF Stop
  <2> QED BY <1>4, <2>2, <2>3, Zenon
<1>6. CASE StopFails
  <2>1. PICK r \in StopOutcomes(Authorised) : Leave(r)
    BY <1>6, Zenon DEF StopFails
  <2>2. r \in [Container -> BOOLEAN] /\ (r["web"] => running["web"])
    BY <1>0, <2>1, Zenon DEF StopOutcomes
  <2> QED BY <1>4, <2>1, <2>2, Zenon
<1> QED BY <1>2, <1>3, <1>5, <1>6, Zenon

\* The steps of the supervisor and of the jobs that touch neither a container nor the
\* admission state.
LEMMA QuietKeeps ==
  ASSUME HostInv,
         \/ Launch \/ Signal \/ BindFresh \/ BindWrite \/ InstallUnit
         \/ ReconcileBegin \/ Quiescent \/ JobFails
  PROVE  HostInv' /\ UNCHANGED A!vars
<1> USE DEF supVars, jobVars, BeginJob, EndJob
<1>1. UNCHANGED <<stored, permits, count, ttl, pc, permit, inflight, running, current>>
  BY ZenonT(60) DEF Launch, Signal, BindFresh, BindWrite, InstallUnit,
         ReconcileBegin, Quiescent, JobFails, serveVars, dockerVars
<1>2. UNCHANGED A!vars /\ Drained' = Drained
  BY <1>1, Zenon DEF A!vars, Drained
<1>3. CASE Launch \/ Signal \/ InstallUnit
  <2>1. CASE Launch
    BY <1>1, <1>2, <2>1, Zenon DEF Launch, HostInv, BeforeListener, Cleared, CleanupAuthorised
  <2>2. CASE Signal
    BY <1>1, <1>2, <2>2, Zenon DEF Signal, HostInv, BeforeListener, Cleared, CleanupAuthorised
  <2>3. CASE InstallUnit
    BY <1>1, <1>2, <2>3, Zenon DEF InstallUnit, HostInv, BeforeListener, Cleared, CleanupAuthorised
  <2> QED BY <1>3, <2>1, <2>2, <2>3, Zenon
<1>4. CASE BindFresh \/ ReconcileBegin \/ BindWrite \/ JobFails
  BY <1>1, <1>2, <1>4, Zenon DEF BindFresh, ReconcileBegin, BindWrite, JobFails, HostInv,
                         BeforeListener, Cleared, CleanupAuthorised
<1>5. CASE Quiescent
  BY <1>1, <1>2, <1>5, Zenon DEF Quiescent, App, HostInv, BeforeListener, Cleared, CleanupAuthorised
<1> QED BY <1>2, <1>3, <1>4, <1>5, Zenon

\* Clearing and creating the admission state, with the listener closed.
LEMMA StateKeeps ==
  ASSUME HostInv, ReconcileRuns \/ InitializeFresh
  PROVE  HostInv' /\ A!Next
<1> USE DEF supVars, jobVars, EndJob, dockerVars
<1>1. CASE ReconcileRuns
  <2>1. job = "reconcile" /\ ~ running["web"] /\ sup = "off" /\ inflight = {}
    BY <1>1, Zenon DEF ReconcileRuns, ClearPermits, HostInv
  <2>2. A!Reconcile \/ A!Initialize
    BY <1>1, <2>1, Zenon DEF ReconcileRuns, ClearPermits, A!Reconcile, A!Initialize
  <2>3. HostInv'
    BY <1>1, <2>1, Zenon DEF ReconcileRuns, ClearPermits, HostInv, BeforeListener, Cleared,
                      CleanupAuthorised
  <2> QED BY <2>2, <2>3, Zenon DEF A!Next
<1>2. CASE InitializeFresh
  <2>1. ~ running["web"] /\ sup = "off" /\ inflight = {}
    BY <1>2, Zenon DEF InitializeFresh, HostInv
  <2>2. A!Initialize
    BY <1>2, <2>1, Zenon DEF InitializeFresh, A!Initialize
  <2>3. HostInv'
    BY <1>2, <2>1, Zenon DEF InitializeFresh, HostInv, BeforeListener, Cleared, CleanupAuthorised
  <2> QED BY <2>2, <2>3, Zenon DEF A!Next
<1> QED BY <1>1, <1>2, Zenon

\* Every step of the composed system keeps the invariant and is a step of Admission,
\* or invisible to it.
LEMMA HostStep ==
  HostInv /\ [Next]_vars => HostInv' /\ [A!Next]_(A!vars)
<1> SUFFICES ASSUME HostInv, [Next]_vars
             PROVE  HostInv' /\ [A!Next]_(A!vars)
  BY Zenon
<1>1. CASE UNCHANGED vars
  BY <1>1, Zenon DEF vars, serveVars, dockerVars, supVars, jobVars, HostInv, Drained,
              CleanupAuthorised, A!vars
<1>2. CASE Serve
  BY <1>2, ServeKeeps, Zenon
<1>3. CASE Host
  BY <1>3, AdvanceKeeps, EndsKeep, QuietKeeps, StateKeeps, Zenon DEF Host
<1>4. CASE World
  BY <1>4, WorldKeeps, Zenon
<1> QED BY <1>1, <1>2, <1>3, <1>4, Zenon DEF Next

\* The created project: the apps have never run.
LEMMA HostStarts == Init => HostInv /\ A!Init
<1> SUFFICES ASSUME Init PROVE HostInv /\ A!Init
  BY Zenon
<1>1. /\ running \in [Container -> BOOLEAN] /\ ~ running["web"]
      /\ inflight = {} /\ \A t \in Thread : pc[t] = "idle"
  BY Zenon DEF Init, A!Init, Container, App
<1>2. lock = "free" /\ sup = "off" /\ job = "off" /\ cleanup = None /\ A!Init
  BY Zenon DEF Init
<1> QED BY <1>1, <1>2, Zenon DEF HostInv, BeforeListener, Cleared, CleanupAuthorised

\* The supervisor, its restarts, failures and crashes and the admission jobs, with
\* containers that exit and are replaced under them, implement Admission: the listener
\* opens only on a checked, empty admission state, and permits are cleared only while
\* it is closed (Runtime.start, reconcile_admission).
THEOREM HostImplementsAdmission == Spec => ImplementsAdmission
<1>1. Spec => []HostInv
  BY HostStarts, HostStep, PTL DEF Spec
<1> QED BY <1>1, HostStarts, HostStep, PTL DEF Spec, ImplementsAdmission, A!Spec

\* What stop() may stop is the anchored original generation, whoever replaces a
\* container and whenever (container_generation before self.cleanup_ids).
THEOREM CleanupAlwaysAuthorised == Spec => []CleanupAuthorised
<1>1. HostInv => CleanupAuthorised
  BY Zenon DEF HostInv
<1> QED BY <1>1, HostStarts, HostStep, PTL DEF Spec
=============================================================================
