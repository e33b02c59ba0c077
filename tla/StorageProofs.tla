---------------------------- MODULE StorageProofs ----------------------------
(***************************************************************************)
(* Proofs about Storage, for any number of goroutines, files, days,        *)
(* restarts and failures, and any set of configurations.                   *)
(***************************************************************************)
EXTENDS Storage, FiniteSetTheorems, TLAPS

Files == (1..day) \X (1..used)

-----------------------------------------------------------------------------
(* Type correctness.                                                        *)

\* The assumptions other than the shape of a configuration, which most steps that
\* need these do without.
LEMMA Bounds ==
  /\ IsFiniteSet(Workers)
  /\ MaxFiles \in Nat /\ MaxDays \in Nat \ {0} /\ MaxStarts \in Nat /\ MaxFaults \in Nat
BY StorageAssumption

\* No file yet.
LEMMA InitTypeOK == Init => TypeOK
<1> SUFFICES ASSUME Init PROVE TypeOK
  OBVIOUS
<1> QED
  BY Bounds DEF Init, Idle, TypeOK

\* The parts of TypeOK: what is stored, the goroutines, the URLs, the counters.
StoreOK == disk \cup objects \cup whole \subseteq Files

WorkersOK ==
  /\ pc \in [Workers -> {"idle", "create", "copy", "put", "answer"}]
  /\ job \in [Workers -> Files \cup {None}]
  /\ \A w \in Workers : IF pc[w] = "idle" THEN job[w] = None ELSE job[w] \in Files

URLsOK == \A url \in handed : url.host \in Domains \cup {"cos"} /\ url.file \in Files

CountersOK ==
  /\ config \in Configs
  /\ used \in 0..MaxFiles /\ day \in 1..MaxDays
  /\ starts \in 0..MaxStarts /\ faults \in 0..MaxFaults

\* TypeOK is the conjunction of its parts,
LEMMA TypeParts == TypeOK <=> StoreOK /\ WorkersOK /\ URLsOK /\ CountersOK
BY DEF TypeOK, StoreOK, WorkersOK, URLsOK, CountersOK, Files

\* ... in the next state too.
LEMMA TypePartsNext == TypeOK' <=> StoreOK' /\ WorkersOK' /\ URLsOK' /\ CountersOK'
BY DEF TypeOK, StoreOK, WorkersOK, URLsOK, CountersOK, Files

\* Old files stay files: the date and the last uuid only grow.
LEMMA FilesGrow ==
  ASSUME CountersOK, [Next]_vars
  PROVE  Files \subseteq Files'
<1>1. day \in Int /\ used \in Int /\ day <= day' /\ used <= used' /\ day' \in Int /\ used' \in Int
  BY Bounds DEF CountersOK, Next, vars, Accept, Continue, Create, Copy, Put, Answer, Midnight, Restart
<1>2. 1..day \subseteq 1..day' /\ 1..used \subseteq 1..used'
  BY <1>1
<1>3. QED
  BY <1>2 DEF Files

\* The goroutines at work are finitely many.
LEMMA BusyFinite == IsFiniteSet(Busy)
BY Bounds, FS_Subset DEF Busy

\* The counters stay within their bounds: every action that moves one checks it.
LEMMA CountersStep ==
  ASSUME CountersOK, [Next]_vars
  PROVE  CountersOK'
<1>1. Cardinality(Busy) \in Nat
  BY BusyFinite, FS_CardinalityType
<1>2. QED
  BY <1>1, Bounds DEF CountersOK, Next, vars, Accept, Continue, Create, Copy, Put, Answer, Midnight,
     Restart, Fault

\* A goroutine works on a file with a name of its own, or on none.
LEMMA WorkersStep ==
  ASSUME WorkersOK, CountersOK, Files \subseteq Files', [Next]_vars
  PROVE  WorkersOK'
<1>1. ASSUME NEW w \in Workers, Accept(w) PROVE WorkersOK'
  <2>1. <<day, used + 1>> \in Files'
    BY <1>1 DEF Accept, CountersOK, Files
  <2>2. QED
    BY <1>1, <2>1 DEF Accept, Goto, WorkersOK
<1>2. ASSUME NEW w \in Workers, Continue(w) PROVE WorkersOK'
  BY <1>2 DEF Continue, Create, Copy, Put, Answer, Goto, WorkersOK
<1>3. CASE Midnight \/ UNCHANGED vars
  BY <1>3 DEF Midnight, vars, WorkersOK
<1>4. CASE Restart
  BY <1>4 DEF Restart, WorkersOK
<1>5. QED
  BY <1>1, <1>2, <1>3, <1>4 DEF Next

\* What is stored has been named by Accept.
LEMMA StoreStep ==
  ASSUME StoreOK, WorkersOK, Files \subseteq Files', [Next]_vars
  PROVE  StoreOK'
<1>1. ASSUME NEW w \in Workers, Accept(w) \/ Answer(w) PROVE StoreOK'
  BY <1>1 DEF Accept, Answer, StoreOK
<1>2. ASSUME NEW w \in Workers, Create(w) \/ Copy(w) \/ Put(w) PROVE StoreOK'
  <2>1. job[w] \in Files
    BY <1>2 DEF Create, Copy, Put, WorkersOK
  <2>2. QED
    BY <1>2, <2>1 DEF Create, Copy, Put, StoreOK
<1>3. CASE Midnight \/ UNCHANGED vars
  BY <1>3 DEF Midnight, vars, StoreOK
<1>4. CASE Restart
  <2>1. PICK sent \in SUBSET {job[w] : w \in {v \in Workers : pc[v] = "put"}} :
          objects' = objects \cup sent /\ whole' = whole \cup sent
    BY <1>4 DEF Restart
  <2>2. sent \subseteq Files
    BY <2>1 DEF WorkersOK
  <2>3. QED
    BY <1>4, <2>1, <2>2 DEF Restart, StoreOK
<1>5. QED
  BY <1>1, <1>2, <1>3, <1>4 DEF Next, Continue

\* The URL a goroutine answers with names its own file; it points to the bucket if
\* that is where the goroutine wrote.
LEMMA AnsweredURL ==
  ASSUME CountersOK, NEW file, NEW name \in config.domains
  PROVE  LET url == BuildFullURL(name, URLOf(file)) IN
         /\ url.file = file
         /\ url.host \in Domains \cup {"cos"}
         /\ (url.host = "cos") <=> (Backend = "cos")
<1>1. config.domains \subseteq Domains /\ None # "cos" /\ "cos" \notin Domains
  BY StorageAssumption DEF CountersOK
<1>2. name \in Domains /\ name # "cos"
  BY <1>1
<1>3. CASE Backend = "cos"
  <2>1. URLOf(file) = [host |-> "cos", dir |-> <<"uploads">>, file |-> file]
    BY <1>3 DEF URLOf
  <2>2. BuildFullURL(name, URLOf(file)) = URLOf(file)
    BY <1>1, <2>1 DEF BuildFullURL
  <2>3. QED
    BY <1>3, <2>1, <2>2
<1>4. CASE Backend # "cos"
  <2>1. URLOf(file) = [host |-> None, dir |-> config.urlPrefix, file |-> file]
    BY <1>4 DEF URLOf
  <2>2. BuildFullURL(name, URLOf(file)) = [host |-> name, dir |-> config.urlPrefix, file |-> file]
    BY <2>1 DEF BuildFullURL
  <2>3. QED
    BY <1>2, <1>4, <2>2
<1>5. QED
  BY <1>3, <1>4

\* The URLs name files, below a name of the server or in the bucket.
LEMMA URLsStep ==
  ASSUME URLsOK, WorkersOK, CountersOK, Files \subseteq Files', [Next]_vars
  PROVE  URLsOK'
<1>1. CASE handed' = handed
  BY <1>1 DEF URLsOK
<1>2. ASSUME NEW w \in Workers, Answer(w) PROVE URLsOK'
  <2>1. job[w] \in Files
    BY <1>2 DEF Answer, WorkersOK
  <2>2. ASSUME NEW url \in handed' PROVE url \in handed \/ \E name \in config.domains : url = BuildFullURL(name, URLOf(job[w]))
    BY <1>2 DEF Answer
  <2>3. QED
    BY <2>1, <2>2, AnsweredURL DEF URLsOK
<1>3. QED
  BY <1>1, <1>2 DEF Next, vars, Continue, Accept, Create, Copy, Put, Midnight, Restart

\* Every step keeps the shapes.
LEMMA TypeOKStep == TypeOK /\ [Next]_vars => TypeOK'
BY TypeParts, TypePartsNext, FilesGrow, CountersStep, WorkersStep, StoreStep, URLsStep

\* The bounds of dates and uuids hold for every run of the server.
THEOREM TypeCorrect == Spec => []TypeOK
BY InitTypeOK, TypeOKStep, PTL DEF Spec

-----------------------------------------------------------------------------
(* The URLs handed out.                                                     *)

\* Where the bytes are: a file a goroutine is about to answer with, or has answered
\* with, is complete and lies where its URL points.
WholeInv ==
  /\ \A w \in Workers :
       /\ pc[w] = "copy" => Backend = "local" /\ job[w] \in disk
       /\ pc[w] \in {"create", "put"} => Backend = IF pc[w] = "put" THEN "cos" ELSE "local"
       /\ pc[w] = "answer" => /\ job[w] \in whole
                              /\ job[w] \in IF Backend = "cos" THEN objects ELSE disk
  /\ \A url \in handed :
       /\ url.file \in whole
       /\ url.file \in IF url.host = "cos" THEN objects ELSE disk

\* Nothing is written or handed out at the start.
LEMMA InitWholeInv == Init => WholeInv
BY DEF Init, Idle, WholeInv

\* Only a completed write takes a goroutine to the answer; a restart, which alone
\* changes the back end, takes every goroutine to its end.
LEMMA WholeInvStep == TypeOK /\ WholeInv /\ [Next]_vars => WholeInv'
<1> SUFFICES ASSUME TypeOK, WholeInv, [Next]_vars PROVE WholeInv'
  OBVIOUS
<1>1. disk \subseteq disk' /\ objects \subseteq objects' /\ whole \subseteq whole'
  BY DEF Next, vars, Accept, Continue, Create, Copy, Put, Answer, Midnight, Restart
<1>2. ASSUME config' = config PROVE Backend' = Backend
  BY <1>2 DEF Backend
<1>3. ASSUME NEW w \in Workers, Accept(w) PROVE WholeInv'
  <2>1. Backend' = Backend /\ Backend \in {"local", "cos"}
    BY <1>2, <1>3 DEF Accept, Backend
  <2>2. QED
    BY <1>3, <2>1 DEF Accept, Goto, TypeOK, WholeInv
<1>4. ASSUME NEW w \in Workers, Create(w) \/ Copy(w) \/ Put(w) PROVE WholeInv'
  <2>1. Backend' = Backend /\ handed' = handed
    BY <1>2, <1>4 DEF Create, Copy, Put
  <2>2. ASSUME NEW v \in Workers, v # w
        PROVE  pc'[v] = pc[v] /\ job'[v] = job[v]
    BY <1>4, <2>2 DEF Create, Copy, Put, Goto, TypeOK
  <2>3. \/ pc'[w] = "idle"
        \/ pc[w] = "create" /\ pc'[w] = "copy" /\ job'[w] \in disk'
        \/ pc[w] = "copy" /\ pc'[w] = "answer" /\ job'[w] \in whole' /\ job'[w] = job[w]
        \/ pc[w] = "put" /\ pc'[w] = "answer" /\ job'[w] \in whole' /\ job'[w] \in objects'
    BY <1>4, TypeParts DEF Create, Copy, Put, Goto, WorkersOK
  <2>4. QED
    BY <1>1, <2>1, <2>2, <2>3 DEF WholeInv
<1>5. ASSUME NEW w \in Workers, Answer(w) PROVE WholeInv'
  <2>1. Backend' = Backend /\ UNCHANGED <<disk, objects, whole>>
    BY <1>2, <1>5 DEF Answer
  <2>2. ASSUME NEW v \in Workers
        PROVE  pc'[v] = "idle" \/ (pc'[v] = pc[v] /\ job'[v] = job[v])
    BY <1>5 DEF Answer, Goto, TypeOK
  <2>3. ASSUME NEW name \in config.domains
        PROVE  LET url == BuildFullURL(name, URLOf(job[w])) IN
               url.file = job[w] /\ ((url.host = "cos") <=> (Backend = "cos"))
    BY TypeParts, AnsweredURL
  <2>4. job[w] \in whole /\ job[w] \in IF Backend = "cos" THEN objects ELSE disk
    BY <1>5 DEF Answer, WholeInv
  <2>5. \A url \in handed' : /\ url.file \in whole
                             /\ url.file \in IF url.host = "cos" THEN objects ELSE disk
    BY <1>5, <2>3, <2>4 DEF Answer, WholeInv
  <2>6. QED
    BY <2>1, <2>2, <2>5 DEF WholeInv
<1>6. CASE Midnight \/ UNCHANGED vars
  BY <1>2, <1>6 DEF Midnight, vars, WholeInv
<1>7. CASE Restart
  BY <1>1, <1>7 DEF Restart, WholeInv
<1>8. QED
  BY <1>3, <1>4, <1>5, <1>6, <1>7 DEF Next, Continue

\* The segments of a prefix, spelled so that the provers know the two of the default.
Segments == STRING \cup {"static", "uploads"}

\* A URL made with a prefix the process still knows is stripped down to the file.
LEMMA KnownIsStripped ==
  ASSUME TypeOK, NEW dir, Known(dir)
  PROVE  dir # << >> /\ Head(dir) = "static" /\ Stripped(dir) = << >>
<1>1. StaticPrefix \in Seq(Segments) /\ StaticPrefix # << >>
  <2>1. config.urlPrefix \in Seq(STRING)
    BY StorageAssumption DEF TypeOK
  <2>2. \A s \in Seq(STRING) : s \in Seq(Segments)
    BY DEF Segments
  <2>3. <<"static", "uploads">> \in Seq(Segments) /\ <<"static", "uploads">> # << >>
    BY DEF Segments
  <2>4. QED
    BY <2>1, <2>2, <2>3 DEF StaticPrefix
<1>2. CASE dir = StaticPrefix /\ Head(dir) = "static"
  <2>1. IsPrefix(StaticPrefix, dir)
    BY <1>1, <1>2 DEF IsPrefix
  <2>2. SubSeq(dir, Len(StaticPrefix) + 1, Len(dir)) = << >>
    BY <1>1, <1>2
  <2>3. QED
    BY <1>1, <1>2, <2>1, <2>2 DEF Stripped
<1>3. CASE dir = <<"static">>
  <2>1. dir \in Seq(Segments) /\ Len(dir) = 1 /\ Head(dir) = "static" /\ Tail(dir) = << >> /\ dir # << >>
    BY <1>3 DEF Segments
  <2>2. CASE IsPrefix(StaticPrefix, dir)
    <3>1. Len(StaticPrefix) = 1
      BY <1>1, <2>1, <2>2 DEF IsPrefix
    <3>2. SubSeq(dir, 2, 1) = << >>
      BY <2>1
    <3>3. QED
      BY <2>1, <2>2, <3>1, <3>2 DEF Stripped
  <2>3. QED
    BY <2>1, <2>2 DEF Stripped
<1>4. QED
  BY <1>2, <1>3 DEF Known

\* A URL a client was given leads to the whole of its file for as long as its name
\* and its prefix are known, whatever fails, restarts or changes in between.
THEOREM URLsLead == Spec => []HandedURLsLead
<1>1. TypeOK /\ WholeInv => HandedURLsLead
  <2> SUFFICES ASSUME TypeOK, WholeInv, NEW url \in handed
               PROVE  /\ url.file \in whole
                      /\ url.host = "cos" => Leads(url)
                      /\ Backend # "down" /\ url.host \in config.domains /\ Known(url.dir) => Leads(url)
    BY DEF HandedURLsLead
  <2>1. url.file \in whole /\ (url.host = "cos" => Leads(url))
    BY DEF WholeInv, Leads
  <2>2. ASSUME Backend # "down", url.host \in config.domains, Known(url.dir), url.host # "cos"
        PROVE  Leads(url)
    <3>1. url.file \in disk
      BY <2>2 DEF WholeInv
    <3>2. QED
      BY <2>2, <3>1, KnownIsStripped DEF Leads, Serves
  <2>3. QED
    BY <2>1, <2>2
<1>2. QED
  BY <1>1, InitTypeOK, TypeOKStep, InitWholeInv, WholeInvStep, PTL DEF Spec

-----------------------------------------------------------------------------
(* The files nobody can ask for.                                            *)

Orphans == Stored \ (Reachable \cup Written)

\* Everything stored is among finitely many names.
LEMMA OrphansFinite ==
  ASSUME TypeOK
  PROVE  IsFiniteSet(Orphans) /\ Cardinality(Orphans) \in Nat
<1>1. day \in Int /\ used \in Int
  BY Bounds DEF TypeOK
<1>2. IsFiniteSet(Files)
  <2>1. IsFiniteSet(1..day) /\ IsFiniteSet(1..used)
    BY <1>1, FS_Interval
  <2>2. QED
    BY <2>1, FS_Product DEF Files
<1>3. Orphans \subseteq Files
  BY TypeParts DEF Orphans, Stored, StoreOK
<1>4. QED
  BY <1>2, <1>3, FS_Subset, FS_CardinalityType

\* One more orphan and one more fault.
LEMMA OneMore ==
  ASSUME TypeOK, TypeOK', FilesAccounted, faults' = faults + 1,
         NEW file, Orphans' \subseteq Orphans \cup {file}
  PROVE  FilesAccounted'
<1>1. IsFiniteSet(Orphans \cup {file}) /\ Cardinality(Orphans \cup {file}) <= Cardinality(Orphans) + 1
  BY OrphansFinite, FS_AddElement
<1>2. Cardinality(Orphans') <= Cardinality(Orphans \cup {file}) /\ Cardinality(Orphans \cup {file}) \in Nat
  BY <1>1, FS_Subset, FS_CardinalityType
<1>3. Cardinality(Orphans)' \in Nat /\ Cardinality(Orphans) \in Nat /\ faults \in Nat
  <2>1. (IsFiniteSet(Orphans) /\ Cardinality(Orphans) \in Nat)'
    <3>1. Orphans' \subseteq Orphans \cup {file}
      OBVIOUS
    <3>2. QED
      BY <1>1, <3>1, FS_Subset, FS_CardinalityType
  <2>2. QED
    BY <2>1, OrphansFinite DEF TypeOK
<1>4. QED
  BY <1>1, <1>2, <1>3 DEF FilesAccounted, Orphans

\* No more orphans, and no fewer faults.
LEMMA NoMore ==
  ASSUME TypeOK, FilesAccounted, faults' \in Nat, faults <= faults', Orphans' \subseteq Orphans
  PROVE  FilesAccounted'
<1>1. Cardinality(Orphans') <= Cardinality(Orphans) /\ Cardinality(Orphans') \in Nat
  BY OrphansFinite, FS_Subset, FS_CardinalityType
<1>2. QED
  BY <1>1, OrphansFinite DEF FilesAccounted, Orphans, TypeOK

\* A restart makes at most as many orphans as there were uploads to cut off.
LEMMA RestartOrphans ==
  ASSUME TypeOK, FilesAccounted, Restart
  PROVE  FilesAccounted'
<1> DEFINE lost == {job[w] : w \in Busy}
           jobOf == [w \in Busy |-> job[w]]
<1>1. jobOf \in Surjection(Busy, lost)
  BY DEF Surjection
<1>2. IsFiniteSet(lost) /\ Cardinality(lost) <= Cardinality(Busy)
  BY <1>1, BusyFinite, FS_Surjection
<1> HIDE DEF jobOf
<1>3. Orphans' \subseteq Orphans \cup lost
  <2>1. PICK sent \in SUBSET {job[w] : w \in {v \in Workers : pc[v] = "put"}} : objects' = objects \cup sent
    BY DEF Restart
  <2>2. sent \subseteq lost
    BY <2>1 DEF Busy
  <2>3. Stored' \subseteq Stored \cup lost /\ Reachable' = Reachable
    BY <2>1, <2>2 DEF Restart, Stored, Reachable
  <2>4. QED
    BY <2>3 DEF Orphans, Written
<1> HIDE DEF lost
<1>4. /\ IsFiniteSet(Orphans \cup lost)
      /\ Cardinality(Orphans \cup lost) = Cardinality(Orphans) + Cardinality(lost) - Cardinality(Orphans \cap lost)
  BY <1>2, OrphansFinite, FS_Union
<1>5. /\ Cardinality(Orphans') <= Cardinality(Orphans \cup lost)
      /\ Cardinality(Orphans') \in Nat
  BY <1>3, <1>4, FS_Subset, FS_CardinalityType
<1>6. /\ Cardinality(Orphans \cap lost) \in Nat /\ Cardinality(lost) \in Nat
      /\ Cardinality(Orphans) \in Nat /\ Cardinality(Busy) \in Nat
  BY <1>2, BusyFinite, OrphansFinite, FS_Intersection, FS_CardinalityType
<1>7. faults \in Nat /\ faults' = faults + Cardinality(Busy)
  BY DEF Restart, TypeOK
<1>8. QED
  BY <1>2, <1>4, <1>5, <1>6, <1>7 DEF FilesAccounted, Orphans

\* An upload that ends with an error leaves at most its own file behind.
LEMMA FilesAccountedStep == TypeOK /\ TypeOK' /\ FilesAccounted /\ [Next]_vars => FilesAccounted'
<1> SUFFICES ASSUME TypeOK, TypeOK', FilesAccounted, [Next]_vars PROVE FilesAccounted'
  OBVIOUS
<1>1. faults \in Nat /\ faults' \in Nat
  BY DEF TypeOK
<1>2. CASE Midnight \/ UNCHANGED vars
  <2>1. Orphans' = Orphans /\ faults' = faults
    BY <1>2 DEF Midnight, vars, Orphans, Stored, Reachable, Written, Busy
  <2>2. QED
    BY <1>1, <2>1, NoMore
<1>3. ASSUME NEW w \in Workers, Accept(w) PROVE FilesAccounted'
  <2>1. Stored' = Stored /\ Reachable' = Reachable /\ faults' = faults
    BY <1>3 DEF Accept, Stored, Reachable
  <2>2. Written \subseteq Written'
    BY <1>3, TypeParts DEF Accept, Written, Busy, Goto, WorkersOK
  <2>3. QED
    BY <1>1, <2>1, <2>2, NoMore DEF Orphans
<1>4. ASSUME NEW w \in Workers, Continue(w) PROVE FilesAccounted'
  <2>1. Written \subseteq Written' \cup {job[w]} /\ job[w] \in Written
    BY <1>4, TypeParts DEF Continue, Create, Copy, Put, Answer, Written, Busy, Goto, WorkersOK
  <2>2. Stored' \subseteq Stored \cup {job[w]} /\ Reachable \subseteq Reachable'
    BY <1>4 DEF Continue, Create, Copy, Put, Answer, Stored, Reachable
  <2>3. Orphans' \subseteq Orphans \cup {job[w]}
    BY <2>1, <2>2 DEF Orphans
  <2>4. CASE faults' = faults + 1
    BY <2>3, <2>4, OneMore
  <2>5. CASE faults' # faults + 1
    <3>1. faults' = faults /\ job[w] \in Written' \cup Reachable'
      <4>1. CASE Create(w) \/ Copy(w) \/ Put(w)
        BY <2>5, <4>1, TypeParts DEF Create, Copy, Put, Fault, Written, Busy, Goto, WorkersOK
      <4>2. CASE Answer(w)
        <5>1. PICK name \in config.domains : handed' = handed \cup {BuildFullURL(name, URLOf(job[w]))}
          BY <2>5, <4>2 DEF Answer, Fault
        <5>2. BuildFullURL(name, URLOf(job[w])).file = job[w]
          BY <5>1, TypeParts, AnsweredURL
        <5>3. QED
          BY <2>5, <4>2, <5>1, <5>2 DEF Answer, Fault, Reachable
      <4>3. QED
        BY <1>4, <4>1, <4>2 DEF Continue
    <3>2. Orphans' \subseteq Orphans
      BY <2>3, <3>1 DEF Orphans
    <3>3. QED
      BY <1>1, <3>1, <3>2, NoMore
  <2>6. QED
    BY <2>4, <2>5
<1>5. CASE Restart
  BY <1>5, RestartOrphans
<1>6. QED
  BY <1>2, <1>3, <1>4, <1>5 DEF Next

\* Files nobody can ask for are at most as many as the failures: for any number of
\* uploads at a time, each failure, lost answer or upload cut off costs one.
THEOREM LeaksBounded == Spec => []FilesAccounted
<1>1. Init => FilesAccounted
  <2>1. Init => Orphans = {} /\ faults = 0
    BY DEF Init, Orphans, Stored
  <2>2. Cardinality({}) = 0
    BY FS_EmptySet
  <2>3. QED
    BY <2>1, <2>2 DEF FilesAccounted, Orphans
<1>2. QED
  BY <1>1, FilesAccountedStep, InitTypeOK, TypeOKStep, PTL DEF Spec

=============================================================================
