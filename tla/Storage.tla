------------------------------ MODULE Storage ------------------------------
(***************************************************************************)
(* Uploaded files and the URLs that lead to them: UploadFile               *)
(* (handler/upload.go), the two back ends of storage/, the completion of   *)
(* URLs in util/response.go and the static route of main.go.               *)
(*                                                                         *)
(* The URL an upload answers with is complete, host included, and clients  *)
(* hand it to PublishPhotos, which stores it as it is: whatever changes    *)
(* later, it is that URL which readers are given.  So the model keeps the  *)
(* URLs handed out and asks what they lead to after midnights, crashes and *)
(* restarts with another configuration.  Requests that UploadFile refuses  *)
(* change nothing and are left out.  A file is its date and its uuid, a   *)
(* number never used twice; a path is the segments before them, and them. *)
(***************************************************************************)
EXTENDS Integers, FiniteSets, Sequences, SequencesExt

CONSTANTS
  Workers,    \* goroutines serving uploads
  Domains,    \* host names under which clients may reach the server
  Configs,    \* configurations a process may be started with
  None,       \* no file, no host
  MaxFiles,   \* bound: uploads in a behaviour
  MaxDays,    \* bound: days in a behaviour
  MaxStarts,  \* bound: restarts in a behaviour
  MaxFaults   \* bound: failed calls, lost answers and uploads cut off

\* UploadConfig: the driver, url_prefix, whether the COS keys are all there, and
\* (outside of this program) the names that lead to the host.
ASSUME StorageAssumption ==
  /\ Configs \subseteq [driver : {"", "local", "cos"}, keys : BOOLEAN,
                        urlPrefix : Seq(STRING), domains : SUBSET Domains]
  /\ None \notin Domains /\ "cos" \notin Domains \cup {None}
  /\ IsFiniteSet(Workers)
  /\ MaxFiles \in Nat /\ MaxDays \in Nat \ {0} /\ MaxStarts \in Nat /\ MaxFaults \in Nat

VARIABLES
  config,     \* what the process was started with
  disk,       \* files <<day, uuid>> under save_path, written in full or not
  objects,    \* files in the bucket, below path_prefix
  whole,      \* the files whose content has been written in full
  used,       \* the last uuid used
  day,        \* the date
  pc,         \* what each goroutine does next
  job,        \* the file it writes
  handed,     \* the URLs clients were given
  starts,     \* restarts so far
  faults      \* failures so far

vars == <<config, disk, objects, whole, used, day, pc, job, handed, starts, faults>>

-----------------------------------------------------------------------------
\* storage.Init: the back end; without its keys COS ends the process.
Backend ==
  CASE config.driver # "cos" -> "local"
    [] config.driver = "cos" /\ config.keys -> "cos"
    [] OTHER -> "down"

\* What Upload returns: a path from LocalStorage, a URL of the bucket from COS.
URLOf(file) ==
  IF Backend = "cos" THEN [host |-> "cos", dir |-> <<"uploads">>, file |-> file]
  ELSE [host |-> None, dir |-> config.urlPrefix, file |-> file]

\* BuildFullURL: a path is completed with the name the client called, a URL that
\* is complete is left alone.
BuildFullURL(name, url) == IF url.host = None THEN [url EXCEPT !.host = name] ELSE url

\* urlPrefix in main: the default is applied here and nowhere else.
StaticPrefix ==
  IF config.urlPrefix = << >> THEN <<"static", "uploads">> ELSE config.urlPrefix

\* The segments left before the file: without the prefix, or else without "/static".
Stripped(dir) ==
  IF IsPrefix(StaticPrefix, dir) THEN SubSeq(dir, Len(StaticPrefix) + 1, Len(dir)) ELSE Tail(dir)

\* The route /static/* finds the file, whichever the back end is now.
Serves(url) ==
  url.dir # << >> /\ Head(url.dir) = "static" /\ Stripped(url.dir) = << >> /\ url.file \in disk

\* A GET of the URL answers with a file.
Leads(url) ==
  IF url.host = "cos" THEN url.file \in objects
  ELSE Backend # "down" /\ url.host \in config.domains /\ Serves(url)

Fault == faults < MaxFaults /\ faults' = faults + 1
Goto(w, l) == pc' = [pc EXCEPT ![w] = l]

Busy == {w \in Workers : pc[w] # "idle"}
Idle == pc = [w \in Workers |-> "idle"] /\ job = [w \in Workers |-> None]

Init ==
  /\ config \in Configs
  /\ disk = {} /\ objects = {} /\ whole = {} /\ used = 0 /\ day = 1
  /\ Idle
  /\ handed = {} /\ starts = 0 /\ faults = 0

-----------------------------------------------------------------------------
(* UploadFile.                                                              *)

\* The request is taken, the name is made from the date and a fresh uuid.
Accept(w) ==
  /\ pc[w] = "idle" /\ used < MaxFiles /\ Backend # "down"
  /\ used' = used + 1
  /\ job' = [job EXCEPT ![w] = <<day, used + 1>>]
  /\ Goto(w, IF Backend = "cos" THEN "put" ELSE "create")
  /\ UNCHANGED <<config, disk, objects, whole, day, handed, starts, faults>>

\* LocalStorage.Upload: MkdirAll and Create, or a failure of either.
Create(w) ==
  /\ pc[w] = "create"
  /\ \/ /\ disk' = disk \cup {job[w]}
        /\ Goto(w, "copy") /\ UNCHANGED <<job, faults>>
     \/ /\ Fault /\ Goto(w, "idle") /\ job' = [job EXCEPT ![w] = None] /\ UNCHANGED disk
  /\ UNCHANGED <<config, objects, whole, used, day, handed, starts>>

\* Mistake: the error of Copy is not looked at.
CopyUnchecked(w) ==
  /\ pc[w] = "copy"
  /\ Goto(w, "answer")
  /\ (whole' = whole \cup {job[w]} /\ UNCHANGED faults) \/ (Fault /\ UNCHANGED whole)
  /\ UNCHANGED <<config, disk, objects, used, day, job, handed, starts>>

\* Copy, or a failure that answers 500 and leaves the part file where it is.
Copy(w) ==
  /\ pc[w] = "copy"
  /\ \/ /\ whole' = whole \cup {job[w]}
        /\ Goto(w, "answer") /\ UNCHANGED <<job, faults>>
     \/ /\ Fault /\ Goto(w, "idle") /\ job' = [job EXCEPT ![w] = None] /\ UNCHANGED whole
  /\ UNCHANGED <<config, disk, objects, used, day, handed, starts>>

\* COSStorage.Upload: Put stores all of an object or none of it; one that reports
\* an error may have stored it.
Put(w) ==
  LET store == /\ objects' = objects \cup {job[w]}
               /\ whole' = whole \cup {job[w]} IN
  /\ pc[w] = "put"
  /\ \/ store /\ Goto(w, "answer") /\ UNCHANGED <<job, faults>>
     \/ /\ Fault /\ Goto(w, "idle") /\ job' = [job EXCEPT ![w] = None]
        /\ store \/ UNCHANGED <<objects, whole>>
  /\ UNCHANGED <<config, disk, used, day, handed, starts>>

\* Mistake: the date in the URL is taken from the clock once more.
AnswerToday(w) ==
  /\ pc[w] = "answer"
  /\ \E name \in config.domains :
       handed' = handed \cup {BuildFullURL(name, URLOf(<<day, job[w][2]>>))}
  /\ Goto(w, "idle") /\ job' = [job EXCEPT ![w] = None]
  /\ UNCHANGED <<config, disk, objects, whole, used, day, starts, faults>>

\* Mistake: the name in the URL is made from a uuid of its own.
AnswerAnew(w) ==
  /\ pc[w] = "answer"
  /\ \E name \in config.domains :
       handed' = handed \cup {BuildFullURL(name, URLOf(<<day, used + 1>>))}
  /\ Goto(w, "idle") /\ job' = [job EXCEPT ![w] = None]
  /\ UNCHANGED <<config, disk, objects, whole, used, day, starts, faults>>

\* SuccessFixURL; the answer may be lost on its way.
Answer(w) ==
  /\ pc[w] = "answer"
  /\ \/ /\ \E name \in config.domains : handed' = handed \cup {BuildFullURL(name, URLOf(job[w]))}
        /\ UNCHANGED faults
     \/ Fault /\ UNCHANGED handed
  /\ Goto(w, "idle") /\ job' = [job EXCEPT ![w] = None]
  /\ UNCHANGED <<config, disk, objects, whole, used, day, starts>>

-----------------------------------------------------------------------------
(* What goes on around it.                                                  *)

Midnight ==
  /\ day < MaxDays /\ day' = day + 1
  /\ UNCHANGED <<config, disk, objects, whole, used, pc, job, handed, starts, faults>>

\* The process is started again, after it was stopped or died: a process that dies
\* leaves its uploads where they are, and COS may still store what it was sent.
Restart ==
  /\ starts < MaxStarts /\ starts' = starts + 1
  /\ config' \in Configs
  /\ faults' = faults + Cardinality(Busy) /\ faults' <= MaxFaults
  /\ pc' = [w \in Workers |-> "idle"] /\ job' = [w \in Workers |-> None]
  /\ \E sent \in SUBSET {job[w] : w \in {v \in Workers : pc[v] = "put"}} :
       objects' = objects \cup sent /\ whole' = whole \cup sent
  /\ UNCHANGED <<disk, used, day, handed>>

Continue(w) == Create(w) \/ Copy(w) \/ Put(w) \/ Answer(w)

Next ==
  \/ \E w \in Workers : Accept(w) \/ Continue(w)
  \/ Midnight \/ Restart

Spec == Init /\ [][Next]_vars

-----------------------------------------------------------------------------
(* Properties.                                                              *)

\* Dates and uuids stay in their bounds, and a goroutine past Accept has a file.
TypeOK ==
  /\ config \in Configs
  /\ used \in 0..MaxFiles /\ day \in 1..MaxDays
  /\ disk \cup objects \cup whole \subseteq (1..day) \X (1..used)
  /\ pc \in [Workers -> {"idle", "create", "copy", "put", "answer"}]
  /\ job \in [Workers -> ((1..day) \X (1..used)) \cup {None}]
  /\ \A w \in Workers : IF pc[w] = "idle" THEN job[w] = None ELSE job[w] \in (1..day) \X (1..used)
  /\ \A url \in handed : url.host \in Domains \cup {"cos"} /\ url.file \in (1..day) \X (1..used)
  /\ starts \in 0..MaxStarts /\ faults \in 0..MaxFaults

\* The process still knows the prefix a URL was made with: url_prefix has not been
\* changed, or the URL is one of those directly below /static.
Known(dir) == dir = <<"static">> \/ (dir = StaticPrefix /\ Head(dir) = "static")

\* Every URL a client was given leads to its file, written in full, after any
\* midnight, crash or restart, and whichever back end new files go to: unless
\* the name it was completed with has been given up, or url_prefix changed, and
\* but for an empty url_prefix, whose URLs never led anywhere.
HandedURLsLead ==
  \A url \in handed :
    /\ url.file \in whole
    /\ url.host = "cos" => Leads(url)
    /\ Backend # "down" /\ url.host \in config.domains /\ Known(url.dir) => Leads(url)

Stored    == disk \cup objects
Reachable == {url.file : url \in handed}
Written   == {job[w] : w \in Busy}

\* Nothing ever removes a file, so those that nobody can ask for add up; failures
\* account for them, a failed call, a lost answer or an upload that was cut off
\* for one file each.
FilesAccounted == Cardinality(Stored \ (Reachable \cup Written)) <= faults

=============================================================================
