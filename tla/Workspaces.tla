----------------------------- MODULE Workspaces -----------------------------
(***************************************************************************)
(* What task attempts read and write, and what may be thrown away:         *)
(* runtime/staging.py, runtime/blobs.py and runtime/maintenance.py.        *)
(*                                                                         *)
(* An attempt copies its input into a workspace of its own, works there,   *)
(* is checked against the run directory, puts its output among the blobs   *)
(* and commits it.  Its lease may end at any step, and its worker goes on  *)
(* all the same.  Patches drop committed results, an operator edits and    *)
(* rebuilds the run directory, and the collector moves away whatever no    *)
(* committed data names, or dies half-way.                                 *)
(*                                                                         *)
(* The plan has two tasks: search writes the list of sources, whose texts  *)
(* are blobs of their own, and report reads it.  The exports of a commit   *)
(* are flushed with it (Exports has the gap).                              *)
(***************************************************************************)
EXTENDS Naturals, FiniteSets

CONSTANTS
    WorkAttempts,  \* attempt ids
    Contents,      \* what a file or a blob may hold
    Lists,         \* the contents that a search may produce
    Mentions,      \* content -> the blobs whose digests it contains
    ReportOn,      \* list -> the report made of it
    Blank,         \* an empty or missing file
    Edits          \* bound: what somebody writes into a file

ASSUME WorkConstants ==
    /\ Lists \subseteq Contents /\ Blank \notin Contents
    /\ Mentions \in [Contents -> SUBSET Contents]
    /\ ReportOn \in [Contents \cup {Blank} -> Contents]
    /\ Edits \subseteq Contents \cup {Blank}

(* The texts of a search are blobs that a list mentions, with what they    *)
(* mention themselves; a report mentions what its list does.               *)
ASSUME WorkMentions ==
    \A list \in Lists :
        /\ \A c \in Mentions[list] : Mentions[c] \subseteq Mentions[list]
        /\ Mentions[ReportOn[list]] \subseteq Mentions[list] \cup {list}

VARIABLES
    work,        \* the attempts, and what their workers know
    staging,     \* the workspaces under .staging
    disk,        \* the run directory
    committed,   \* file_projections and, unless blank, artifacts
    receipt,     \* task -> the input its committed result was made of
    blobs,       \* .blobs
    archived     \* the digests that manifests, histories and replays name

workVars == <<work, staging, disk, committed, receipt, blobs, archived>>

WorkTasks == {"search", "report"}
Content == Contents \cup {Blank}
NoWork == [task |-> "search", status |-> "none", at |-> "none", input |-> Blank, output |-> Blank]

WorkTypeOK ==
    /\ work \in [WorkAttempts -> [task : WorkTasks,
                                  status : {"none", "running", "succeeded", "ended"},
                                  at : {"none", "working", "checked", "put", "gone"},
                                  input : Content, output : Content]]
    /\ staging \in [WorkAttempts -> {"none", "here", "quarantined"}]
    /\ disk \in [WorkTasks -> Content] /\ committed \in [WorkTasks -> Content]
    /\ DOMAIN receipt \subseteq WorkTasks
    /\ blobs \subseteq Contents /\ archived \subseteq Contents

WorkInit ==
    /\ work = [a \in WorkAttempts |-> NoWork]
    /\ staging = [a \in WorkAttempts |-> "none"]
    /\ disk = [t \in WorkTasks |-> Blank] /\ committed = disk
    /\ receipt = [t \in {} |-> Blank]
    /\ blobs = {} /\ archived = {}

-----------------------------------------------------------------------------
(* Attempts.                                                               *)

Active == {a \in WorkAttempts : work[a].status = "running"}

Ready(t) == t = "search" \/ "search" \in DOMAIN receipt

(* claim, AttemptWorkspace.__init__, and the work: a search puts the texts *)
(* it found, unless the blob is there already; a replayed search uses what *)
(* the patch archived.                                                     *)
Begin(a, t, list) ==
    LET input == IF t = "report" THEN disk["search"] ELSE Blank
        output == IF t = "report" THEN ReportOn[input] ELSE list
    IN
    /\ work[a].status = "none" /\ t \notin DOMAIN receipt /\ Ready(t)
    /\ \A b \in Active : work[b].task # t
    /\ work' = [work EXCEPT ![a] = [task |-> t, status |-> "running", at |-> "working",
                                    input |-> input, output |-> output]]
    /\ staging' = [staging EXCEPT ![a] = "here"]
    /\ blobs' = blobs \cup IF t = "search" THEN Mentions[output] ELSE {}
    /\ UNCHANGED <<disk, committed, receipt, archived>>

Advance(a, at) == work' = [work EXCEPT ![a].at = at]

(* validate_boundary: the workspace is whole, the input is the file still. *)
Untouched(a) ==
    /\ staging[a] = "here"
    /\ work[a].task = "report" => disk["search"] = work[a].input

Check(a) ==
    /\ work[a].at = "working"
    /\ IF Untouched(a) /\ (work[a].task = "search" => Mentions[work[a].output] \subseteq blobs)
       THEN Advance(a, "checked") ELSE Advance(a, "gone")
    /\ UNCHANGED <<staging, disk, committed, receipt, blobs, archived>>

PutOutput(a) ==
    /\ work[a].at = "checked"
    /\ IF staging[a] = "here"
       THEN blobs' = blobs \cup {work[a].output} /\ Advance(a, "put")
       ELSE UNCHANGED blobs /\ Advance(a, "gone")
    /\ UNCHANGED <<staging, disk, committed, receipt, archived>>

(* finish compares what was read with what is committed.                   *)
AnyInput(a) == TRUE

SameInput(a) == work[a].task = "report" => committed["search"] = work[a].input

CommitWork(a) ==
    LET t == work[a].task IN
    /\ work[a].at = "put"
    /\ IF work[a].status = "running" /\ SameInput(a)
       THEN /\ work' = [work EXCEPT ![a].status = "succeeded", ![a].at = "gone"]
            /\ committed' = [committed EXCEPT ![t] = work[a].output]
            /\ disk' = [disk EXCEPT ![t] = work[a].output]
            /\ receipt' = [u \in DOMAIN receipt \cup {t} |->
                              IF u = t THEN work[a].input ELSE receipt[u]]
            /\ archived' = archived \cup {work[a].output}
       ELSE Advance(a, "gone") /\ UNCHANGED <<committed, disk, receipt, archived>>
    /\ UNCHANGED <<staging, blobs>>

(* An expiry, a takeover, a cancellation or a failure of the attempt; its  *)
(* worker may not know, and may die at any time.                           *)
EndWork(a) ==
    /\ work[a].status = "running"
    /\ work' = [work EXCEPT ![a].status = "ended"]
    /\ UNCHANGED <<staging, disk, committed, receipt, blobs, archived>>

Die(a) ==
    /\ work[a].at \in {"working", "checked", "put"}
    /\ Advance(a, "gone")
    /\ UNCHANGED <<staging, disk, committed, receipt, blobs, archived>>

-----------------------------------------------------------------------------
(* The plan, the operator and the collector.                               *)

(* apply_patch: what depends on root goes as well; the previous manifest,  *)
(* with its digests, stays in the history.  Damage elsewhere refuses it.   *)
PatchWork(root) ==
    LET gone == IF root = "search" THEN WorkTasks ELSE {"report"} IN
    /\ Active = {} /\ gone \cap DOMAIN receipt # {}
    /\ \A t \in WorkTasks \ gone : disk[t] = committed[t]
    /\ committed' = [t \in WorkTasks |-> IF t \in gone THEN Blank ELSE committed[t]]
    /\ disk' = [t \in WorkTasks |-> IF t \in gone THEN Blank ELSE disk[t]]
    /\ receipt' = [t \in DOMAIN receipt \ gone |-> receipt[t]]
    /\ UNCHANGED <<work, staging, blobs, archived>>

EditFile(t, c) ==
    /\ disk' = [disk EXCEPT ![t] = c]
    /\ UNCHANGED <<work, staging, committed, receipt, blobs, archived>>

RebuildFiles ==
    /\ disk' = committed
    /\ UNCHANGED <<work, staging, committed, receipt, blobs, archived>>

Required == {committed[t] : t \in WorkTasks} \ {Blank}

(* What data names: the rows, their payloads, and what named blobs name.   *)
HoldsNamed(S) ==
    /\ Required \cup archived \subseteq S
    /\ \A c \in S \cap blobs : Mentions[c] \subseteq S

Reachable == {c \in Contents : \A S \in SUBSET Contents : HoldsNamed(S) => c \in S}

UnprotectedAlways == blobs \ Reachable

Unprotected == IF Active = {} THEN blobs \ Reachable ELSE {}

Abandoned == {a \in WorkAttempts : staging[a] = "here" /\ work[a].status # "running"}

(* Which of the candidates are old enough, and how many are moved before   *)
(* the process dies, is anybody's guess.                                   *)
Collect ==
    /\ Required \subseteq blobs
    /\ \E old \in SUBSET Unprotected, left \in SUBSET Abandoned :
        /\ old # {} \/ left # {}
        /\ blobs' = blobs \ old
        /\ staging' = [a \in WorkAttempts |->
                          IF a \in left THEN "quarantined" ELSE staging[a]]
    /\ UNCHANGED <<work, disk, committed, receipt, archived>>

WorkNext ==
    \/ \E a \in WorkAttempts :
        \/ \E t \in WorkTasks, list \in Lists : Begin(a, t, list)
        \/ Check(a)
        \/ PutOutput(a)
        \/ CommitWork(a)
        \/ EndWork(a)
        \/ Die(a)
    \/ \E t \in WorkTasks : PatchWork(t)
    \/ \E t \in WorkTasks, c \in Edits : EditFile(t, c)
    \/ RebuildFiles
    \/ Collect

WorkSpec == WorkInit /\ [][WorkNext]_workVars

-----------------------------------------------------------------------------
(* Properties.                                                             *)

(* Whatever the collector moved, the bytes that the database names, now or *)
(* in an archived manifest, are there with the texts they mention, and so  *)
(* are the workspace and the blobs of every attempt that may still commit. *)
NamedBytesSurvive ==
    /\ WorkTypeOK
    /\ Reachable \subseteq blobs
    /\ \A a \in Active :
        /\ staging[a] = "here"
        /\ work[a].task = "search" => Mentions[work[a].output] \subseteq blobs
        /\ work[a].at = "put" => work[a].output \in blobs

(* A committed result was made of committed input, although a worker reads *)
(* the run directory, which anybody edits, and does so before it commits.  *)
InputsAreCommitted ==
    "report" \in DOMAIN receipt =>
        receipt["report"] = committed["search"] /\ committed["search"] # Blank

(* Why they hold: a running attempt works for a task that has no result,   *)
(* a report after the search; a task is run by one attempt, and what it    *)
(* made of the input is known; what is committed has a receipt, and a      *)
(* committed report a committed search.                                    *)
OneRunner ==
    /\ \A a \in WorkAttempts : work[a].at # "none" => work[a].output \in Contents
    /\ \A a, b \in Active : work[a].task = work[b].task => a = b
    /\ \A a \in Active :
        /\ work[a].task \notin DOMAIN receipt /\ Ready(work[a].task)
        /\ IF work[a].task = "search" THEN work[a].output \in Lists
           ELSE work[a].output = ReportOn[work[a].input]

CommittedInOrder ==
    /\ committed["search"] \in Lists \cup {Blank}
    /\ \A t \in WorkTasks : t \in DOMAIN receipt <=> committed[t] # Blank
    /\ "report" \in DOMAIN receipt => "search" \in DOMAIN receipt

(* The inductive invariant.                                                *)
WorkInv == OneRunner /\ CommittedInOrder /\ NamedBytesSurvive /\ InputsAreCommitted
=============================================================================
