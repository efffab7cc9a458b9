------------------------------ MODULE Exports ------------------------------
(***************************************************************************)
(* The outbox between the database and the run directory: transactions     *)
(* queue files in file_projections, and any process that saves, loads or   *)
(* logs replays what is not acknowledged.  A flush holds the writer lock   *)
(* from its select to its commit, but the files it replaces change at      *)
(* once; a crash or an export error in between rolls the acknowledgements  *)
(* back and leaves the files.  Anybody may also write a file directly.     *)
(*                                                                         *)
(* The bytes of a projection are told apart by its generation.             *)
(***************************************************************************)
EXTENDS Naturals

CONSTANTS
    Paths,           \* paths that the run projects
    Log,             \* events.jsonl
    Processes,       \* processes that open the run
    Foreign,         \* bytes that no projection wrote
    MaxGeneration    \* bound of the generations

ASSUME LogAssumption == Log \in Paths
ASSUME ForeignAssumption == Foreign \notin Nat
ASSUME BoundAssumption == MaxGeneration \in Nat

VARIABLES
    generation,   \* file_projections.generation
    exported,     \* file_projections.exported_generation
    file,         \* the generation whose bytes the file holds, or Foreign
    flushing,     \* the processes whose flush transaction is open
    rows,         \* the rows each of them selected and has not exported
    acked         \* the paths each of them acknowledged, uncommitted

vars == <<generation, exported, file, flushing, rows, acked>>

Row == [path : Paths, generation : Nat]

TypeOK ==
    /\ generation \in [Paths -> Nat]
    /\ exported \in [Paths -> Nat]
    /\ file \in [Paths -> Nat \cup {Foreign}]
    /\ flushing \subseteq Processes
    /\ rows \in [Processes -> SUBSET Row]
    /\ acked \in [Processes -> SUBSET Paths]
    /\ \A p \in Processes \ flushing : rows[p] = {} /\ acked[p] = {}

(* scaffold touches every file and projects it once.                       *)
Init ==
    /\ generation = [x \in Paths |-> 1]
    /\ exported = [x \in Paths |-> 0]
    /\ file = [x \in Paths |-> 0]
    /\ flushing = {}
    /\ rows = [p \in Processes |-> {}]
    /\ acked = [p \in Processes |-> {}]

(* BEGIN IMMEDIATE waits for the transaction of a flush.                   *)
LockIgnored == TRUE

LockFree == flushing = {}

Queue(S) ==
    /\ \A x \in S : generation[x] < MaxGeneration
    /\ generation' = [x \in Paths |-> IF x \in S THEN generation[x] + 1
                                                 ELSE generation[x]]

(* A transaction that projects the paths of S.                             *)
Project(S) ==
    /\ LockFree
    /\ S # {}
    /\ Queue(S)
    /\ UNCHANGED <<exported, file, flushing, rows, acked>>

Unacknowledged == {x \in Paths : generation[x] > exported[x]}

Damaged == {x \in Paths : generation[x] > exported[x] \/ file[x] = Foreign}

(* The rows a flush selects.                                               *)
SelectDamaged == Damaged

Selected == Unacknowledged

BeginFlush(p) ==
    /\ LockFree
    /\ p \notin flushing
    /\ flushing' = flushing \cup {p}
    /\ rows' = [rows EXCEPT ![p] =
                  {[path |-> x, generation |-> generation[x]] : x \in Selected}]
    /\ UNCHANGED <<generation, exported, file, acked>>

(* One row: os.replace puts its bytes in place, the path is acknowledged.  *)
Export(p, row) ==
    /\ row \in rows[p]
    /\ file' = [file EXCEPT ![row.path] = row.generation]
    /\ rows' = [rows EXCEPT ![p] = @ \ {row}]
    /\ acked' = [acked EXCEPT ![p] = @ \cup {row.path}]
    /\ UNCHANGED <<generation, exported, flushing>>

EndTransaction(p) ==
    /\ flushing' = flushing \ {p}
    /\ rows' = [rows EXCEPT ![p] = {}]
    /\ acked' = [acked EXCEPT ![p] = {}]

CommitFlush(p) ==
    /\ p \in flushing
    /\ rows[p] = {}
    /\ exported' = [x \in Paths |-> IF x \in acked[p] THEN generation[x] ELSE exported[x]]
    /\ EndTransaction(p)
    /\ UNCHANGED <<generation, file>>

(* The process dies, or an export raises: the transaction is rolled back.  *)
AcknowledgeSelected(p) ==
    exported' = [x \in Paths |-> IF x \in acked[p] \cup {row.path : row \in rows[p]}
                                 THEN generation[x] ELSE exported[x]]

Rollback(p) == UNCHANGED exported

AbortFlush(p) ==
    /\ p \in flushing
    /\ Rollback(p)
    /\ EndTransaction(p)
    /\ UNCHANGED <<generation, file>>

(* rebuild_projections: a logged request that forgets every                *)
(* acknowledgement.                                                        *)
Rebuild ==
    /\ LockFree
    /\ Queue({Log})
    /\ exported' = [x \in Paths |-> 0]
    /\ UNCHANGED <<file, flushing, rows, acked>>

(* A file is written around the database: write_text, or anybody.          *)
WriteFile(x) ==
    /\ file' = [file EXCEPT ![x] = Foreign]
    /\ UNCHANGED <<generation, exported, flushing, rows, acked>>

Next ==
    \/ \E S \in SUBSET Paths : Project(S)
    \/ \E p \in Processes : BeginFlush(p)
    \/ \E p \in Processes : \E row \in rows[p] : Export(p, row)
    \/ \E p \in Processes : CommitFlush(p)
    \/ \E p \in Processes : AbortFlush(p)
    \/ Rebuild
    \/ \E x \in Paths : WriteFile(x)

Spec == Init /\ [][Next]_vars

-----------------------------------------------------------------------------
(* Properties.                                                             *)

(* What the database takes as exported is on disk: an acknowledged file    *)
(* holds its newest generation, unless somebody wrote it since.  No crash  *)
(* between a replace and a commit, no rebuild and no second exporter       *)
(* leaves an older file behind an acknowledgement.                         *)
AcknowledgedIsOnDisk ==
    \A x \in Paths : exported[x] = generation[x] => file[x] \in {generation[x], Foreign}

(* An older exporter never overwrites a newer generation.                  *)
NeverOlder ==
    [][\A x \in Paths : file[x] # Foreign /\ file'[x] # Foreign => file'[x] >= file[x]]_vars

(* Acknowledged tampering stays visible: a flush does not repair a file    *)
(* that was changed after its acknowledgement; only a new projection or a  *)
(* requested rebuild lets it be written again.                             *)
TamperingStaysVisible ==
    [][\A x \in Paths :
          file[x] = Foreign /\ exported[x] = generation[x] => file'[x] = Foreign]_vars

(* What AcknowledgedIsOnDisk rests on: one flush at a time, nothing is     *)
(* acknowledged ahead of its generation, and within a flush the rows it    *)
(* selected are the newest and those it acknowledged were written.         *)
FlushLog ==
    /\ \A x \in Paths : exported[x] <= generation[x]
    /\ \A x \in Paths : file[x] # Foreign => file[x] <= generation[x]
    /\ \A p, q \in flushing : p = q
    /\ \A p \in Processes :
          /\ \A x \in acked[p] : file[x] \in {generation[x], Foreign}
          /\ \A row \in rows[p] : /\ row.generation = generation[row.path]
                                  /\ exported[row.path] < row.generation

ExportsIInv == TypeOK /\ FlushLog /\ AcknowledgedIsOnDisk
=============================================================================
