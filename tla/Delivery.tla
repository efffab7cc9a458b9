------------------------------ MODULE Delivery ------------------------------
(***************************************************************************)
(* The delivery of one run: processes that execute its plan, seal it,      *)
(* verify it or resume it, while tasks commit, an operator cancels the run *)
(* or patches its plan, and anybody edits the files of the run directory,  *)
(* delivery-manifest.json, which no hash protects, included.               *)
(*                                                                         *)
(* A process loads the manifest, reads the files, looks up the committed   *)
(* tasks and saves what it concluded.  store.save_manifest rejects what is *)
(* based on a manifest that is not the latest: latest is the set of        *)
(* processes whose manifest is, and stands for the state_revision of       *)
(* TaskLeases; a save that passes changes the stored manifest itself.  The *)
(* exports of a transaction are flushed with it (Exports has the gap).     *)
(*                                                                         *)
(* The sources, spans, claims and report together are one content: Sound   *)
(* tells whether it passes the gates that need nothing else.               *)
(***************************************************************************)
EXTENDS Naturals

CONSTANTS
    Processes,   \* processes that open the run
    Contents,    \* what the files that a delivery reads may hold
    Sound,       \* the contents that pass every gate
    Empty,       \* nothing yet
    ReportOf,    \* the report in each content
    Edits,       \* what somebody may write into delivery-manifest.json
    MaxPlan      \* bound: plan revisions

ASSUME SoundAssumption == Sound \subseteq Contents
ASSUME EmptyAssumption == Empty \notin Contents
ASSUME MaxPlanAssumption == MaxPlan \in Nat

VARIABLES
    manifest,    \* the payload of the run, as far as a delivery reads it
    committed,   \* every task of the bound plan has a verified receipt
    projected,   \* the content of the last commits
    delivery,    \* the committed delivery-manifest.json
    disk,        \* the content of the run directory
    published,   \* delivery-manifest.json in the run directory
    pc,          \* where each process is
    mode,        \* the command it executes
    check,       \* what it loaded, captured and concluded
    latest       \* the processes whose manifest is the stored one

stored == <<manifest, committed, projected, delivery>>
files == <<disk, published>>
local == <<pc, mode, check>>
vars == <<stored, files, local, latest>>

Statuses == {"pending", "running", "succeeded", "failed", "cancelled"}
Seals == {"none", "eligible", "ineligible"}
Modes == {"run", "seal", "verify"}
Content == Contents \cup {Empty}
Plans == 0..MaxPlan

Manifest == [status : Statuses, plan : Plans, seal : Seals, hashes : Content]

(* own: seal_delivery wrote it, or a revocation marked what it wrote.      *)
DeliveryRecord ==
    [complete : BOOLEAN, own : BOOLEAN, plan : Plans, content : Content]

(* An empty delivery-manifest.json, and one that does not parse.           *)
NoDelivery == [complete |-> FALSE, own |-> TRUE]

Unreadable == [complete |-> FALSE, own |-> FALSE]

ASSUME EditsAssumption ==
    Edits \subseteq {NoDelivery, Unreadable} \cup {d \in DeliveryRecord : ~d.own}

Check == [status : Statuses, bound : Plans, plan : Plans, content : Content, ok : BOOLEAN]

Phases == {"idle", "replaying", "working", "reading", "judging", "comparing",
           "gating", "publishing", "rechecking", "withdrawing", "unmarking",
           "hashing", "saving", "refusing", "revoking"}

NoCheck ==
    [status |-> "pending", bound |-> 0, plan |-> 0, content |-> Empty, ok |-> FALSE]

TypeOK ==
    /\ manifest \in Manifest
    /\ committed \in BOOLEAN
    /\ projected \in Content
    /\ delivery \in DeliveryRecord \cup {NoDelivery}
    /\ disk \in Content
    /\ published \in DeliveryRecord \cup {NoDelivery, Unreadable}
    /\ pc \in [Processes -> Phases]
    /\ mode \in [Processes -> Modes]
    /\ check \in [Processes -> Check]
    /\ latest \subseteq Processes
    /\ \A p \in Processes : pc[p] = "idle" => check[p] = NoCheck

(* A run that prepare_run_dir created and nobody executed.                 *)
Init ==
    /\ manifest = [status |-> "pending", plan |-> 0, seal |-> "none", hashes |-> Empty]
    /\ committed = FALSE
    /\ projected = Empty
    /\ delivery = NoDelivery
    /\ disk = Empty
    /\ published = NoDelivery
    /\ pc = [p \in Processes |-> "idle"]
    /\ mode = [p \in Processes |-> "verify"]
    /\ check = [p \in Processes |-> NoCheck]
    /\ latest = {}

-----------------------------------------------------------------------------
(* Loads, saves and conflicts.                                             *)

Goto(p, phase) == pc' = [pc EXCEPT ![p] = phase]

(* The process ends, with what it remembered.                              *)
Forget(p) ==
    /\ Goto(p, "idle")
    /\ mode' = [mode EXCEPT ![p] = "verify"]
    /\ check' = [check EXCEPT ![p] = NoCheck]

Exit(p) ==
    /\ Forget(p)
    /\ latest' = latest \ {p}

(* Every copy of the manifest but those of S is outdated by a change.      *)
Store(m, S) ==
    /\ manifest' = m
    /\ latest' = S

AnyCopy(p) == TRUE

MaySave(p) == p \in latest

(* StateConflict, which nobody catches.                                    *)
Conflict(p, phase) ==
    /\ pc[p] = phase
    /\ ~MaySave(p)
    /\ Exit(p)
    /\ UNCHANGED <<stored, files>>

Loaded(m) == [NoCheck EXCEPT !.status = m.status, !.bound = m.plan]

-----------------------------------------------------------------------------
(* What verify_hashes, verify_snapshot and verify_delivery conclude.       *)

Intact == manifest.hashes # Empty => manifest.hashes = disk

(* The gates: the run is not cancelled, the plan captured is the one the   *)
(* manifest binds, its tasks are committed, and the content is sound.      *)
IgnoresReceipts(c, done) ==
    c.status # "cancelled" /\ c.plan = c.bound /\ c.content \in Sound

Passes(c, done) ==
    /\ c.status # "cancelled"
    /\ c.plan = c.bound
    /\ done
    /\ c.content \in Sound

(* verify_delivery by somebody whom nobody disturbs.                       *)
SealIgnored(m) == TRUE

SealIsBinding(m) == m.seal # "ineligible"

Deliverable ==
    /\ published.complete
    /\ SealIsBinding(manifest)
    /\ ReportOf[disk] = ReportOf[published.content]
    /\ Intact
    /\ Passes([Loaded(manifest) EXCEPT !.plan = manifest.plan, !.content = disk],
              committed)

-----------------------------------------------------------------------------
(* Others: kernels that commit tasks, the operator, the file system.       *)

(* The last finish of a plan, with those before it: the outputs of the     *)
(* tasks replace the files of the directory.                               *)
Commit(c) ==
    /\ ~committed
    /\ manifest.status # "cancelled"
    /\ Store([manifest EXCEPT !.hashes = c], {})
    /\ committed' = TRUE
    /\ projected' = c
    /\ disk' = c
    /\ UNCHANGED <<delivery, published, local>>

WithSealRevoked(m) == [m EXCEPT !.seal = "ineligible"]

CancelRun ==
    /\ Store([WithSealRevoked(manifest) EXCEPT !.status = "cancelled"], {})
    /\ UNCHANGED <<committed, projected, delivery, files, local>>

(* A patch that invalidates tasks empties their outputs and leaves them to *)
(* be executed; another one may add tasks, and refuses edited files.       *)
ApplyPatch(invalidates, adds) ==
    LET kept(c) == IF invalidates THEN Empty ELSE c
    IN  /\ manifest.status # "cancelled"
        /\ manifest.plan < MaxPlan
        /\ ~invalidates => Intact
        /\ Store([WithSealRevoked(manifest) EXCEPT
                    !.status = "pending", !.plan = @ + 1, !.hashes = kept(@)], {})
        /\ committed' = (committed /\ ~invalidates /\ ~adds)
        /\ projected' = kept(projected)
        /\ disk' = kept(disk)
        /\ UNCHANGED <<delivery, published, local>>

(* A change of a file that the database does not see.                      *)
Edit(c) ==
    /\ disk' = c
    /\ UNCHANGED <<stored, published, local, latest>>

(* delivery-manifest.json is emptied, damaged, or written with any verdict *)
(* and any file.                                                           *)
EditDelivery(d) ==
    /\ published' = d
    /\ UNCHANGED <<stored, disk, local, latest>>

(* recover-exports                                                         *)
RebuildExports ==
    /\ disk' = projected
    /\ published' = delivery
    /\ UNCHANGED <<stored, local, latest>>

-----------------------------------------------------------------------------
(* The beginning of each command.  Two loads or a load and a save with     *)
(* nothing between them are one step: what another process commits between *)
(* them makes the save fail, as what it commits after them does.           *)

Begin(p, command) ==
    /\ pc[p] = "idle"
    /\ mode' = [mode EXCEPT ![p] = command]
    /\ check' = [check EXCEPT ![p] = Loaded(manifest)]
    /\ latest' = latest \cup {p}
    /\ Goto(p, "reading")
    /\ UNCHANGED <<stored, files>>

(* What resume_run takes for a fully published run.                        *)
Finished ==
    committed /\ manifest.status = "succeeded" /\ published # NoDelivery

(* Such a run is only verified again.  Edited files are refused.           *)
Replay(p) ==
    /\ pc[p] = "idle"
    /\ Intact
    /\ Finished
    /\ mode' = [mode EXCEPT ![p] = "run"]
    /\ Goto(p, "replaying")
    /\ UNCHANGED <<stored, files, check, latest>>

EndReplay(p) ==
    /\ pc[p] = "replaying"
    /\ Exit(p)
    /\ UNCHANGED <<stored, files>>

(* Another run is executed, unless it is cancelled.                        *)
Resume(p) ==
    /\ pc[p] = "idle"
    /\ Intact
    /\ ~Finished
    /\ manifest.status # "cancelled"
    /\ Store([manifest EXCEPT !.status = "running"], {p})
    /\ mode' = [mode EXCEPT ![p] = "run"]
    /\ check' = [check EXCEPT ![p] = Loaded(manifest)]
    /\ Goto(p, "working")
    /\ UNCHANGED <<committed, projected, delivery, files>>

(* The scheduler returned: the outcome and the hashes of the files, unless *)
(* another plan was bound meanwhile.                                       *)
Outcome ==
    IF manifest.status = "cancelled" THEN "cancelled"
    ELSE IF committed THEN "succeeded" ELSE "failed"

FinishSchedule(p) ==
    /\ pc[p] = "working"
    /\ IF check[p].bound = manifest.plan
         THEN /\ Store([manifest EXCEPT !.status = Outcome, !.hashes = disk], {p})
              /\ check' = [check EXCEPT ![p].status = Outcome]
              /\ Goto(p, "reading")
              /\ UNCHANGED mode
         ELSE Exit(p) /\ UNCHANGED manifest
    /\ UNCHANGED <<committed, projected, delivery, files>>

-----------------------------------------------------------------------------
(* verify_snapshot                                                         *)

(* The bytes of plan.json and of the other files.                          *)
Capture(p) ==
    /\ pc[p] = "reading"
    /\ check' = [check EXCEPT ![p].plan = manifest.plan, ![p].content = disk]
    /\ Goto(p, "judging")
    /\ UNCHANGED <<stored, files, mode, latest>>

(* The committed tasks, and the verdict: only that is needed further on.   *)
Verdict(c, ok) == [NoCheck EXCEPT !.plan = c.plan, !.content = c.content, !.ok = ok]

Judge(p) ==
    LET ok == Passes(check[p], committed)
    IN  /\ pc[p] = "judging"
        /\ IF mode[p] = "verify" /\ ok
             THEN Exit(p)
             ELSE /\ check' = [check EXCEPT ![p] =
                                 IF ok \/ mode[p] = "run" THEN Verdict(@, ok) ELSE NoCheck]
                  /\ Goto(p, IF mode[p] = "run" THEN "gating"
                             ELSE IF ok THEN "comparing" ELSE "refusing")
                  /\ UNCHANGED <<mode, latest>>
        /\ UNCHANGED <<stored, files>>

-----------------------------------------------------------------------------
(* Publication.                                                            *)

Unchanged(p) == check[p].content = disk

(* cmd_seal compares the files with those it verified.                     *)
Compare(p) ==
    /\ pc[p] = "comparing"
    /\ IF Unchanged(p)
         THEN Goto(p, "publishing") /\ UNCHANGED check
         ELSE Goto(p, "refusing") /\ check' = [check EXCEPT ![p] = NoCheck]
    /\ UNCHANGED <<stored, files, mode, latest>>

(* execute_plan saves the verdict as the integrity gate of the manifest.   *)
SaveGate(p) ==
    /\ pc[p] = "gating"
    /\ MaySave(p)
    /\ Store(manifest, {p})
    /\ Goto(p, "publishing")
    /\ UNCHANGED <<committed, projected, delivery, files, mode, check>>

(* Whether the delivery manifest is complete: cmd_seal publishes only what *)
(* passed, and the gates that a run recorded may fail besides.             *)
Completeness(p) == IF mode[p] = "seal" THEN {TRUE} ELSE {check[p].ok, FALSE}

(* seal_delivery commits the seal and the delivery manifest together.      *)
Publish(p) ==
    /\ pc[p] = "publishing"
    /\ MaySave(p)
    /\ \E complete \in Completeness(p) :
          /\ Store([manifest EXCEPT
                      !.seal = IF complete THEN "eligible" ELSE "ineligible"], {p})
          /\ delivery' = [complete |-> complete, own |-> TRUE,
                          plan |-> check[p].plan, content |-> check[p].content]
    /\ published' = delivery'
    /\ Goto(p, "rechecking")
    /\ UNCHANGED <<committed, projected, disk, mode, check>>

Recheck(p) ==
    /\ pc[p] = "rechecking"
    /\ Goto(p, IF Unchanged(p) THEN "hashing" ELSE "withdrawing")
    /\ UNCHANGED <<stored, files, mode, check, latest>>

(* The files changed meanwhile: cmd_seal saves the seal as not eligible    *)
(* and revokes the delivery, execute_plan saves its integrity gate.        *)
Withdraw(p) ==
    /\ pc[p] = "withdrawing"
    /\ MaySave(p)
    /\ check' = [check EXCEPT ![p] = NoCheck]
    /\ IF mode[p] = "seal"
         THEN Store(WithSealRevoked(manifest), {p}) /\ Goto(p, "refusing")
         ELSE Store(manifest, {p}) /\ Goto(p, "unmarking")
    /\ UNCHANGED <<committed, projected, delivery, files, mode>>

Readable == published \notin {NoDelivery, Unreadable}

(* execute_plan then marks the delivery manifest it finds in the           *)
(* directory, past the database, or fails if it cannot read it.            *)
Unmark(p) ==
    /\ pc[p] = "unmarking"
    /\ IF Readable
         THEN /\ published' = [published EXCEPT !.complete = FALSE]
              /\ Goto(p, "hashing")
              /\ UNCHANGED <<mode, check, latest>>
         ELSE Exit(p) /\ UNCHANGED published
    /\ UNCHANGED <<stored, disk>>

(* _sealable_hashes, for the last save.                                    *)
HashFiles(p) ==
    /\ pc[p] = "hashing"
    /\ check' = [check EXCEPT ![p] = [NoCheck EXCEPT !.content = disk]]
    /\ Goto(p, "saving")
    /\ UNCHANGED <<stored, files, mode, latest>>

SaveHashes(p) ==
    /\ pc[p] = "saving"
    /\ MaySave(p)
    /\ manifest' = [manifest EXCEPT
                      !.hashes = check[p].content,
                      !.seal = IF mode[p] = "seal" THEN "eligible" ELSE @]
    /\ latest' = {}
    /\ Forget(p)
    /\ UNCHANGED <<committed, projected, delivery, files>>

-----------------------------------------------------------------------------
(* revoke_delivery loads the manifest again, marks the delivery manifest   *)
(* it finds in the directory, if it can read it, and commits both.         *)

BeginRevoke(p) ==
    /\ pc[p] = "refusing"
    /\ latest' = latest \cup {p}
    /\ Goto(p, "revoking")
    /\ UNCHANGED <<stored, files, mode, check>>

Revoke(p) ==
    /\ pc[p] = "revoking"
    /\ MaySave(p)
    /\ manifest' = WithSealRevoked(manifest)
    /\ latest' = {}
    /\ IF Readable
         THEN /\ published' = [published EXCEPT !.complete = FALSE]
              /\ delivery' = published'
         ELSE UNCHANGED <<delivery, published>>
    /\ Forget(p)
    /\ UNCHANGED <<committed, projected, disk>>

(* The process is killed.                                                  *)
Crash(p) ==
    /\ pc[p] # "idle"
    /\ Exit(p)
    /\ UNCHANGED <<stored, files>>

-----------------------------------------------------------------------------
Step(p) ==
    \/ Begin(p, "seal")
    \/ Begin(p, "verify")
    \/ Replay(p)
    \/ EndReplay(p)
    \/ Resume(p)
    \/ FinishSchedule(p)
    \/ Capture(p)
    \/ Judge(p)
    \/ Compare(p)
    \/ SaveGate(p)
    \/ Publish(p)
    \/ Recheck(p)
    \/ Withdraw(p)
    \/ Unmark(p)
    \/ HashFiles(p)
    \/ SaveHashes(p)
    \/ BeginRevoke(p)
    \/ Revoke(p)
    \/ \E phase \in {"gating", "publishing", "withdrawing", "saving", "revoking"} :
          Conflict(p, phase)
    \/ Crash(p)

Environment ==
    \/ \E c \in Contents : Commit(c)
    \/ CancelRun
    \/ \E invalidates, adds \in BOOLEAN : ApplyPatch(invalidates, adds)
    \/ \E c \in Contents : Edit(c)
    \/ \E d \in Edits : EditDelivery(d)
    \/ RebuildExports

Next == (\E p \in Processes : Step(p)) \/ Environment

Spec == Init /\ [][Next]_vars

-----------------------------------------------------------------------------
(* Properties.                                                             *)

(* A cancellation revokes the delivery for good: no process that verified  *)
(* before it, however far it came, makes the seal eligible afterwards.     *)
CancelledIsRevoked == manifest.status = "cancelled" => manifest.seal # "eligible"

(* An eligible seal was given to the plan that is bound now, whose tasks   *)
(* are all committed, and the delivery manifest committed with it names    *)
(* files that passed every gate.  Patches, cancellations, revocations and  *)
(* publications by others between the verification and the seal, edits     *)
(* and crashes do not break this.                                          *)
EligibleIsVerified ==
    manifest.seal = "eligible" =>
        /\ committed
        /\ delivery.complete
        /\ delivery.plan = manifest.plan
        /\ delivery.content \in Sound

(* Whatever is written into delivery-manifest.json, which verify_delivery  *)
(* reads past the database, a delivery that was revoked, withdrawn,        *)
(* cancelled or overtaken by a patch is not accepted before it is sealed   *)
(* again, and an older or rebuilt file counts only if it is the committed  *)
(* one.  Without an eligible seal an edited file is accepted in one case:  *)
(* a run nobody published, patched or revoked, whose gates pass.           *)
DeliverableIsSealed ==
    Deliverable =>
        \/ manifest.seal = "eligible" /\ (published.own => published = delivery)
        \/ /\ manifest.seal = "none"
           /\ ~published.own
           /\ delivery = NoDelivery
           /\ manifest.plan = 0

(* What keeps these properties, for the proofs: what a process whose       *)
(* manifest is the stored one knows about it at each phase.                *)
Informed(p) ==
    /\ pc[p] \in {"reading", "judging"} =>
          check[p].status = manifest.status /\ check[p].bound = manifest.plan
    /\ pc[p] \in {"comparing", "gating", "publishing"} /\ check[p].ok =>
          /\ manifest.status # "cancelled"
          /\ committed
          /\ check[p].plan = manifest.plan
          /\ check[p].content \in Sound
    /\ pc[p] \in {"rechecking", "hashing", "saving"} /\ mode[p] = "seal" =>
          manifest.seal = "eligible"

(* cmd_seal publishes only what passed, and leaves gates to execute_plan.  *)
Passed(p) ==
    mode[p] = "seal" =>
        /\ pc[p] \notin {"gating", "unmarking"}
        /\ pc[p] \in {"comparing", "publishing"} => check[p].ok

(* A complete delivery manifest in the directory that nobody edited is the *)
(* committed one.  A run without a seal was neither published nor patched. *)
OneDelivery ==
    /\ published.complete /\ published.own => published = delivery
    /\ manifest.seal = "none" => delivery = NoDelivery /\ manifest.plan = 0

DeliveryIInv ==
    /\ TypeOK
    /\ CancelledIsRevoked
    /\ EligibleIsVerified
    /\ OneDelivery
    /\ \A p \in Processes : Passed(p)
    /\ \A p \in latest : Informed(p)

(* When nobody else is publishing, resume_run replays a run as published   *)
(* only if the bound plan was, unless the delivery manifest was edited: a  *)
(* publication that was interrupted before its transaction is finalized.   *)
ReplayedIsPublished ==
    [][(\A p \in Processes : pc[p] = "idle") /\ (\E p \in Processes : pc'[p] = "replaying")
          => (published.own => published.plan = manifest.plan)]_vars

=============================================================================
