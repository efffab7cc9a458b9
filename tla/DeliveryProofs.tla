--------------------------- MODULE DeliveryProofs ---------------------------
(* A seal stays what it promises for every set of processes and contents.  *)
EXTENDS Delivery, TLAPS

LEMMA NoCheckType == NoCheck \in Check
  BY MaxPlanAssumption DEF NoCheck, Check, Statuses, Plans, Content

LEMMA DeliveryInvInit == Init => DeliveryIInv
  <1> SUFFICES ASSUME Init
               PROVE  DeliveryIInv
    OBVIOUS
  <1>1. manifest \in Manifest
    BY MaxPlanAssumption DEF Init, Manifest, Statuses, Plans, Seals, Content
  <1>2. TypeOK
    BY <1>1, NoCheckType DEF Init, TypeOK, Content, Phases, Modes
  <1>3. CancelledIsRevoked /\ EligibleIsVerified /\ OneDelivery
    BY DEF Init, CancelledIsRevoked, EligibleIsVerified, OneDelivery, NoDelivery
  <1>4. \A p \in Processes : Passed(p)
    BY DEF Init, Passed
  <1>5. latest = {}
    BY DEF Init
  <1> QED
    BY <1>2, <1>3, <1>4, <1>5 DEF DeliveryIInv

(* A step that leaves what is stored and the deliveries alone keeps the    *)
(* invariant if it types what it changes and tells the process no lie.     *)
LEMMA LocalKeeps ==
    ASSUME DeliveryIInv, NEW p \in Processes,
           UNCHANGED <<stored, published>>, disk' \in Content,
           \A q \in Processes \ {p} :
              pc'[q] = pc[q] /\ mode'[q] = mode[q] /\ check'[q] = check[q],
           pc' \in [Processes -> Phases],
           mode' \in [Processes -> Modes],
           check' \in [Processes -> Check],
           pc'[p] = "idle" => check'[p] = NoCheck,
           latest' \subseteq latest \cup {p},
           Passed(p)',
           p \in latest' => Informed(p)'
    PROVE  DeliveryIInv'
  <1> USE DEF DeliveryIInv
  <1>1. TypeOK'
    BY DEF TypeOK, stored
  <1>2. CancelledIsRevoked' /\ EligibleIsVerified' /\ OneDelivery'
    BY DEF CancelledIsRevoked, EligibleIsVerified, OneDelivery, stored
  <1>3. \A q \in Processes : Passed(q)'
    BY DEF Passed
  <1>4. \A q \in latest' : Informed(q)'
    <2> SUFFICES ASSUME NEW q \in latest', q # p
                 PROVE  Informed(q)'
      OBVIOUS
    <2>1. q \in latest /\ q \in Processes
      BY DEF TypeOK
    <2>2. Informed(q)
      BY <2>1
    <2> QED
      BY <2>1, <2>2 DEF Informed, stored
  <1> QED
    BY <1>1, <1>2, <1>3, <1>4

(* So does a transaction: it outdates every manifest but that of p, if it  *)
(* keeps what the store promises.                                          *)
LEMMA SaveKeeps ==
    ASSUME DeliveryIInv, NEW p \in Processes,
           manifest' \in Manifest, committed' \in BOOLEAN, projected' \in Content,
           disk' \in Content,
           delivery' \in DeliveryRecord \cup {NoDelivery},
           published' \in DeliveryRecord \cup {NoDelivery, Unreadable},
           CancelledIsRevoked', EligibleIsVerified', OneDelivery',
           \A q \in Processes \ {p} :
              pc'[q] = pc[q] /\ mode'[q] = mode[q] /\ check'[q] = check[q],
           pc' \in [Processes -> Phases],
           mode' \in [Processes -> Modes],
           check' \in [Processes -> Check],
           pc'[p] = "idle" => check'[p] = NoCheck,
           latest' \subseteq {p},
           Passed(p)',
           p \in latest' => Informed(p)'
    PROVE  DeliveryIInv'
  <1> USE DEF DeliveryIInv
  <1>1. TypeOK'
    BY DEF TypeOK
  <1>2. \A q \in Processes : Passed(q)'
    BY DEF Passed
  <1> QED
    BY <1>1, <1>2

(* Nobody's copy survives what the environment commits.                    *)
LEMMA OutdatingKeeps ==
    ASSUME DeliveryIInv,
           manifest' \in Manifest, committed' \in BOOLEAN, projected' \in Content,
           disk' \in Content,
           delivery' \in DeliveryRecord \cup {NoDelivery},
           published' \in DeliveryRecord \cup {NoDelivery, Unreadable},
           CancelledIsRevoked', EligibleIsVerified', OneDelivery',
           UNCHANGED local, latest' = {}
    PROVE  DeliveryIInv'
  <1> USE DEF DeliveryIInv
  <1>1. TypeOK'
    BY DEF TypeOK, local
  <1>2. \A q \in Processes : Passed(q)'
    BY DEF Passed, local
  <1> QED
    BY <1>1, <1>2

(* A process that ends leaves nothing behind.                              *)
LEMMA ForgetTypes ==
    ASSUME TypeOK, NEW p \in Processes, Forget(p)
    PROVE  /\ pc' \in [Processes -> Phases] /\ pc'[p] = "idle"
           /\ mode' \in [Processes -> Modes]
           /\ check' \in [Processes -> Check] /\ check'[p] = NoCheck
           /\ \A q \in Processes \ {p} :
                 pc'[q] = pc[q] /\ mode'[q] = mode[q] /\ check'[q] = check[q]
           /\ Passed(p)'
           /\ Informed(p)'
  <1>1. pc' \in [Processes -> Phases] /\ pc'[p] = "idle"
    BY DEF TypeOK, Forget, Goto, Phases
  <1>2. mode' \in [Processes -> Modes]
    BY DEF TypeOK, Forget, Modes
  <1>3. check' \in [Processes -> Check] /\ check'[p] = NoCheck
    BY NoCheckType DEF TypeOK, Forget
  <1> QED
    BY <1>1, <1>2, <1>3 DEF Forget, Goto, TypeOK, Passed, Informed

LEMMA ExitKeeps ==
    ASSUME DeliveryIInv, NEW p \in Processes, Exit(p), UNCHANGED <<stored, files>>
    PROVE  DeliveryIInv'
  <1>1. TypeOK /\ Forget(p) /\ latest' = latest \ {p}
    BY DEF DeliveryIInv, Exit
  <1>2. UNCHANGED <<stored, published>> /\ disk' \in Content
    BY <1>1 DEF TypeOK, files
  <1> QED
    BY <1>1, <1>2, ForgetTypes, LocalKeeps

-----------------------------------------------------------------------------
(* The environment.                                                        *)

LEMMA CommitKeeps ==
    ASSUME DeliveryIInv, NEW c \in Contents, Commit(c)
    PROVE  DeliveryIInv'
  <1> USE DEF DeliveryIInv
  <1>1. /\ ~committed
        /\ manifest' = [manifest EXCEPT !.hashes = c] /\ latest' = {}
        /\ committed' = TRUE /\ projected' = c /\ disk' = c
        /\ UNCHANGED <<delivery, published, local>>
    BY DEF Commit, Store
  <1>2. /\ manifest' \in Manifest /\ c \in Content
        /\ manifest'.seal = manifest.seal /\ manifest'.status = manifest.status
        /\ manifest'.plan = manifest.plan
    BY <1>1 DEF TypeOK, Manifest, Content
  <1>3. CancelledIsRevoked' /\ EligibleIsVerified' /\ OneDelivery'
    BY <1>1, <1>2 DEF CancelledIsRevoked, EligibleIsVerified, OneDelivery
  <1> QED
    BY <1>1, <1>2, <1>3, OutdatingKeeps DEF TypeOK

LEMMA CancelKeeps ==
    ASSUME DeliveryIInv, CancelRun
    PROVE  DeliveryIInv'
  <1> USE DEF DeliveryIInv
  <1>1. /\ manifest' = [manifest EXCEPT !.seal = "ineligible", !.status = "cancelled"]
        /\ latest' = {}
        /\ UNCHANGED <<committed, projected, delivery, files, local>>
    BY DEF CancelRun, Store, WithSealRevoked, TypeOK, Manifest
  <1>2. /\ manifest' \in Manifest /\ manifest'.seal = "ineligible"
    BY <1>1 DEF TypeOK, Manifest, Statuses, Seals
  <1>3. CancelledIsRevoked' /\ EligibleIsVerified' /\ OneDelivery'
    BY <1>1, <1>2 DEF CancelledIsRevoked, EligibleIsVerified, OneDelivery, files
  <1> QED
    BY <1>1, <1>2, <1>3, OutdatingKeeps DEF TypeOK, files

LEMMA PatchKeeps ==
    ASSUME DeliveryIInv, NEW invalidates \in BOOLEAN, NEW adds \in BOOLEAN,
           ApplyPatch(invalidates, adds)
    PROVE  DeliveryIInv'
  <1> USE DEF DeliveryIInv
  <1> DEFINE kept(c) == IF invalidates THEN Empty ELSE c
  <1>1. /\ manifest.plan < MaxPlan
        /\ manifest' = [manifest EXCEPT !.seal = "ineligible", !.status = "pending",
                                        !.plan = manifest.plan + 1,
                                        !.hashes = kept(manifest.hashes)]
        /\ latest' = {}
        /\ committed' = (committed /\ ~invalidates /\ ~adds)
        /\ projected' = kept(projected) /\ disk' = kept(disk)
        /\ UNCHANGED <<delivery, published, local>>
    BY DEF ApplyPatch, Store, WithSealRevoked, TypeOK, Manifest
  <1>2. manifest.plan + 1 \in Plans /\ kept(manifest.hashes) \in Content
    BY <1>1, MaxPlanAssumption DEF TypeOK, Manifest, Plans, Content
  <1>3. /\ manifest' \in Manifest /\ manifest'.seal = "ineligible"
    BY <1>1, <1>2 DEF TypeOK, Manifest, Statuses, Seals
  <1>4. committed' \in BOOLEAN /\ projected' \in Content /\ disk' \in Content
    BY <1>1 DEF TypeOK, Content
  <1>5. CancelledIsRevoked' /\ EligibleIsVerified' /\ OneDelivery'
    BY <1>1, <1>3 DEF CancelledIsRevoked, EligibleIsVerified, OneDelivery
  <1> QED
    BY <1>1, <1>3, <1>4, <1>5, OutdatingKeeps DEF TypeOK

LEMMA EditKeeps ==
    ASSUME DeliveryIInv, NEW c \in Contents, Edit(c)
    PROVE  DeliveryIInv'
  <1> USE DEF DeliveryIInv
  <1>1. disk' = c /\ UNCHANGED <<stored, published, local, latest>>
    BY DEF Edit
  <1>2. TypeOK'
    BY <1>1 DEF TypeOK, Content, stored, local
  <1>3. CancelledIsRevoked' /\ EligibleIsVerified' /\ OneDelivery'
    BY <1>1 DEF CancelledIsRevoked, EligibleIsVerified, OneDelivery, stored
  <1>4. (\A p \in Processes : Passed(p)') /\ (\A p \in latest' : Informed(p)')
    BY <1>1 DEF Passed, Informed, stored, local
  <1> QED
    BY <1>2, <1>3, <1>4

(* What is edited is nobody's own, or is no complete delivery manifest.    *)
LEMMA EditedType ==
    ASSUME NEW d \in Edits
    PROVE  /\ d \in DeliveryRecord \cup {NoDelivery, Unreadable}
           /\ ~(d.complete /\ d.own)
  <1>1. CASE d = NoDelivery \/ d = Unreadable
    BY <1>1 DEF NoDelivery, Unreadable
  <1>2. CASE d \in DeliveryRecord /\ ~d.own
    BY <1>2
  <1> QED
    BY <1>1, <1>2, EditsAssumption

LEMMA EditDeliveryKeeps ==
    ASSUME DeliveryIInv, NEW d \in Edits, EditDelivery(d)
    PROVE  DeliveryIInv'
  <1> USE DEF DeliveryIInv
  <1>1. published' = d /\ UNCHANGED <<stored, disk, local, latest>>
    BY DEF EditDelivery
  <1>2. TypeOK'
    BY <1>1, EditedType DEF TypeOK, stored, local
  <1>3. OneDelivery'
    BY <1>1, EditedType DEF OneDelivery, stored
  <1>4. CancelledIsRevoked' /\ EligibleIsVerified'
    BY <1>1 DEF CancelledIsRevoked, EligibleIsVerified, stored
  <1>5. (\A p \in Processes : Passed(p)') /\ (\A p \in latest' : Informed(p)')
    BY <1>1 DEF Passed, Informed, stored, local
  <1> QED
    BY <1>2, <1>3, <1>4, <1>5

LEMMA RebuildKeeps ==
    ASSUME DeliveryIInv, RebuildExports
    PROVE  DeliveryIInv'
  <1> USE DEF DeliveryIInv
  <1>1. disk' = projected /\ published' = delivery /\ UNCHANGED <<stored, local, latest>>
    BY DEF RebuildExports
  <1>2. TypeOK'
    BY <1>1 DEF TypeOK, stored, local
  <1>3. CancelledIsRevoked' /\ EligibleIsVerified' /\ OneDelivery'
    BY <1>1 DEF CancelledIsRevoked, EligibleIsVerified, OneDelivery, stored
  <1>4. (\A p \in Processes : Passed(p)') /\ (\A p \in latest' : Informed(p)')
    BY <1>1 DEF Passed, Informed, stored, local
  <1> QED
    BY <1>2, <1>3, <1>4

-----------------------------------------------------------------------------
(* The beginning of each command.                                          *)

LEMMA LoadedType ==
    ASSUME TypeOK
    PROVE  /\ Loaded(manifest) \in Check
           /\ Loaded(manifest).status = manifest.status
           /\ Loaded(manifest).bound = manifest.plan
  BY NoCheckType DEF TypeOK, Loaded, Manifest, Check, NoCheck

LEMMA BeginKeeps ==
    ASSUME DeliveryIInv, NEW p \in Processes, NEW command \in Modes, Begin(p, command)
    PROVE  DeliveryIInv'
  <1>1. TypeOK
    BY DEF DeliveryIInv
  <1>2. /\ mode' = [mode EXCEPT ![p] = command]
        /\ check' = [check EXCEPT ![p] = Loaded(manifest)]
        /\ pc' = [pc EXCEPT ![p] = "reading"]
        /\ latest' = latest \cup {p}
        /\ UNCHANGED <<stored, files>>
    BY DEF Begin, Goto
  <1>3. /\ mode' \in [Processes -> Modes] /\ pc' \in [Processes -> Phases]
        /\ pc'[p] = "reading"
    BY <1>1, <1>2 DEF TypeOK, Phases
  <1>4. check' \in [Processes -> Check] /\ check'[p] = Loaded(manifest)
    BY <1>1, <1>2, LoadedType DEF TypeOK
  <1>5. Passed(p)' /\ Informed(p)'
    BY <1>1, <1>2, <1>3, <1>4, LoadedType DEF Passed, Informed, stored
  <1>6. \A q \in Processes \ {p} :
           pc'[q] = pc[q] /\ mode'[q] = mode[q] /\ check'[q] = check[q]
    BY <1>1, <1>2 DEF TypeOK
  <1>7. disk' \in Content /\ UNCHANGED <<stored, published>>
    BY <1>1, <1>2 DEF TypeOK, files
  <1> QED
    BY <1>2, <1>3, <1>4, <1>5, <1>6, <1>7, LocalKeeps

LEMMA ReplayKeeps ==
    ASSUME DeliveryIInv, NEW p \in Processes, Replay(p)
    PROVE  DeliveryIInv'
  <1>1. TypeOK
    BY DEF DeliveryIInv
  <1>2. /\ mode' = [mode EXCEPT ![p] = "run"]
        /\ pc' = [pc EXCEPT ![p] = "replaying"]
        /\ UNCHANGED <<stored, files, check, latest>>
    BY DEF Replay, Goto
  <1>3. /\ mode' \in [Processes -> Modes] /\ pc' \in [Processes -> Phases]
        /\ pc'[p] = "replaying"
    BY <1>1, <1>2 DEF TypeOK, Phases, Modes
  <1>4. Passed(p)' /\ Informed(p)'
    BY <1>3 DEF Passed, Informed
  <1>5. \A q \in Processes \ {p} :
           pc'[q] = pc[q] /\ mode'[q] = mode[q] /\ check'[q] = check[q]
    BY <1>1, <1>2 DEF TypeOK
  <1>6. disk' \in Content /\ check' \in [Processes -> Check]
    BY <1>1, <1>2 DEF TypeOK, files
  <1>7. UNCHANGED <<stored, published>> /\ latest' = latest
    BY <1>2 DEF files
  <1> QED
    BY <1>3, <1>4, <1>5, <1>6, <1>7, LocalKeeps

LEMMA ResumeKeeps ==
    ASSUME DeliveryIInv, NEW p \in Processes, Resume(p)
    PROVE  DeliveryIInv'
  <1>1. TypeOK /\ CancelledIsRevoked /\ EligibleIsVerified /\ OneDelivery
    BY DEF DeliveryIInv
  <1>2. /\ manifest' = [manifest EXCEPT !.status = "running"] /\ latest' = {p}
        /\ mode' = [mode EXCEPT ![p] = "run"]
        /\ check' = [check EXCEPT ![p] = Loaded(manifest)]
        /\ pc' = [pc EXCEPT ![p] = "working"]
        /\ UNCHANGED <<committed, projected, delivery, files>>
    BY DEF Resume, Store, Goto
  <1>3. /\ manifest' \in Manifest /\ manifest'.status = "running"
        /\ manifest'.seal = manifest.seal /\ manifest'.plan = manifest.plan
    BY <1>1, <1>2 DEF TypeOK, Manifest, Statuses
  <1>4. /\ mode' \in [Processes -> Modes] /\ pc' \in [Processes -> Phases]
        /\ pc'[p] = "working"
    BY <1>1, <1>2 DEF TypeOK, Phases, Modes
  <1>5. check' \in [Processes -> Check]
    BY <1>1, <1>2, LoadedType DEF TypeOK
  <1>6. Passed(p)' /\ Informed(p)'
    BY <1>4 DEF Passed, Informed
  <1>7. CancelledIsRevoked' /\ EligibleIsVerified' /\ OneDelivery'
    BY <1>1, <1>2, <1>3 DEF CancelledIsRevoked, EligibleIsVerified, OneDelivery, files
  <1>8. \A q \in Processes \ {p} :
           pc'[q] = pc[q] /\ mode'[q] = mode[q] /\ check'[q] = check[q]
    BY <1>1, <1>2 DEF TypeOK
  <1>9. /\ committed' \in BOOLEAN /\ projected' \in Content /\ disk' \in Content
        /\ delivery' \in DeliveryRecord \cup {NoDelivery}
        /\ published' \in DeliveryRecord \cup {NoDelivery, Unreadable}
    BY <1>1, <1>2 DEF TypeOK, files
  <1> QED
    BY <1>2, <1>3, <1>4, <1>5, <1>6, <1>7, <1>8, <1>9, SaveKeeps

LEMMA FinishScheduleKeeps ==
    ASSUME DeliveryIInv, NEW p \in Processes, FinishSchedule(p)
    PROVE  DeliveryIInv'
  <1>1. TypeOK /\ CancelledIsRevoked /\ EligibleIsVerified /\ OneDelivery
    BY DEF DeliveryIInv
  <1>2. CASE check[p].bound # manifest.plan
    BY <1>2, ExitKeeps DEF FinishSchedule, stored
  <1>3. CASE check[p].bound = manifest.plan
    <2>1. /\ manifest' = [manifest EXCEPT !.status = Outcome, !.hashes = disk]
          /\ latest' = {p}
          /\ check' = [check EXCEPT ![p].status = Outcome]
          /\ pc' = [pc EXCEPT ![p] = "reading"]
          /\ UNCHANGED <<mode, committed, projected, delivery, files>>
      BY <1>3 DEF FinishSchedule, Store, Goto
    <2>2. Outcome \in Statuses /\ (Outcome = "cancelled" => manifest.status = "cancelled")
      BY DEF Outcome, Statuses
    <2>3. /\ manifest' \in Manifest /\ manifest'.status = Outcome
          /\ manifest'.seal = manifest.seal /\ manifest'.plan = manifest.plan
      BY <1>1, <2>1, <2>2 DEF TypeOK, Manifest
    <2>4. /\ check' \in [Processes -> Check]
          /\ check'[p].status = Outcome /\ check'[p].bound = check[p].bound
      BY <1>1, <2>1, <2>2 DEF TypeOK, Check
    <2>5. /\ pc' \in [Processes -> Phases] /\ pc'[p] = "reading"
      BY <1>1, <2>1 DEF TypeOK, Phases
    <2>6. Passed(p)' /\ Informed(p)'
      BY <1>3, <2>3, <2>4, <2>5 DEF Passed, Informed
    <2>7. CancelledIsRevoked' /\ EligibleIsVerified' /\ OneDelivery'
      BY <1>1, <2>1, <2>2, <2>3
      DEF CancelledIsRevoked, EligibleIsVerified, OneDelivery, files
    <2>8. \A q \in Processes \ {p} :
             pc'[q] = pc[q] /\ mode'[q] = mode[q] /\ check'[q] = check[q]
      BY <1>1, <2>1 DEF TypeOK
    <2>9. /\ committed' \in BOOLEAN /\ projected' \in Content /\ disk' \in Content
          /\ delivery' \in DeliveryRecord \cup {NoDelivery}
          /\ published' \in DeliveryRecord \cup {NoDelivery, Unreadable}
          /\ mode' \in [Processes -> Modes]
      BY <1>1, <2>1 DEF TypeOK, files
    <2> QED
      BY <2>1, <2>3, <2>4, <2>5, <2>6, <2>7, <2>8, <2>9, SaveKeeps
  <1> QED
    BY <1>2, <1>3

-----------------------------------------------------------------------------
(* verify_snapshot                                                         *)

(* A step in which p moves on or changes what it knows.                    *)
LEMMA MoveKeeps ==
    ASSUME DeliveryIInv, NEW p \in Processes,
           NEW phase \in Phases, phase # "idle", NEW c \in Check,
           pc' = [pc EXCEPT ![p] = phase],
           check' = [check EXCEPT ![p] = c],
           UNCHANGED <<stored, files, mode>>,
           latest' \subseteq latest \cup {p},
           mode[p] = "seal" => /\ phase \notin {"gating", "unmarking"}
                               /\ phase \in {"comparing", "publishing"} => c.ok,
           p \in latest' => Informed(p)'
    PROVE  DeliveryIInv'
  <1>1. TypeOK
    BY DEF DeliveryIInv
  <1>2. pc' \in [Processes -> Phases] /\ pc'[p] = phase
    BY <1>1 DEF TypeOK
  <1>3. check' \in [Processes -> Check] /\ check'[p] = c
    BY <1>1 DEF TypeOK
  <1>4. mode' \in [Processes -> Modes] /\ disk' \in Content /\ UNCHANGED <<stored, published>>
    BY <1>1 DEF TypeOK, files
  <1>5. \A q \in Processes \ {p} :
           pc'[q] = pc[q] /\ mode'[q] = mode[q] /\ check'[q] = check[q]
    BY <1>1 DEF TypeOK
  <1>6. Passed(p)'
    BY <1>2, <1>3 DEF Passed
  <1> QED
    BY <1>2, <1>3, <1>4, <1>5, <1>6, LocalKeeps

LEMMA CaptureKeeps ==
    ASSUME DeliveryIInv, NEW p \in Processes, Capture(p)
    PROVE  DeliveryIInv'
  <1>1. TypeOK /\ (p \in latest => Informed(p))
    BY DEF DeliveryIInv
  <1> DEFINE c == [check[p] EXCEPT !.plan = manifest.plan, !.content = disk]
  <1>2. /\ pc[p] = "reading" /\ pc' = [pc EXCEPT ![p] = "judging"]
        /\ check' = [check EXCEPT ![p] = c]
        /\ UNCHANGED <<stored, files, mode, latest>>
    BY DEF Capture, Goto
  <1>3. c \in Check /\ c.status = check[p].status /\ c.bound = check[p].bound
    BY <1>1 DEF TypeOK, Check, Manifest
  <1> HIDE DEF c
  <1>4. pc'[p] = "judging" /\ check'[p] = c
    BY <1>1, <1>2 DEF TypeOK
  <1>5. p \in latest' => Informed(p)'
    BY <1>1, <1>2, <1>3, <1>4 DEF Informed, stored
  <1>6. "judging" \in Phases
    BY DEF Phases
  <1> QED
    BY <1>2, <1>3, <1>5, <1>6, MoveKeeps

LEMMA JudgeKeeps ==
    ASSUME DeliveryIInv, NEW p \in Processes, Judge(p)
    PROVE  DeliveryIInv'
  <1> DEFINE ok == Passes(check[p], committed)
             c == IF ok \/ mode[p] = "run" THEN Verdict(check[p], ok) ELSE NoCheck
             phase == IF mode[p] = "run" THEN "gating"
                      ELSE IF ok THEN "comparing" ELSE "refusing"
  <1>1. TypeOK /\ (p \in latest => Informed(p))
    BY DEF DeliveryIInv
  <1>2. pc[p] = "judging" /\ UNCHANGED <<stored, files>>
    BY DEF Judge
  <1>3. CASE mode[p] = "verify" /\ ok
    BY <1>2, <1>3, ExitKeeps DEF Judge
  <1>4. CASE ~(mode[p] = "verify" /\ ok)
    <2>1. /\ check' = [check EXCEPT ![p] = c] /\ pc' = [pc EXCEPT ![p] = phase]
          /\ UNCHANGED <<mode, latest>>
      BY <1>4 DEF Judge, Goto
    <2>2. ok \in BOOLEAN
      BY <1>1 DEF Passes, TypeOK
    <2>3. /\ Verdict(check[p], ok) \in Check
          /\ Verdict(check[p], ok).plan = check[p].plan
          /\ Verdict(check[p], ok).content = check[p].content
          /\ Verdict(check[p], ok).ok = ok
      BY <1>1, <2>2, NoCheckType DEF TypeOK, Verdict, Check, NoCheck
    <2>4. c \in Check /\ (c.ok => ok /\ c = Verdict(check[p], ok))
      BY <2>3, NoCheckType DEF NoCheck
    <2>5. phase \in Phases /\ phase \in {"gating", "comparing", "refusing"}
      BY DEF Phases
    <2>6. mode[p] = "seal" => phase # "gating" /\ (phase = "comparing" => c.ok)
      BY <2>3
    <2>7. ASSUME p \in latest, c.ok
          PROVE  /\ manifest.status # "cancelled" /\ committed
                 /\ c.plan = manifest.plan /\ c.content \in Sound
      BY <1>1, <1>2, <2>3, <2>4, <2>7 DEF Informed, Passes
    <2> HIDE DEF c, phase, ok
    <2>8. pc'[p] = phase /\ check'[p] = c
      BY <1>1, <2>1 DEF TypeOK
    <2>9. p \in latest' => Informed(p)'
      BY <1>2, <2>1, <2>5, <2>7, <2>8 DEF Informed, stored
    <2> QED
      BY <1>2, <2>1, <2>4, <2>5, <2>6, <2>9, MoveKeeps
  <1> QED
    BY <1>3, <1>4

-----------------------------------------------------------------------------
(* Publication.                                                            *)

(* A step that only moves p.                                               *)
LEMMA GotoKeeps ==
    ASSUME DeliveryIInv, NEW p \in Processes, NEW phase \in Phases, phase # "idle",
           pc' = [pc EXCEPT ![p] = phase],
           UNCHANGED <<stored, files, mode, check>>,
           latest' \subseteq latest \cup {p},
           mode[p] = "seal" =>
              /\ phase \notin {"gating", "unmarking"}
              /\ phase \in {"comparing", "publishing"} => check[p].ok,
           p \in latest' => Informed(p)'
    PROVE  DeliveryIInv'
  <1>1. check[p] \in Check /\ check' = [check EXCEPT ![p] = check[p]]
    BY DEF DeliveryIInv, TypeOK
  <1> QED
    BY <1>1, MoveKeeps

LEMMA CompareKeeps ==
    ASSUME DeliveryIInv, NEW p \in Processes, Compare(p)
    PROVE  DeliveryIInv'
  <1>1. TypeOK /\ Passed(p) /\ (p \in latest => Informed(p))
    BY DEF DeliveryIInv
  <1>2. pc[p] = "comparing" /\ UNCHANGED <<stored, files, mode, latest>>
    BY DEF Compare
  <1>3. CASE Unchanged(p)
    <2>1. pc' = [pc EXCEPT ![p] = "publishing"] /\ check' = check
      BY <1>3 DEF Compare, Goto
    <2>2. pc'[p] = "publishing" /\ "publishing" \in Phases
      BY <1>1, <2>1 DEF TypeOK, Phases
    <2>3. p \in latest' => Informed(p)'
      BY <1>1, <1>2, <2>1, <2>2 DEF Informed, stored
    <2>4. mode[p] = "seal" => check[p].ok
      BY <1>1, <1>2 DEF Passed
    <2> QED
      BY <1>2, <2>1, <2>2, <2>3, <2>4, GotoKeeps
  <1>4. CASE ~Unchanged(p)
    <2>1. pc' = [pc EXCEPT ![p] = "refusing"] /\ check' = [check EXCEPT ![p] = NoCheck]
      BY <1>4 DEF Compare, Goto
    <2>2. pc'[p] = "refusing" /\ "refusing" \in Phases
      BY <1>1, <2>1 DEF TypeOK, Phases
    <2>3. Informed(p)'
      BY <2>2 DEF Informed
    <2> QED
      BY <1>2, <2>1, <2>2, <2>3, NoCheckType, MoveKeeps
  <1> QED
    BY <1>3, <1>4

(* A save by p that leaves it running: c is what it knows afterwards.      *)
LEMMA SaveMoveKeeps ==
    ASSUME DeliveryIInv, NEW p \in Processes,
           NEW phase \in Phases, phase # "idle", NEW c \in Check, NEW m \in Manifest,
           manifest' = m, latest' = {p},
           pc' = [pc EXCEPT ![p] = phase],
           check' = [check EXCEPT ![p] = c],
           UNCHANGED <<committed, projected, disk, mode>>,
           delivery' \in DeliveryRecord \cup {NoDelivery},
           published' \in DeliveryRecord \cup {NoDelivery, Unreadable},
           CancelledIsRevoked', EligibleIsVerified', OneDelivery',
           mode[p] = "seal" => /\ phase \notin {"gating", "unmarking"}
                               /\ phase \in {"comparing", "publishing"} => c.ok,
           Informed(p)'
    PROVE  DeliveryIInv'
  <1>1. TypeOK
    BY DEF DeliveryIInv
  <1>2. pc' \in [Processes -> Phases] /\ pc'[p] = phase
    BY <1>1 DEF TypeOK
  <1>3. check' \in [Processes -> Check] /\ check'[p] = c
    BY <1>1 DEF TypeOK
  <1>4. /\ mode' \in [Processes -> Modes] /\ disk' \in Content
        /\ committed' \in BOOLEAN /\ projected' \in Content
    BY <1>1 DEF TypeOK
  <1>5. \A q \in Processes \ {p} :
           pc'[q] = pc[q] /\ mode'[q] = mode[q] /\ check'[q] = check[q]
    BY <1>1 DEF TypeOK
  <1>6. Passed(p)'
    BY <1>2, <1>3 DEF Passed
  <1> QED
    BY <1>2, <1>3, <1>4, <1>5, <1>6, SaveKeeps

LEMMA SaveGateKeeps ==
    ASSUME DeliveryIInv, NEW p \in Processes, SaveGate(p)
    PROVE  DeliveryIInv'
  <1>1. TypeOK /\ Passed(p) /\ (p \in latest => Informed(p))
        /\ CancelledIsRevoked /\ EligibleIsVerified /\ OneDelivery
    BY DEF DeliveryIInv
  <1>2. /\ pc[p] = "gating" /\ p \in latest /\ manifest' = manifest /\ latest' = {p}
        /\ pc' = [pc EXCEPT ![p] = "publishing"]
        /\ UNCHANGED <<committed, projected, delivery, files, mode, check>>
    BY DEF SaveGate, MaySave, Store, Goto
  <1>3. pc'[p] = "publishing" /\ "publishing" \in Phases
    BY <1>1, <1>2 DEF TypeOK, Phases
  <1>4. Informed(p)' /\ mode[p] # "seal"
    BY <1>1, <1>2, <1>3 DEF Informed, Passed
  <1>5. CancelledIsRevoked' /\ EligibleIsVerified' /\ OneDelivery'
    BY <1>1, <1>2 DEF CancelledIsRevoked, EligibleIsVerified, OneDelivery, files
  <1>6. check[p] \in Check /\ check' = [check EXCEPT ![p] = check[p]] /\ manifest \in Manifest
    BY <1>1, <1>2 DEF TypeOK
  <1>7. /\ delivery' \in DeliveryRecord \cup {NoDelivery}
        /\ published' \in DeliveryRecord \cup {NoDelivery, Unreadable}
        /\ disk' = disk
    BY <1>1, <1>2 DEF TypeOK, files
  <1> QED
    BY <1>2, <1>3, <1>4, <1>5, <1>6, <1>7, SaveMoveKeeps

LEMMA PublishKeeps ==
    ASSUME DeliveryIInv, NEW p \in Processes, Publish(p)
    PROVE  DeliveryIInv'
  <1>1. TypeOK /\ Passed(p) /\ (p \in latest => Informed(p))
    BY DEF DeliveryIInv
  <1>2. PICK complete \in Completeness(p) :
           /\ manifest' = [manifest EXCEPT
                             !.seal = IF complete THEN "eligible" ELSE "ineligible"]
           /\ latest' = {p}
           /\ delivery' = [complete |-> complete, own |-> TRUE,
                           plan |-> check[p].plan, content |-> check[p].content]
    BY DEF Publish, Store
  <1>3. /\ pc[p] = "publishing" /\ p \in latest
        /\ published' = delivery'
        /\ pc' = [pc EXCEPT ![p] = "rechecking"]
        /\ UNCHANGED <<committed, projected, disk, mode, check>>
    BY DEF Publish, MaySave, Goto
  <1>4. /\ complete \in BOOLEAN /\ (complete => check[p].ok)
        /\ (mode[p] = "seal" => complete)
    BY <1>1, <1>3 DEF Completeness, Passed, TypeOK, Check
  <1>5. /\ manifest' \in Manifest /\ manifest'.status = manifest.status
        /\ manifest'.plan = manifest.plan
        /\ manifest'.seal = IF complete THEN "eligible" ELSE "ineligible"
    BY <1>1, <1>2 DEF TypeOK, Manifest, Seals
  <1>6. delivery' \in DeliveryRecord
    BY <1>1, <1>2, <1>4 DEF TypeOK, Check, DeliveryRecord
  <1>7. /\ delivery'.complete = complete /\ delivery'.plan = check[p].plan
        /\ delivery'.content = check[p].content
    BY <1>2
  <1>8. complete => /\ manifest.status # "cancelled" /\ committed
                    /\ check[p].plan = manifest.plan /\ check[p].content \in Sound
    BY <1>1, <1>3, <1>4 DEF Informed
  <1>9. CancelledIsRevoked' /\ EligibleIsVerified' /\ OneDelivery'
    BY <1>3, <1>5, <1>7, <1>8 DEF CancelledIsRevoked, EligibleIsVerified, OneDelivery
  <1>10. pc'[p] = "rechecking" /\ "rechecking" \in Phases
    BY <1>1, <1>3 DEF TypeOK, Phases
  <1>11. Informed(p)'
    BY <1>3, <1>4, <1>5, <1>10 DEF Informed
  <1>12. check[p] \in Check /\ check' = [check EXCEPT ![p] = check[p]]
    BY <1>1, <1>3 DEF TypeOK
  <1> QED
    BY <1>2, <1>3, <1>5, <1>6, <1>9, <1>10, <1>11, <1>12, SaveMoveKeeps

LEMMA RecheckKeeps ==
    ASSUME DeliveryIInv, NEW p \in Processes, Recheck(p)
    PROVE  DeliveryIInv'
  <1> DEFINE phase == IF Unchanged(p) THEN "hashing" ELSE "withdrawing"
  <1>1. TypeOK /\ (p \in latest => Informed(p))
    BY DEF DeliveryIInv
  <1>2. /\ pc[p] = "rechecking" /\ pc' = [pc EXCEPT ![p] = phase]
        /\ UNCHANGED <<stored, files, mode, check, latest>>
    BY DEF Recheck, Goto
  <1>3. phase \in Phases /\ phase \in {"hashing", "withdrawing"}
    BY DEF Phases
  <1> HIDE DEF phase
  <1>4. pc'[p] = phase
    BY <1>1, <1>2 DEF TypeOK
  <1>5. p \in latest' => Informed(p)'
    BY <1>1, <1>2, <1>3, <1>4 DEF Informed, stored
  <1> QED
    BY <1>2, <1>3, <1>5, GotoKeeps

LEMMA WithdrawKeeps ==
    ASSUME DeliveryIInv, NEW p \in Processes, Withdraw(p)
    PROVE  DeliveryIInv'
  <1> DEFINE m == IF mode[p] = "seal" THEN WithSealRevoked(manifest) ELSE manifest
             phase == IF mode[p] = "seal" THEN "refusing" ELSE "unmarking"
  <1>1. TypeOK /\ CancelledIsRevoked /\ EligibleIsVerified /\ OneDelivery
    BY DEF DeliveryIInv
  <1>2. /\ manifest' = m /\ latest' = {p}
        /\ pc' = [pc EXCEPT ![p] = phase]
        /\ check' = [check EXCEPT ![p] = NoCheck]
        /\ UNCHANGED <<committed, projected, delivery, files, mode>>
    BY DEF Withdraw, Store, Goto
  <1>3. /\ m \in Manifest /\ m.status = manifest.status /\ m.plan = manifest.plan
        /\ m.seal \in {manifest.seal, "ineligible"}
    BY <1>1 DEF TypeOK, WithSealRevoked, Manifest, Seals
  <1>4. /\ phase \in Phases /\ phase \in {"refusing", "unmarking"}
        /\ mode[p] = "seal" => phase = "refusing"
    BY DEF Phases
  <1> HIDE DEF m, phase
  <1>5. pc'[p] = phase
    BY <1>1, <1>2 DEF TypeOK
  <1>6. Informed(p)'
    BY <1>4, <1>5 DEF Informed
  <1>7. CancelledIsRevoked' /\ EligibleIsVerified' /\ OneDelivery'
    BY <1>1, <1>2, <1>3 DEF CancelledIsRevoked, EligibleIsVerified, OneDelivery, files
  <1>8. /\ delivery' \in DeliveryRecord \cup {NoDelivery}
        /\ published' \in DeliveryRecord \cup {NoDelivery, Unreadable}
        /\ disk' = disk
    BY <1>1, <1>2 DEF TypeOK, files
  <1> QED
    BY <1>2, <1>3, <1>4, <1>6, <1>7, <1>8, NoCheckType, SaveMoveKeeps

(* A delivery manifest that is marked as not complete.                     *)
LEMMA MarkedType ==
    ASSUME TypeOK, Readable
    PROVE  /\ [published EXCEPT !.complete = FALSE] \in DeliveryRecord
           /\ [published EXCEPT !.complete = FALSE].complete = FALSE
  BY DEF TypeOK, DeliveryRecord, Readable

LEMMA MarkKeeps ==
    ASSUME DeliveryIInv, NEW p \in Processes, Unmark(p), Readable
    PROVE  DeliveryIInv'
  <1>1. TypeOK /\ Passed(p) /\ (p \in latest => Informed(p))
        /\ CancelledIsRevoked /\ EligibleIsVerified /\ OneDelivery
    BY DEF DeliveryIInv
  <1>2. /\ pc[p] = "unmarking" /\ pc' = [pc EXCEPT ![p] = "hashing"]
        /\ published' = [published EXCEPT !.complete = FALSE]
        /\ UNCHANGED <<stored, disk, mode, check, latest>>
    BY DEF Unmark, Goto
  <1>3. /\ pc' \in [Processes -> Phases] /\ pc'[p] = "hashing"
        /\ \A q \in Processes \ {p} : pc'[q] = pc[q]
    BY <1>1, <1>2 DEF TypeOK, Phases
  <1>4. /\ published' \in DeliveryRecord \cup {NoDelivery, Unreadable}
        /\ published'.complete = FALSE
    BY <1>1, <1>2, MarkedType
  <1>5. TypeOK'
    BY <1>1, <1>2, <1>3, <1>4 DEF TypeOK, stored
  <1>6. CancelledIsRevoked' /\ EligibleIsVerified' /\ OneDelivery'
    BY <1>1, <1>2, <1>4 DEF CancelledIsRevoked, EligibleIsVerified, OneDelivery, stored
  <1>7. mode[p] # "seal"
    BY <1>1, <1>2 DEF Passed
  <1>8. Passed(p)' /\ Informed(p)'
    BY <1>2, <1>3, <1>7 DEF Passed, Informed
  <1>9. ASSUME NEW q \in Processes, q # p
        PROVE  Passed(q)' /\ (q \in latest' => Informed(q)')
    <2>1. Passed(q) /\ (q \in latest => Informed(q))
      BY DEF DeliveryIInv
    <2> QED
      BY <1>2, <1>3, <2>1 DEF Passed, Informed, stored
  <1>10. latest' \subseteq Processes
    BY <1>5 DEF TypeOK
  <1> QED
    BY <1>5, <1>6, <1>8, <1>9, <1>10 DEF DeliveryIInv

LEMMA UnmarkKeeps ==
    ASSUME DeliveryIInv, NEW p \in Processes, Unmark(p)
    PROVE  DeliveryIInv'
  <1>1. CASE Readable
    BY <1>1, MarkKeeps
  <1>2. CASE ~Readable
    BY <1>2, ExitKeeps DEF Unmark, files
  <1> QED
    BY <1>1, <1>2

LEMMA HashFilesKeeps ==
    ASSUME DeliveryIInv, NEW p \in Processes, HashFiles(p)
    PROVE  DeliveryIInv'
  <1> DEFINE c == [NoCheck EXCEPT !.content = disk]
  <1>1. TypeOK /\ (p \in latest => Informed(p))
    BY DEF DeliveryIInv
  <1>2. /\ pc[p] = "hashing" /\ pc' = [pc EXCEPT ![p] = "saving"]
        /\ check' = [check EXCEPT ![p] = c]
        /\ UNCHANGED <<stored, files, mode, latest>>
    BY DEF HashFiles, Goto
  <1>3. c \in Check
    BY <1>1, NoCheckType DEF TypeOK, Check
  <1> HIDE DEF c
  <1>4. pc'[p] = "saving" /\ "saving" \in Phases
    BY <1>1, <1>2 DEF TypeOK, Phases
  <1>5. p \in latest' => Informed(p)'
    BY <1>1, <1>2, <1>4 DEF Informed, stored
  <1> QED
    BY <1>2, <1>3, <1>4, <1>5, MoveKeeps

(* The last save of a process.                                             *)
LEMMA LastSaveKeeps ==
    ASSUME DeliveryIInv, NEW p \in Processes, Forget(p), latest' = {},
           manifest' \in Manifest,
           UNCHANGED <<committed, projected, disk>>,
           delivery' \in DeliveryRecord \cup {NoDelivery},
           published' \in DeliveryRecord \cup {NoDelivery, Unreadable},
           CancelledIsRevoked', EligibleIsVerified', OneDelivery'
    PROVE  DeliveryIInv'
  <1>1. TypeOK
    BY DEF DeliveryIInv
  <1>2. committed' \in BOOLEAN /\ projected' \in Content /\ disk' \in Content
    BY <1>1 DEF TypeOK
  <1> QED
    BY <1>1, <1>2, ForgetTypes, SaveKeeps

LEMMA SaveHashesKeeps ==
    ASSUME DeliveryIInv, NEW p \in Processes, SaveHashes(p)
    PROVE  DeliveryIInv'
  <1> DEFINE seal == IF mode[p] = "seal" THEN "eligible" ELSE manifest.seal
  <1>1. TypeOK /\ CancelledIsRevoked /\ EligibleIsVerified /\ OneDelivery
        /\ (p \in latest => Informed(p))
    BY DEF DeliveryIInv
  <1>2. /\ pc[p] = "saving" /\ p \in latest /\ latest' = {} /\ Forget(p)
        /\ manifest' = [manifest EXCEPT !.hashes = check[p].content, !.seal = seal]
        /\ UNCHANGED <<committed, projected, delivery, files>>
    BY <1>1 DEF SaveHashes, MaySave, TypeOK, Manifest
  <1>3. seal = manifest.seal
    BY <1>1, <1>2 DEF Informed
  <1> HIDE DEF seal
  <1>4. /\ manifest' \in Manifest /\ manifest'.seal = manifest.seal
        /\ manifest'.status = manifest.status /\ manifest'.plan = manifest.plan
    BY <1>1, <1>2, <1>3 DEF TypeOK, Manifest, Check
  <1>5. CancelledIsRevoked' /\ EligibleIsVerified' /\ OneDelivery'
    BY <1>1, <1>2, <1>4 DEF CancelledIsRevoked, EligibleIsVerified, OneDelivery, files
  <1> QED
    BY <1>1, <1>2, <1>4, <1>5, LastSaveKeeps DEF TypeOK, files

LEMMA BeginRevokeKeeps ==
    ASSUME DeliveryIInv, NEW p \in Processes, BeginRevoke(p)
    PROVE  DeliveryIInv'
  <1>1. TypeOK
    BY DEF DeliveryIInv
  <1>2. /\ pc' = [pc EXCEPT ![p] = "revoking"] /\ latest' = latest \cup {p}
        /\ UNCHANGED <<stored, files, mode, check>>
    BY DEF BeginRevoke, Goto
  <1>3. pc'[p] = "revoking" /\ "revoking" \in Phases
    BY <1>1, <1>2 DEF TypeOK, Phases
  <1>4. Informed(p)'
    BY <1>3 DEF Informed
  <1> QED
    BY <1>2, <1>3, <1>4, GotoKeeps

LEMMA RevokeKeeps ==
    ASSUME DeliveryIInv, NEW p \in Processes, Revoke(p)
    PROVE  DeliveryIInv'
  <1>1. TypeOK /\ OneDelivery
    BY DEF DeliveryIInv
  <1>2. /\ manifest' = [manifest EXCEPT !.seal = "ineligible"]
        /\ latest' = {} /\ Forget(p)
        /\ UNCHANGED <<committed, projected, disk>>
    BY DEF Revoke, WithSealRevoked
  <1>3. manifest' \in Manifest /\ manifest'.seal = "ineligible"
    BY <1>1, <1>2 DEF TypeOK, Manifest, Seals
  <1>4. /\ delivery' \in DeliveryRecord \cup {NoDelivery}
        /\ published' \in DeliveryRecord \cup {NoDelivery, Unreadable}
        /\ published'.complete /\ published'.own => published' = delivery'
    <2>1. CASE ~Readable
      BY <1>1, <2>1 DEF Revoke, TypeOK, OneDelivery
    <2>2. CASE Readable
      <3>1. published' = [published EXCEPT !.complete = FALSE] /\ delivery' = published'
        BY <2>2 DEF Revoke
      <3> QED
        BY <1>1, <2>2, <3>1, MarkedType
    <2> QED
      BY <2>1, <2>2
  <1>5. CancelledIsRevoked' /\ EligibleIsVerified' /\ OneDelivery'
    BY <1>3, <1>4 DEF CancelledIsRevoked, EligibleIsVerified, OneDelivery
  <1> QED
    BY <1>2, <1>3, <1>4, <1>5, LastSaveKeeps

-----------------------------------------------------------------------------
(* All steps, and what follows from the invariant.                         *)

LEMMA StepKeeps ==
    ASSUME DeliveryIInv, NEW p \in Processes, Step(p)
    PROVE  DeliveryIInv'
  <1>1. CASE Begin(p, "seal") \/ Begin(p, "verify")
    BY <1>1, BeginKeeps DEF Modes
  <1>2. CASE EndReplay(p) \/ Crash(p) \/ \E phase \in {"gating", "publishing",
                 "withdrawing", "saving", "revoking"} : Conflict(p, phase)
    BY <1>2, ExitKeeps DEF EndReplay, Crash, Conflict
  <1>3. CASE Replay(p) \/ Resume(p) \/ FinishSchedule(p) \/ Capture(p) \/ Judge(p)
    BY <1>3, ReplayKeeps, ResumeKeeps, FinishScheduleKeeps, CaptureKeeps, JudgeKeeps
  <1>4. CASE Compare(p) \/ SaveGate(p) \/ Publish(p) \/ Recheck(p) \/ Withdraw(p)
    BY <1>4, CompareKeeps, SaveGateKeeps, PublishKeeps, RecheckKeeps, WithdrawKeeps
  <1>5. CASE Unmark(p) \/ HashFiles(p) \/ SaveHashes(p) \/ BeginRevoke(p) \/ Revoke(p)
    BY <1>5, UnmarkKeeps, HashFilesKeeps, SaveHashesKeeps, BeginRevokeKeeps, RevokeKeeps
  <1> QED
    BY <1>1, <1>2, <1>3, <1>4, <1>5 DEF Step

LEMMA DeliveryInvNext == DeliveryIInv /\ [Next]_vars => DeliveryIInv'
  <1> SUFFICES ASSUME DeliveryIInv, [Next]_vars
               PROVE  DeliveryIInv'
    OBVIOUS
  <1>1. CASE \E p \in Processes : Step(p)
    BY <1>1, StepKeeps
  <1>2. CASE Environment
    BY <1>2, CommitKeeps, CancelKeeps, PatchKeeps, EditKeeps, EditDeliveryKeeps,
      RebuildKeeps DEF Environment
  <1>3. CASE UNCHANGED vars
    BY <1>3 DEF vars, stored, files, local, DeliveryIInv, TypeOK, CancelledIsRevoked,
      EligibleIsVerified, OneDelivery, Passed, Informed
  <1> QED
    BY <1>1, <1>2, <1>3 DEF Next

(* The inductive invariant holds in every reachable state.                 *)
THEOREM DeliveryInductive == Spec => []DeliveryIInv
  BY DeliveryInvInit, DeliveryInvNext, PTL DEF Spec

(* No process makes the seal of a cancelled run eligible, whatever it had  *)
(* verified before the cancellation.                                       *)
THEOREM CancellationRevokes == Spec => []CancelledIsRevoked
  <1>1. DeliveryIInv => CancelledIsRevoked
    BY DEF DeliveryIInv
  <1> QED
    BY <1>1, DeliveryInductive, PTL

(* An eligible seal belongs to the bound plan, to committed tasks and to a *)
(* content that passed every gate.                                         *)
THEOREM SealsAreVerified == Spec => []EligibleIsVerified
  <1>1. DeliveryIInv => EligibleIsVerified
    BY DEF DeliveryIInv
  <1> QED
    BY <1>1, DeliveryInductive, PTL

(* verify_delivery accepts a delivery only under an eligible seal, and the *)
(* file in the directory is the committed one or was edited; without a     *)
(* seal only an edited file, in a run nobody published, patched or revoked.*)
THEOREM DeliverablesAreSealed == Spec => []DeliverableIsSealed
  <1>1. DeliveryIInv => DeliverableIsSealed
    <2> SUFFICES ASSUME DeliveryIInv, Deliverable
                 PROVE  DeliverableIsSealed
      BY DEF DeliverableIsSealed
    <2>1. TypeOK /\ OneDelivery
      BY DEF DeliveryIInv
    <2>2. published.complete /\ manifest.seal # "ineligible"
      BY DEF Deliverable, SealIsBinding
    <2>3. published.own => published = delivery
      BY <2>1, <2>2 DEF OneDelivery
    <2>4. CASE manifest.seal = "none"
      <3>1. delivery = NoDelivery /\ manifest.plan = 0
        BY <2>1, <2>4 DEF OneDelivery
      <3>2. ~published.own
        BY <2>2, <2>3, <3>1 DEF NoDelivery, OneDelivery, TypeOK
      <3> QED
        BY <2>4, <3>1, <3>2 DEF DeliverableIsSealed
    <2>5. CASE manifest.seal # "none"
      <3>1. manifest.seal \in Seals
        BY <2>1 DEF TypeOK, Manifest
      <3>2. manifest.seal = "eligible"
        BY <2>2, <2>5, <3>1 DEF Seals
      <3> QED
        BY <2>3, <3>2 DEF DeliverableIsSealed
    <2> QED
      BY <2>4, <2>5
  <1> QED
    BY <1>1, DeliveryInductive, PTL

=============================================================================
