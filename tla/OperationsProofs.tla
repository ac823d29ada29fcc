--------------------------- MODULE OperationsProofs ---------------------------
(***************************************************************************)
(* Theorems about the programs around the journal, for every value of      *)
(* their constants, and about MCOperations, which runs them side by side.  *)
(*                                                                         *)
(* The metadata tool, the start of servers and the API's Redis each have   *)
(* an inductive invariant here; the set-up of the mint and the journal     *)
(* have theirs in modules of their own, which are instantiated at the end. *)
(* There every behaviour of MCOperations is shown to be a behaviour of     *)
(* each program, so what is proved of one holds of all together.           *)
(***************************************************************************)
EXTENDS MCOperations, FiniteSetTheorems, TLAPS

-----------------------------------------------------------------------------
(* The metadata tool.  One transaction at most is planned or can still     *)
(* land: a record on disk names every transaction before it is sent, and   *)
(* the operator, who looks at the records, starts nothing while one is     *)
(* pending.                                                                *)

Stages == {"mint", "plan", "simulate", "record", "send", "confirm", "read", "check"}
Before == {"mint", "plan", "simulate", "record", "send"}    \* nothing is sent yet
After == {"read", "check"}                                  \* the transaction has landed

\* Who sends, or has sent, has its record on disk.
RecordInv ==
    \A i \in Invocations :
        /\ tx[i] # Unsent => i \in records
        /\ run[i].pc \in {"send", "confirm"} \cup After => i \in records

\* What an invocation has sent, by where it is.
SentInv ==
    \A i \in Invocations :
        /\ run[i].pc \in Before \cup {"idle"} => tx[i] = Unsent
        /\ run[i].pc \in After => tx[i].status = "landed"

\* One invocation at a time runs or can still change the metadata.
AloneInv ==
    \A i, j \in Invocations :
        (Running(i) \/ Pending(i)) /\ (Running(j) \/ Pending(j)) => i = j

\* Nothing is reported as verified while something may still be published.
QuietInv ==
    verified # None =>
        \A i \in Invocations : ~Pending(i) /\ (Running(i) => ~run[i].apply)

\* What an invocation has read back is on the ledger.
ReadInv ==
    \A i \in Invocations :
        run[i].pc = "check" => Unchanged(metadata, run[i].uri)

\* An update that is planned or pending carries the fee of the metadata as
\* they are, unless the owner has set another since it was planned.
FeeInv ==
    ~newer => \A i \in Invocations :
        /\ run[i].pc \in Before /\ run[i].plan # None /\ ~run[i].plan.create /\ metadata # None
           => run[i].plan.fee = metadata.fee
        /\ Pending(i) /\ ~tx[i].plan.create /\ metadata # None
           => tx[i].plan.fee = metadata.fee

\* Whoever went past the check of the mint has a mint that passes it.
MintInv ==
    \A i \in Invocations :
        (Running(i) /\ run[i].pc # "mint") \/ tx[i] # Unsent => ValidateMint(mint)

\* The type invariant, with the shapes of the records that EXCEPT needs.
RunShapes ==
    [pc : Ended \cup Stages \cup {"idle"}, uri : Uris \cup {None}, apply : BOOLEAN,
     before : Nat, plan : Plans \cup {None}]
Transactions == [status : {"none", "sent", "landed", "failed", "expired"}, plan : Plans \cup {None}]
ShapeInv == run \in [Invocations -> RunShapes] /\ tx \in [Invocations -> Transactions]

ToolInv ==
    /\ TypeOK /\ ShapeInv /\ RecordInv /\ SentInv /\ AloneInv /\ QuietInv
    /\ ReadInv /\ FeeInv /\ MintInv /\ VerifiedStays

-----------------------------------------------------------------------------
LEMMA ToolInit == Init => ToolInv
<1> SUFFICES ASSUME Init PROVE ToolInv
  OBVIOUS
<1>1. \A i \in Invocations : run[i] = Idle /\ tx[i] = Unsent /\ ~Running(i) /\ ~Pending(i)
  BY DEF Init, Idle, Unsent, Running, Pending, Ended
<1>2. Idle \in RunShapes /\ Unsent \in Transactions
  BY DEF Idle, Unsent, RunShapes, Transactions
<1>3. ShapeInv
  BY <1>2 DEF Init, ShapeInv
<1>4. TypeOK
  BY <1>1 DEF Init, TypeOK, Idle, Ended
<1>5. RecordInv /\ SentInv /\ AloneInv /\ QuietInv /\ ReadInv /\ FeeInv /\ MintInv
  BY <1>1 DEF RecordInv, SentInv, AloneInv, QuietInv, ReadInv, FeeInv, MintInv, Idle, After
<1>6. VerifiedStays
  BY DEF Init, VerifiedStays
<1> QED
  BY <1>3, <1>4, <1>5, <1>6 DEF ToolInv

\* An invocation that ends leaves the rest as it is; what it reports as
\* verified it has read back.
LEMMA EndStep ==
  ASSUME ToolInv, NEW i \in Invocations, Running(i), NEW pc \in Ended, Go(i, pc),
         UNCHANGED <<tx, records, metadata, mint, supply>>,
         newer' = newer \/ (run[i].pc = "plan" /\ newer' = FALSE),
         verified' = verified \/ (run[i].pc = "check" /\ verified' = run[i].uri)
  PROVE  ToolInv'
<1>1. /\ run' = [run EXCEPT ![i] = [Idle EXCEPT !.pc = pc]]
      /\ [Idle EXCEPT !.pc = pc] \in RunShapes
      /\ pc \notin Stages \cup {"idle"}
  BY DEF Go, Idle, RunShapes, Ended, Stages
<1>2. /\ run'[i].pc = pc /\ run'[i].uri = None /\ run'[i].plan = None
      /\ run'[i].apply = FALSE /\ run'[i].before = 0
      /\ \A j \in Invocations : j # i => run'[j] = run[j]
  BY <1>1 DEF ToolInv, ShapeInv, Idle
<1>3. /\ ~Running(i)' /\ \A j \in Invocations : Running(j)' => Running(j) /\ j # i
      /\ \A j \in Invocations : j # i => Running(j)' = Running(j)
      /\ \A j \in Invocations : Pending(j)' = Pending(j)
  BY <1>2 DEF Running, Pending
<1>4. ShapeInv'
  BY <1>1 DEF ToolInv, ShapeInv
<1>5. TypeOK'
  <2> DEFINE Typed(r, running) ==
        /\ r.pc \in Ended \cup {"idle"} \cup Stages
        /\ r.uri \in IF running THEN Uris ELSE {None}
        /\ r.apply \in BOOLEAN /\ r.before \in Nat
        /\ r.plan \in IF ~running \/ r.pc \in {"mint", "plan"} THEN {None} ELSE Plans
        /\ r.pc \in {"record", "send", "confirm", "read", "check"} => r.apply
  <2>1. Typed(run'[i], FALSE)
    <3>1. pc \notin {"record", "send", "confirm", "read", "check"}
      BY DEF Ended
    <3>2. run'[i].pc \in Ended \cup {"idle"} \cup Stages /\ 0 \in Nat
      BY <1>2
    <3>3. run'[i].apply \in BOOLEAN /\ run'[i].before \in Nat
      BY <1>2, <3>2
    <3>4. /\ run'[i].uri \in {None} /\ run'[i].plan \in {None}
          /\ run'[i].pc \notin {"record", "send", "confirm", "read", "check"}
      BY <1>2, <3>1
    <3> QED
      BY <3>2, <3>3, <3>4
  <2>2. ASSUME NEW j \in Invocations PROVE Typed(run'[j], Running(j)')
    <3>1. CASE j = i
      BY <1>3, <2>1, <3>1
    <3>2. CASE j # i
      <4>1. Typed(run[j], Running(j))
        BY DEF ToolInv, TypeOK, Stages
      <4>2. run'[j] = run[j] /\ Running(j)' = Running(j)
        BY <1>2, <1>3, <3>2
      <4> HIDE DEF Typed
      <4> QED
        BY <4>1, <4>2
    <3> QED
      BY <3>1, <3>2
  <2>3. /\ verified' \in Uris \cup {None}
        /\ \A j \in Invocations :
              tx'[j] = Unsent \/ tx'[j] \in [status : {"sent", "landed", "failed", "expired"}, plan : Plans]
        /\ records' \subseteq Invocations /\ metadata' \in {None} \cup Metadata
        /\ mint' \in Layouts /\ supply' \in Nat /\ newer' \in BOOLEAN
    BY DEF ToolInv, TypeOK
  <2> QED
    BY <2>2, <2>3 DEF TypeOK, Stages
<1>6. RecordInv' /\ SentInv'
  BY <1>1, <1>2 DEF ToolInv, RecordInv, SentInv, Before, After, Stages
<1>7. AloneInv' /\ QuietInv'
  <2>1. AloneInv'
    BY <1>3 DEF ToolInv, AloneInv
  <2>2. CASE verified' = verified
    BY <1>2, <1>3, <2>1, <2>2 DEF ToolInv, QuietInv
  <2>3. CASE run[i].pc = "check"
    <3>1. \A j \in Invocations : ~Pending(j) /\ (Running(j) => j = i)
      BY <2>3 DEF ToolInv, AloneInv, SentInv, Pending, After
    <3> QED
      BY <1>3, <2>1, <3>1 DEF QuietInv
  <2> QED
    BY <2>2, <2>3
<1>8. ReadInv' /\ FeeInv' /\ MintInv'
  <2>1. FeeInv'
    <3>1. CASE newer' = newer
      BY <1>1, <1>2, <1>3, <3>1 DEF ToolInv, FeeInv, Before, Ended
    <3>2. CASE run[i].pc = "plan"
      BY <1>2, <1>3, <3>2 DEF ToolInv, FeeInv, AloneInv, SentInv, Before, Ended, Running, Pending,
                              Unsent
    <3> QED
      BY <3>1, <3>2
  <2> QED
    BY <1>1, <1>2, <1>3, <2>1 DEF ToolInv, ReadInv, MintInv, Stages
<1>9. VerifiedStays'
  BY DEF ToolInv, VerifiedStays, ReadInv, Unchanged
<1> QED
  BY <1>4, <1>5, <1>6, <1>7, <1>8, <1>9 DEF ToolInv

\* An invocation that goes on, to a state r its stage allows.
LEMMA MoveStep ==
  ASSUME ToolInv, NEW i \in Invocations, Running(i), NEW r \in RunShapes,
         run' = [run EXCEPT ![i] = r],
         UNCHANGED <<tx, metadata, mint, supply, verified>>,
         newer' = newer \/ (run[i].pc = "plan" /\ newer' = FALSE),
         records \subseteq records', records' \subseteq Invocations,
         r.pc \in Stages, r.uri = run[i].uri, r.apply = run[i].apply,
         r.plan \in IF r.pc \in {"mint", "plan"} THEN {None} ELSE Plans,
         r.pc \in {"record", "send", "confirm"} \cup After => r.apply,
         r.pc \in {"send", "confirm"} \cup After => i \in records',
         r.pc \in Before => tx[i] = Unsent,
         r.pc \in After => tx[i].status = "landed",
         r.pc = "check" => Unchanged(metadata, r.uri),
         ~newer' /\ r.pc \in Before /\ r.plan # None /\ ~r.plan.create /\ metadata # None
            => r.plan.fee = metadata.fee,
         r.pc # "mint" => ValidateMint(mint)
  PROVE  ToolInv'
<1>1. /\ run'[i] = r
      /\ \A j \in Invocations : j # i => run'[j] = run[j]
  BY DEF ToolInv, ShapeInv
<1>2. /\ \A j \in Invocations : Running(j)' = Running(j)
      /\ \A j \in Invocations : Pending(j)' = Pending(j)
      /\ r.pc \notin Ended \cup {"idle"}
  BY <1>1 DEF Running, Pending, Stages, Ended
<1>3. ShapeInv'
  BY DEF ToolInv, ShapeInv
<1>4. TypeOK'
  <2>1. run[i].uri \in Uris
    BY DEF ToolInv, TypeOK
  <2>2. ASSUME NEW j \in Invocations, j # i
        PROVE  /\ run'[j] = run[j] /\ Running(j)' = Running(j) /\ tx'[j] = tx[j]
    BY <1>1, <1>2, <2>2
  <2>3. /\ r.before \in Nat /\ r.apply \in BOOLEAN /\ r.pc \in Ended \cup {"idle"} \cup Stages
    BY DEF RunShapes
  <2>4. newer' \in BOOLEAN
    BY DEF ToolInv, TypeOK
  <2> QED
    BY <1>1, <1>2, <2>1, <2>2, <2>3, <2>4 DEF ToolInv, TypeOK, Stages, Before, After
<1>5. RecordInv'
  BY <1>1 DEF ToolInv, RecordInv
<1>6. SentInv'
  BY <1>1, <1>2 DEF ToolInv, SentInv
<1>7. AloneInv' /\ QuietInv'
  BY <1>1, <1>2 DEF ToolInv, AloneInv, QuietInv
<1>8. ReadInv' /\ FeeInv' /\ MintInv'
  <2>1. /\ \A j \in Invocations : j # i => ~Running(j) /\ ~Pending(j)
        /\ run[i].pc = "plan" => ~Pending(i)
    BY DEF ToolInv, AloneInv, SentInv, Pending, Before, Unsent
  <2>2. FeeInv'
    BY <1>1, <1>2, <2>1 DEF ToolInv, FeeInv, Running, Before, Ended
  <2> QED
    BY <1>1, <1>2, <2>2 DEF ToolInv, ReadInv, MintInv
<1>9. VerifiedStays'
  BY DEF ToolInv, VerifiedStays
<1> QED
  BY <1>3, <1>4, <1>5, <1>6, <1>7, <1>8, <1>9 DEF ToolInv

-----------------------------------------------------------------------------
(* An invocation.                                                          *)

\* A stage is entered with the fields as they are.
LEMMA GoStage ==
  ASSUME ToolInv, NEW i \in Invocations, NEW pc \in Stages, Go(i, pc)
  PROVE  /\ run' = [run EXCEPT ![i] = [run[i] EXCEPT !.pc = pc]]
         /\ [run[i] EXCEPT !.pc = pc] \in RunShapes
BY DEF Go, ToolInv, ShapeInv, RunShapes, Stages, Ended

LEMMA StartStep ==
  ASSUME ToolInv, NEW i \in Invocations, NEW uri \in Uris, NEW apply \in BOOLEAN,
         Start(i, uri, apply)
  PROVE  ToolInv'
<1>1. /\ run[i].pc = "idle" /\ tx[i] = Unsent
      /\ \A j \in Invocations : ~Running(j) /\ ~Pending(j)
      /\ UNCHANGED <<tx, records, metadata, mint, supply, newer>>
      /\ verified' = IF apply THEN None ELSE verified
  BY DEF Start, chain, ToolInv, SentInv, RecordInv, Pending, Unsent
<1>2. PICK r \in RunShapes : /\ r = [Idle EXCEPT !.pc = "mint", !.uri = uri, !.apply = apply]
                       /\ run' = [run EXCEPT ![i] = r]
  BY DEF Start, Idle, RunShapes, Stages
<1>3. /\ run'[i] = r /\ r.pc = "mint" /\ r.uri = uri /\ r.apply = apply
      /\ r.plan = None /\ r.before = 0
      /\ \A j \in Invocations : j # i => run'[j] = run[j]
  BY <1>2 DEF ToolInv, ShapeInv, Idle
<1>4. /\ \A j \in Invocations : ~Pending(j)' /\ (Running(j)' => j = i)
      /\ \A j \in Invocations : j # i => Running(j)' = Running(j)
      /\ Running(i)'
  BY <1>1, <1>3 DEF Running, Pending, Ended
<1>5. ShapeInv'
  BY <1>1, <1>2 DEF ToolInv, ShapeInv
<1>6. TypeOK'
  <2>1. ASSUME NEW j \in Invocations, j # i
        PROVE  run'[j] = run[j] /\ Running(j)' = Running(j) /\ tx'[j] = tx[j]
    BY <1>1, <1>3, <1>4, <2>1
  <2> QED
    BY <1>1, <1>3, <1>4, <2>1 DEF ToolInv, TypeOK
<1>7. RecordInv' /\ SentInv'
  BY <1>1, <1>3 DEF ToolInv, RecordInv, SentInv, Before, After
<1>8. AloneInv' /\ QuietInv'
  BY <1>1, <1>3, <1>4 DEF AloneInv, QuietInv
<1>9. ReadInv' /\ FeeInv' /\ MintInv'
  BY <1>1, <1>3, <1>4 DEF ToolInv, ReadInv, FeeInv, MintInv
<1>10. VerifiedStays'
  BY <1>1 DEF ToolInv, VerifiedStays
<1> QED
  BY <1>5, <1>6, <1>7, <1>8, <1>9, <1>10 DEF ToolInv

LEMMA ReadMintStep ==
  ASSUME ToolInv, NEW i \in Invocations, ReadMint(i)
  PROVE  ToolInv'
<1>1. /\ run[i].pc = "mint" /\ Running(i) /\ tx[i] = Unsent /\ run[i].plan = None
      /\ UNCHANGED <<tx, records, metadata, mint, supply, verified, newer>>
      /\ records \subseteq Invocations /\ supply \in Nat
  BY DEF ReadMint, chain, Running, Ended, ToolInv, SentInv, Before, TypeOK
<1>2. CASE ValidateMint(mint)
  <2> DEFINE r == [run[i] EXCEPT !.pc = "plan", !.before = supply]
  <2>1. /\ r \in RunShapes /\ run' = [run EXCEPT ![i] = r]
        /\ r.pc = "plan" /\ r.uri = run[i].uri /\ r.apply = run[i].apply /\ r.plan = None
    <3>1. run \in [Invocations -> RunShapes] /\ run[i] \in RunShapes
      BY DEF ToolInv, ShapeInv
    <3>2. /\ r \in RunShapes
          /\ r.pc = "plan" /\ r.uri = run[i].uri /\ r.apply = run[i].apply /\ r.plan = None
      BY <1>1, <3>1 DEF RunShapes, Stages
    <3>3. run' = [run EXCEPT ![i] = r]
      BY <1>2, <3>1 DEF ReadMint, RunShapes
    <3> QED
      BY <3>2, <3>3
  <2> HIDE DEF r
  <2> QED
    BY <1>1, <1>2, <2>1, MoveStep DEF Stages, Before, After
<1>3. CASE ~ValidateMint(mint)
  BY <1>1, <1>3, EndStep DEF ReadMint, Ended
<1> QED
  BY <1>2, <1>3

\* What is planned is a transaction that keeps the fee.
LEMMA ChangeFacts ==
  ASSUME ToolInv, NEW uri \in Uris
  PROVE  LET plan == Change(metadata, uri) IN
         plan \in Plans /\ (~plan.create => plan.fee = metadata.fee)
BY ToolAssumption DEF Change, Plans, ToolInv, TypeOK, Metadata

LEMMA PlanStep ==
  ASSUME ToolInv, NEW i \in Invocations, Plan(i)
  PROVE  ToolInv'
<1>1. /\ run[i].pc = "plan" /\ Running(i) /\ tx[i] = Unsent /\ run[i].uri \in Uris
      /\ UNCHANGED <<tx, records, metadata, mint, supply, verified>> /\ newer' = FALSE
      /\ records \subseteq Invocations /\ ValidateMint(mint)
  BY DEF Plan, chain, Running, Ended, ToolInv, SentInv, Before, TypeOK, MintInv
<1>2. CASE ~Refused(metadata) /\ ~Unchanged(metadata, run[i].uri)
  <2> DEFINE plan == Change(metadata, run[i].uri)
             r == [run[i] EXCEPT !.pc = "simulate", !.plan = plan]
  <2>1. plan \in Plans /\ (~plan.create => plan.fee = metadata.fee)
    BY <1>1, ChangeFacts
  <2>2. /\ r \in RunShapes /\ run' = [run EXCEPT ![i] = r]
        /\ r.pc = "simulate" /\ r.uri = run[i].uri /\ r.apply = run[i].apply /\ r.plan = plan
    BY <1>1, <1>2, <2>1 DEF Plan, ToolInv, ShapeInv, RunShapes, Stages
  <2> HIDE DEF plan, r
  <2> QED
    BY <1>1, <2>1, <2>2, MoveStep DEF Stages, Before, After
<1>3. CASE Refused(metadata) \/ Unchanged(metadata, run[i].uri)
  BY <1>1, <1>3, EndStep DEF Plan, Ended
<1> QED
  BY <1>2, <1>3

\* A stage that only looks, and goes on or ends.
LEMMA GoOn ==
  ASSUME ToolInv, NEW i \in Invocations, Running(i), NEW pc \in Stages \ {"mint", "plan"},
         Go(i, pc), run[i].pc \notin {"mint", "plan"},
         UNCHANGED <<tx, metadata, mint, supply, verified, newer>>,
         records \subseteq records', records' \subseteq Invocations,
         pc \in {"record", "send", "confirm"} \cup After => run[i].apply,
         pc \in {"send", "confirm"} \cup After => i \in records',
         pc \in Before => run[i].pc \in Before /\ tx[i] = Unsent,
         pc \in After => tx[i].status = "landed",
         pc = "check" => Unchanged(metadata, run[i].uri)
  PROVE  ToolInv'
<1> DEFINE r == [run[i] EXCEPT !.pc = pc]
<1>1. /\ run' = [run EXCEPT ![i] = r] /\ r \in RunShapes
  BY GoStage
<1>2. /\ r.pc = pc /\ r.uri = run[i].uri /\ r.apply = run[i].apply /\ r.plan = run[i].plan
  BY DEF ToolInv, ShapeInv, RunShapes
<1>3. /\ run[i].plan \in Plans /\ ValidateMint(mint)
      /\ ~newer /\ pc \in Before /\ ~run[i].plan.create /\ metadata # None
         => run[i].plan.fee = metadata.fee
  BY ToolAssumption DEF ToolInv, TypeOK, MintInv, FeeInv
<1> HIDE DEF r
<1> QED
  BY <1>1, <1>2, <1>3, MoveStep

LEMMA SimulateStep ==
  ASSUME ToolInv, NEW i \in Invocations, Simulate(i)
  PROVE  ToolInv'
<1>1. /\ run[i].pc = "simulate" /\ Running(i) /\ tx[i] = Unsent
      /\ UNCHANGED <<tx, records, metadata, mint, supply, verified, newer>>
      /\ records \subseteq Invocations
  BY DEF Simulate, chain, Running, Ended, ToolInv, SentInv, Before, TypeOK
<1>2. \/ \E pc \in {"stopped", "simulated"} : Go(i, pc)
      \/ run[i].apply /\ Go(i, "record")
  BY DEF Simulate
<1>3. ASSUME NEW pc \in {"stopped", "simulated"}, Go(i, pc) PROVE ToolInv'
  BY <1>1, <1>3, EndStep DEF Ended
<1>4. CASE run[i].apply /\ Go(i, "record")
  BY <1>1, <1>4, GoOn DEF Stages, Before, After
<1> QED
  BY <1>2, <1>3, <1>4

LEMMA RecordStep ==
  ASSUME ToolInv, NEW i \in Invocations, Record(i)
  PROVE  ToolInv'
<1>1. /\ run[i].pc = "record" /\ Running(i) /\ tx[i] = Unsent /\ run[i].apply
      /\ UNCHANGED <<tx, metadata, mint, supply, verified, newer>>
      /\ records' = records \cup {i} /\ records' \subseteq Invocations
      /\ Go(i, "send")
  BY DEF Record, chain, Running, Ended, ToolInv, SentInv, Before, TypeOK
<1> QED
  BY <1>1, GoOn DEF Stages, Before, After

LEMMA ConfirmStep ==
  ASSUME ToolInv, NEW i \in Invocations, Confirm(i)
  PROVE  ToolInv'
<1>1. /\ run[i].pc = "confirm" /\ Running(i) /\ run[i].apply /\ i \in records
      /\ UNCHANGED <<tx, records, metadata, mint, supply, verified, newer>>
      /\ records \subseteq Invocations
  BY DEF Confirm, chain, Running, Ended, ToolInv, RecordInv, TypeOK
<1>2. CASE tx[i].status = "landed"
  BY <1>1, <1>2, GoOn DEF Confirm, Stages, Before, After
<1>3. CASE tx[i].status # "landed"
  BY <1>1, <1>3, EndStep DEF Confirm, Ended
<1> QED
  BY <1>2, <1>3

LEMMA ReadBackStep ==
  ASSUME ToolInv, NEW i \in Invocations, ReadBack(i)
  PROVE  ToolInv'
<1>1. /\ run[i].pc = "read" /\ Running(i) /\ run[i].apply /\ i \in records
      /\ tx[i].status = "landed"
      /\ UNCHANGED <<tx, records, metadata, mint, supply, verified, newer>>
      /\ records \subseteq Invocations
  BY DEF ReadBack, chain, Running, Ended, ToolInv, RecordInv, SentInv, TypeOK, After
<1>2. CASE ~Refused(metadata) /\ Unchanged(metadata, run[i].uri)
  BY <1>1, <1>2, GoOn DEF ReadBack, Stages, Before, After
<1>3. CASE ~(~Refused(metadata) /\ Unchanged(metadata, run[i].uri))
  BY <1>1, <1>3, EndStep DEF ReadBack, Ended
<1> QED
  BY <1>2, <1>3

LEMMA SendStep ==
  ASSUME ToolInv, NEW i \in Invocations, Send(i)
  PROVE  ToolInv'
<1>1. /\ run[i].pc = "send" /\ Running(i) /\ tx[i] = Unsent /\ i \in records /\ run[i].apply
      /\ UNCHANGED <<records, metadata, mint, supply, verified, newer>>
      /\ run[i].plan \in Plans /\ run[i].uri \in Uris
  BY DEF Send, Running, Ended, ToolInv, SentInv, RecordInv, Before, After, TypeOK
<1>2. CASE tx' = tx /\ Go(i, "stopped")
  BY <1>1, <1>2, EndStep DEF Ended
<1>3. ASSUME NEW pc \in {"confirm", "stopped"}, Go(i, pc),
             tx' = [tx EXCEPT ![i] = [status |-> "sent", plan |-> run[i].plan]]
      PROVE  ToolInv'
  <2> DEFINE r == IF pc = "confirm" THEN [run[i] EXCEPT !.pc = pc] ELSE [Idle EXCEPT !.pc = pc]
  <2>1. /\ r \in RunShapes /\ run' = [run EXCEPT ![i] = r] /\ r.pc = pc
        /\ r.before \in Nat
        /\ pc = "confirm" =>
              r.uri = run[i].uri /\ r.apply = run[i].apply /\ r.plan = run[i].plan
        /\ pc # "confirm" =>
              r.uri = None /\ r.apply = FALSE /\ r.plan = None
    <3>1. CASE pc = "confirm"
      <4>1. r = [run[i] EXCEPT !.pc = pc] /\ pc \in Stages /\ run[i] \in RunShapes
        BY <3>1 DEF Stages, ToolInv, ShapeInv
      <4> HIDE DEF r
      <4>2. r \in RunShapes /\ run' = [run EXCEPT ![i] = r]
        BY <1>3, <4>1, GoStage
      <4> QED
        BY <3>1, <4>1, <4>2 DEF RunShapes
    <3>2. CASE pc = "stopped"
      BY <1>3, <3>2 DEF Go, Idle, Ended, RunShapes
    <3> QED
      BY <1>3, <3>1, <3>2
  <2> HIDE DEF r
  <2>2. /\ run'[i] = r
        /\ \A j \in Invocations : j # i => run'[j] = run[j] /\ tx'[j] = tx[j]
        /\ tx'[i] = [status |-> "sent", plan |-> run[i].plan]
    BY <1>3, <2>1 DEF ToolInv, ShapeInv
  <2>3. /\ \A j \in Invocations : j # i => ~Running(j) /\ ~Pending(j)
        /\ \A j \in Invocations : j # i => Running(j)' = Running(j) /\ Pending(j)' = Pending(j)
        /\ Pending(i)' /\ (Running(i)' <=> pc = "confirm")
        /\ verified = None
    BY <1>1, <1>3, <2>1, <2>2 DEF ToolInv, AloneInv, QuietInv, Running, Pending, Ended
  <2>4. ShapeInv'
    BY <1>1, <1>3, <2>1 DEF ToolInv, ShapeInv, Transactions
  <2>5. TypeOK'
    <3>1. ASSUME NEW j \in Invocations, j # i
          PROVE  run'[j] = run[j] /\ Running(j)' = Running(j) /\ tx'[j] = tx[j]
      BY <2>2, <2>3, <3>1
    <3>2. tx'[i] \in [status : {"sent", "landed", "failed", "expired"}, plan : Plans]
      BY <1>1, <2>2
    <3>3. /\ r.pc \in Ended \cup {"confirm"}
          /\ r.uri \in (IF Running(i)' THEN Uris ELSE {None})
          /\ r.plan \in (IF ~Running(i)' \/ r.pc \in {"mint", "plan"} THEN {None} ELSE Plans)
          /\ r.pc \in {"record", "send", "confirm", "read", "check"} => r.apply
          /\ r.apply \in BOOLEAN
      BY <1>1, <1>3, <2>1, <2>3 DEF Ended
    <3> QED
      BY <1>1, <2>1, <2>2, <3>1, <3>2, <3>3 DEF ToolInv, TypeOK
  <2>6. RecordInv' /\ SentInv'
    BY <1>1, <1>3, <2>1, <2>2 DEF ToolInv, RecordInv, SentInv, Before, After
  <2>7. AloneInv' /\ QuietInv'
    BY <1>1, <2>3 DEF AloneInv, QuietInv
  <2>8. ReadInv' /\ MintInv'
    BY <1>1, <1>3, <2>1, <2>2, <2>3 DEF ToolInv, ReadInv, MintInv
  <2>9. FeeInv'
    BY <1>1, <1>3, <2>1, <2>2, <2>3, ToolAssumption DEF ToolInv, FeeInv, Before
  <2>10. VerifiedStays'
    BY <1>1 DEF ToolInv, VerifiedStays
  <2> QED
    BY <2>4, <2>5, <2>6, <2>7, <2>8, <2>9, <2>10 DEF ToolInv
<1> QED
  BY <1>2, <1>3 DEF Send

LEMMA CheckMintStep ==
  ASSUME ToolInv, NEW i \in Invocations, CheckMint(i)
  PROVE  ToolInv'
<1>1. /\ run[i].pc = "check" /\ Running(i)
      /\ UNCHANGED <<tx, records, metadata, mint, supply, newer>>
  BY DEF CheckMint, chain, Running, Ended
<1>2. \/ Go(i, "verified") /\ verified' = run[i].uri
      \/ Go(i, "stopped") /\ verified' = verified
  BY DEF CheckMint
<1> QED
  BY <1>1, <1>2, EndStep DEF Ended

LEMMA StopStep ==
  ASSUME ToolInv, NEW i \in Invocations, Stop(i)
  PROVE  ToolInv'
BY EndStep DEF Stop, chain, Ended

-----------------------------------------------------------------------------
(* The cluster and the owner of the metadata.                              *)

\* A transaction that is no longer pending.
LEMMA DecidedFacts ==
  ASSUME ToolInv, NEW i \in Invocations, Pending(i),
         NEW status \in {"landed", "failed", "expired"},
         tx' = [tx EXCEPT ![i].status = status], run' = run,
         UNCHANGED <<records, mint, supply, verified, newer>>,
         metadata' \in {None} \cup Metadata
  PROVE  /\ tx'[i].status = status /\ tx'[i].plan = tx[i].plan
         /\ \A j \in Invocations : j # i => tx'[j] = tx[j] /\ ~Pending(j) /\ ~Running(j)
         /\ \A j \in Invocations : ~Pending(j)' /\ Running(j)' = Running(j)
         /\ verified = None
         /\ run[i].pc \notin Before \cup After \cup {"idle"}
         /\ TypeOK' /\ ShapeInv' /\ RecordInv' /\ SentInv' /\ AloneInv' /\ QuietInv' /\ MintInv'
         /\ ReadInv' /\ VerifiedStays'
<1>1. /\ tx'[i].status = status /\ tx'[i].plan = tx[i].plan
      /\ \A j \in Invocations : j # i => tx'[j] = tx[j]
      /\ tx[i].status = "sent" /\ tx[i] # Unsent /\ tx[i].plan \in Plans
      /\ tx'[i] \in [status : {"sent", "landed", "failed", "expired"}, plan : Plans]
  BY DEF Pending, ToolInv, ShapeInv, Transactions, TypeOK, Unsent
<1>2. /\ \A j \in Invocations : j # i => ~Pending(j) /\ ~Running(j)
      /\ verified = None
      /\ run[i].pc \notin Before \cup After \cup {"idle"}
  BY <1>1 DEF ToolInv, AloneInv, QuietInv, SentInv
<1>3. \A j \in Invocations : ~Pending(j)' /\ Running(j)' = Running(j)
  BY <1>1, <1>2 DEF Pending, Running
<1>4. ShapeInv'
  BY DEF ToolInv, ShapeInv, Transactions
<1>5. TypeOK'
  BY <1>1, <1>3 DEF ToolInv, TypeOK
<1>6. RecordInv'
  BY <1>1 DEF ToolInv, RecordInv
<1>7. SentInv'
  BY <1>1, <1>2 DEF ToolInv, SentInv
<1>8. AloneInv' /\ QuietInv'
  BY <1>2, <1>3 DEF ToolInv, AloneInv, QuietInv
<1>9. MintInv'
  BY <1>1, <1>3 DEF ToolInv, MintInv
<1>10. ReadInv' /\ VerifiedStays'
  BY <1>2 DEF ReadInv, VerifiedStays, Running, Ended, After
<1> QED
  BY <1>1, <1>2, <1>3, <1>4, <1>5, <1>6, <1>7, <1>8, <1>9, <1>10

LEMMA LandStep ==
  ASSUME ToolInv, NEW i \in Invocations, Land(i)
  PROVE  ToolInv'
<1>1. /\ Pending(i) /\ run' = run /\ UNCHANGED <<records, mint, supply, verified, newer>>
      /\ tx[i].plan \in Plans
  BY DEF Land, ToolInv, TypeOK, Pending, Unsent
<1>2. CASE Succeeds(tx[i].plan)
  <2>1. /\ tx' = [tx EXCEPT ![i].status = "landed"]
        /\ metadata' = [uri |-> tx[i].plan.uri, fee |-> tx[i].plan.fee,
                        orbit |-> TRUE, ours |-> TRUE]
    BY <1>2 DEF Land
  <2>2. metadata' \in Metadata
    BY <1>1, <2>1 DEF Metadata, Plans
  <2>3. /\ \A j \in Invocations : ~Pending(j)'
        /\ \A j \in Invocations : j # i => ~Running(j)
        /\ run[i].pc \notin Before
        /\ TypeOK' /\ ShapeInv' /\ RecordInv' /\ SentInv' /\ AloneInv' /\ QuietInv' /\ MintInv'
        /\ ReadInv' /\ VerifiedStays'
    BY <1>1, <2>1, <2>2, DecidedFacts
  <2>4. FeeInv'
    BY <1>1, <2>3 DEF FeeInv, Running, Before, Ended
  <2> QED
    BY <2>3, <2>4 DEF ToolInv
<1>3. CASE ~Succeeds(tx[i].plan)
  <2>1. /\ tx' = [tx EXCEPT ![i].status = "failed"] /\ metadata' = metadata
        /\ metadata \in {None} \cup Metadata
    BY <1>3 DEF Land, ToolInv, TypeOK
  <2>2. /\ \A j \in Invocations : ~Pending(j)' /\ Running(j)' = Running(j)
        /\ TypeOK' /\ ShapeInv' /\ RecordInv' /\ SentInv' /\ AloneInv' /\ QuietInv' /\ MintInv'
        /\ ReadInv' /\ VerifiedStays'
    BY <1>1, <2>1, DecidedFacts
  <2>3. FeeInv'
    BY <1>1, <2>1, <2>2 DEF ToolInv, FeeInv
  <2> QED
    BY <2>2, <2>3 DEF ToolInv
<1> QED
  BY <1>2, <1>3

LEMMA ExpireStep ==
  ASSUME ToolInv, NEW i \in Invocations, Expire(i)
  PROVE  ToolInv'
<1>1. /\ Pending(i) /\ run' = run /\ UNCHANGED <<records, metadata, mint, supply, verified, newer>>
      /\ tx' = [tx EXCEPT ![i].status = "expired"]
      /\ metadata \in {None} \cup Metadata
  BY DEF Expire, ToolInv, TypeOK
<1>2. /\ \A j \in Invocations : ~Pending(j)'
      /\ TypeOK' /\ ShapeInv' /\ RecordInv' /\ SentInv' /\ AloneInv' /\ QuietInv' /\ MintInv'
      /\ ReadInv' /\ VerifiedStays'
  BY <1>1, DecidedFacts
<1>3. FeeInv'
  BY <1>1, <1>2 DEF ToolInv, FeeInv
<1> QED
  BY <1>2, <1>3 DEF ToolInv

LEMMA AwardStep ==
  ASSUME ToolInv, Award
  PROVE  ToolInv'
<1>1. /\ UNCHANGED <<run, tx, records, metadata, mint, verified, newer>> /\ supply' = supply + 1
      /\ \A j \in Invocations : Running(j)' = Running(j) /\ Pending(j)' = Pending(j)
  BY DEF Award, Running, Pending
<1>2. TypeOK' /\ ShapeInv'
  BY <1>1 DEF ToolInv, TypeOK, ShapeInv
<1>3. RecordInv' /\ SentInv' /\ AloneInv' /\ QuietInv'
  BY <1>1 DEF ToolInv, RecordInv, SentInv, AloneInv, QuietInv
<1>4. ReadInv' /\ FeeInv' /\ MintInv' /\ VerifiedStays'
  BY <1>1 DEF ToolInv, ReadInv, FeeInv, MintInv, VerifiedStays
<1> QED
  BY <1>2, <1>3, <1>4 DEF ToolInv

LEMMA SetFeeStep ==
  ASSUME ToolInv, NEW f \in Fees, SetFee(f)
  PROVE  ToolInv'
<1>1. /\ UNCHANGED <<run, tx, records, mint, supply, verified>> /\ newer' = TRUE
      /\ \A j \in Invocations : Running(j)' = Running(j) /\ Pending(j)' = Pending(j)
  BY DEF SetFee, Running, Pending
<1>2. /\ metadata \in Metadata /\ metadata' = [metadata EXCEPT !.fee = f]
      /\ metadata' \in Metadata
      /\ metadata'.orbit = metadata.orbit /\ metadata'.uri = metadata.uri
  BY DEF SetFee, ToolInv, TypeOK, Metadata
<1>3. TypeOK' /\ ShapeInv'
  BY <1>1, <1>2 DEF ToolInv, TypeOK, ShapeInv
<1>4. RecordInv' /\ SentInv' /\ AloneInv' /\ QuietInv' /\ MintInv'
  BY <1>1 DEF ToolInv, RecordInv, SentInv, AloneInv, QuietInv, MintInv
<1>5. ReadInv' /\ FeeInv'
  BY <1>1, <1>2, ToolAssumption DEF ToolInv, ReadInv, FeeInv, Unchanged
<1>6. VerifiedStays'
  BY <1>1, <1>2, ToolAssumption DEF ToolInv, VerifiedStays
<1> QED
  BY <1>3, <1>4, <1>5, <1>6 DEF ToolInv

LEMMA ToolStep == ToolInv /\ [Next]_vars => ToolInv'
<1> SUFFICES ASSUME ToolInv, [Next]_vars PROVE ToolInv'
  OBVIOUS
<1>1. ASSUME NEW i \in Invocations,
             \/ \E uri \in Uris, apply \in BOOLEAN : Start(i, uri, apply)
             \/ ReadMint(i) \/ Plan(i) \/ Simulate(i) \/ Record(i) \/ Send(i)
             \/ Confirm(i) \/ ReadBack(i) \/ CheckMint(i) \/ Stop(i)
             \/ Land(i) \/ Expire(i)
      PROVE  ToolInv'
  BY <1>1, StartStep, ReadMintStep, PlanStep, SimulateStep, RecordStep, SendStep, ConfirmStep,
     ReadBackStep, CheckMintStep, StopStep, LandStep, ExpireStep
<1>2. CASE UNCHANGED vars
  <2>1. \A j \in Invocations : Running(j)' = Running(j) /\ Pending(j)' = Pending(j)
    BY <1>2 DEF vars, Running, Pending
  <2>2. TypeOK' /\ ShapeInv'
    BY <1>2, <2>1 DEF vars, ToolInv, TypeOK, ShapeInv
  <2>3. RecordInv' /\ SentInv' /\ AloneInv' /\ QuietInv'
    BY <1>2, <2>1 DEF vars, ToolInv, RecordInv, SentInv, AloneInv, QuietInv
  <2>4. ReadInv' /\ FeeInv' /\ MintInv' /\ VerifiedStays'
    BY <1>2, <2>1 DEF vars, ToolInv, ReadInv, FeeInv, MintInv, VerifiedStays
  <2> QED
    BY <2>2, <2>3, <2>4 DEF ToolInv
<1> QED
  BY <1>1, <1>2, AwardStep, SetFeeStep DEF Next

-----------------------------------------------------------------------------
\* The inductive invariant holds in every reachable state: one transaction at
\* most is planned or pending, and its record is on disk before it is sent.
THEOREM ToolInvariant == Spec => []ToolInv
BY ToolInit, ToolStep, PTL DEF Spec

\* The type invariant, by which only --apply submits and only what was planned.
THEOREM TypesAreKept == Spec => []TypeOK
<1>1. ToolInv => TypeOK
  BY DEF ToolInv
<1> QED
  BY <1>1, ToolInvariant, PTL

\* What main reported as finalized and verified stays published until the next
\* --apply, whatever was interrupted before (README.md:218).
THEOREM VerifiedIsLasting == Spec => []VerifiedStays
<1>1. ToolInv => VerifiedStays
  BY DEF ToolInv
<1> QED
  BY <1>1, ToolInvariant, PTL

\* No transaction of the tool changes a fee that the owner has left as the last
\* invocation read it (metadataChange, README.md:218).
THEOREM KnownFeeIsKept == Spec => KnownFeeStays
<1> DEFINE Keeps == tx' # tx /\ metadata # None /\ ~newer => metadata'.fee = metadata.fee
<1>1. ToolInv /\ [Next]_vars => [Keeps]_vars
  <2> SUFFICES ASSUME ToolInv, Next, tx' # tx, metadata # None, ~newer
               PROVE  metadata'.fee = metadata.fee
    OBVIOUS
  <2>1. ASSUME NEW i \in Invocations, Land(i) PROVE metadata'.fee = metadata.fee
    <3>1. CASE Succeeds(tx[i].plan)
      <4>1. ~tx[i].plan.create /\ Pending(i) /\ metadata'.fee = tx[i].plan.fee
        BY <2>1, <3>1 DEF Land, Succeeds
      <4> QED
        BY <4>1 DEF ToolInv, FeeInv
    <3>2. CASE ~Succeeds(tx[i].plan)
      BY <2>1, <3>2 DEF Land
    <3> QED
      BY <3>1, <3>2
  <2>2. ASSUME NEW i \in Invocations, Send(i) \/ Expire(i) PROVE metadata' = metadata
    BY <2>2 DEF Send, Expire
  <2>3. ASSUME NEW i \in Invocations,
               \/ \E uri \in Uris, apply \in BOOLEAN : Start(i, uri, apply)
               \/ ReadMint(i) \/ Plan(i) \/ Simulate(i) \/ Record(i)
               \/ Confirm(i) \/ ReadBack(i) \/ CheckMint(i) \/ Stop(i)
        PROVE  tx' = tx
    BY <2>3 DEF Start, ReadMint, Plan, Simulate, Record, Confirm, ReadBack, CheckMint, Stop, chain
  <2>4. ASSUME NEW f \in Fees, SetFee(f) \/ Award PROVE tx' = tx
    BY <2>4 DEF SetFee, Award
  <2>5. Award => tx' = tx
    BY DEF Award
  <2> QED
    BY <2>1, <2>2, <2>3, <2>4, <2>5 DEF Next
<1>2. Spec => [][Keeps]_vars
  BY <1>1, ToolInvariant, PTL DEF Spec
<1> QED
  BY <1>2 DEF KnownFeeStays

\* A mint the tool sends a transaction for passes Validate of the API
\* (metadata-plan.ts:45).
THEOREM PublishedMintIsServed == Spec => []ServerTakesTheMint
<1>1. ASSUME NEW m, ValidateMint(m) PROVE ServerValidates(m)
  BY <1>1 DEF ValidateMint, ServerValidates
<1>2. ToolInv => ServerTakesTheMint
  BY <1>1 DEF ToolInv, MintInv, ServerTakesTheMint
<1> QED
  BY <1>2, ToolInvariant, PTL

-----------------------------------------------------------------------------
(* The start of servers.  Binding is an INSERT that does nothing on        *)
(* conflict and a SELECT that compares: once a process works, the mint     *)
(* bound is its own and is never replaced, so later and overlapping        *)
(* processes serve it or do not start.                                     *)

ServerPcs == {"down", "migrate", "migrating", "connect", "insert", "select", "serve", "drain"}

\* A process is somewhere in run, and has a mint or none.
ServerInv == server \in [Processes -> [pc : ServerPcs, mint : Mints \cup {None}]]

\* Only processes with a mint bind.
BindInv == \A p \in Processes : server[p].pc \in {"insert", "select"} => server[p].mint # None

\* Who works has the mint that is bound.
WorkInv == \A p \in Processes : Servers!Working(p) => bound = server[p].mint

\* What is journaled is of the mint that is bound.
HistoriesInv == histories \subseteq {bound} \ {None}

InsertsInv == inserts \subseteq Mints /\ None \notin inserts

ServersInv == ServerInv /\ BindInv /\ WorkInv /\ HistoriesInv /\ InsertsInv

LEMMA ServersInit == Servers!Init => ServersInv
BY DEF Servers!Init, ServersInv, ServerPcs, ServerInv, BindInv, WorkInv, Servers!Working, HistoriesInv, InsertsInv

\* Binding never replaces a mint.
LEMMA BindKeeps ==
  ASSUME NEW m, Servers!Bind(m), bound # None
  PROVE  bound' = bound
BY DEF Servers!Bind

\* A step that leaves the database alone and puts no process to work but those
\* whose mint is bound keeps the invariant.
LEMMA ServerQuietStep ==
  ASSUME ServersInv, NEW p \in Processes, NEW pc \in ServerPcs, Servers!Go(p, pc),
         UNCHANGED <<bound, histories>>, InsertsInv',
         pc \in {"insert", "select"} => server[p].mint # None,
         pc \in {"serve", "drain"} => server[p].mint \in {None, bound}
  PROVE  ServersInv'
<1>1. /\ ServerInv'
      /\ \A q \in Processes : server'[q].mint = server[q].mint
      /\ \A q \in Processes : server'[q].pc = IF q = p THEN pc ELSE server[q].pc
  BY DEF ServersInv, ServerInv, Servers!Go
<1>2. BindInv'
  BY <1>1 DEF ServersInv, BindInv
<1>3. WorkInv'
  BY <1>1 DEF ServersInv, WorkInv, Servers!Working
<1>4. HistoriesInv'
  BY DEF ServersInv, HistoriesInv
<1> QED
  BY <1>1, <1>2, <1>3, <1>4 DEF ServersInv

LEMMA ServerStartStep ==
  ASSUME ServersInv, NEW p \in Processes, NEW m \in Mints \cup {None}, Servers!Start(p, m)
  PROVE  ServersInv'
<1>1. /\ ServerInv'
      /\ \A q \in Processes : q # p => server'[q] = server[q]
      /\ server'[p].pc = "migrate"
  BY DEF ServersInv, ServerPcs, ServerInv, Servers!Start
<1>2. bound' = bound /\ histories' = histories /\ inserts' = inserts
  BY DEF Servers!Start, Servers!database
<1>3. BindInv' /\ WorkInv'
  BY <1>1, <1>2 DEF ServersInv, BindInv, WorkInv, Servers!Working
<1> QED
  BY <1>1, <1>2, <1>3 DEF ServersInv, HistoriesInv, InsertsInv

LEMMA BindInsertStep ==
  ASSUME ServersInv, NEW p \in Processes, Servers!BindInsert(p)
  PROVE  ServersInv'
<1>1. /\ server[p].pc = "insert" /\ server[p].mint # None
      /\ Servers!Bind(server[p].mint) /\ Servers!Go(p, "select")
      /\ histories' = histories /\ inserts' = inserts
  BY DEF Servers!BindInsert, ServersInv, BindInv
<1>2. CASE bound # None
  <2>1. bound' = bound
    BY <1>1, <1>2, BindKeeps
  <2> QED
    BY <1>1, <2>1, ServerQuietStep DEF ServerPcs, ServersInv, InsertsInv
<1>3. CASE bound = None
  <2>1. \A q \in Processes : ~Servers!Working(q)
    BY <1>3 DEF ServersInv, WorkInv, Servers!Working
  <2>2. ServerInv' /\ BindInv'
    BY <1>1 DEF ServersInv, ServerPcs, ServerInv, BindInv, Servers!Go
  <2>3. WorkInv'
    BY <1>1, <2>1 DEF ServersInv, ServerInv, WorkInv, Servers!Working, Servers!Go
  <2>4. HistoriesInv' /\ InsertsInv'
    BY <1>1, <1>3 DEF ServersInv, HistoriesInv, InsertsInv
  <2> QED
    BY <2>2, <2>3, <2>4 DEF ServersInv
<1> QED
  BY <1>2, <1>3

LEMMA LateInsertStep ==
  ASSUME ServersInv, NEW m \in Mints, Servers!LateInsert(m)
  PROVE  ServersInv'
<1>1. /\ m # None /\ Servers!Bind(m) /\ server' = server /\ histories' = histories
      /\ inserts' = inserts \ {m}
  BY DEF Servers!LateInsert, ServersInv, InsertsInv
<1>2. ServerInv' /\ BindInv' /\ InsertsInv'
  BY <1>1 DEF ServersInv, ServerInv, BindInv, InsertsInv
<1>3. WorkInv' /\ HistoriesInv'
  <2>1. CASE bound # None
    BY <1>1, <2>1, BindKeeps DEF ServersInv, WorkInv, Servers!Working, HistoriesInv
  <2>2. CASE bound = None
    BY <1>1, <2>2 DEF ServersInv, WorkInv, Servers!Working, HistoriesInv
  <2> QED
    BY <2>1, <2>2
<1> QED
  BY <1>2, <1>3 DEF ServersInv

LEMMA ServerJournalStep ==
  ASSUME ServersInv, NEW p \in Processes, Servers!Journal(p)
  PROVE  ServersInv'
<1>1. server[p].mint = bound /\ bound # None
  BY DEF Servers!Journal, ServersInv, WorkInv, Servers!Working
<1>2. HistoriesInv'
  BY <1>1 DEF Servers!Journal, ServersInv, HistoriesInv
<1> QED
  BY <1>2 DEF Servers!Journal, ServersInv, ServerInv, BindInv, WorkInv, Servers!Working, InsertsInv

LEMMA ServerStopStep ==
  ASSUME ServersInv, NEW p \in Processes, Servers!Stop(p)
  PROVE  ServersInv'
<1>1. InsertsInv'
  BY DEF Servers!Stop, ServersInv, InsertsInv, BindInv, ServerInv
<1>2. Servers!Go(p, "down") /\ UNCHANGED <<bound, histories>>
  BY DEF Servers!Stop
<1> QED
  BY <1>1, <1>2, ServerQuietStep DEF ServerPcs

LEMMA ServersStep == ServersInv /\ [Servers!Next]_(Servers!vars) => ServersInv'
<1> SUFFICES ASSUME ServersInv, [Servers!Next]_(Servers!vars) PROVE ServersInv'
  OBVIOUS
<1>1. ASSUME NEW p \in Processes, Servers!Lock(p) PROVE ServersInv'
  BY <1>1, ServerQuietStep DEF ServerPcs, Servers!Lock, Servers!database, ServersInv, InsertsInv
<1>2. ASSUME NEW p \in Processes, Servers!Migrate(p) PROVE ServersInv'
  BY <1>2, ServerQuietStep DEF ServerPcs, Servers!Migrate, ServersInv, InsertsInv
<1>3. ASSUME NEW p \in Processes, Servers!Connect(p) PROVE ServersInv'
  <2>1. UNCHANGED <<bound, histories, inserts>>
    BY <1>3 DEF Servers!Connect, Servers!database
  <2>2. CASE server[p].mint = None
    BY <1>3, <2>1, <2>2, ServerQuietStep DEF ServerPcs, Servers!Connect, ServersInv, InsertsInv
  <2>3. CASE server[p].mint # None
    BY <1>3, <2>1, <2>3, ServerQuietStep DEF ServerPcs, Servers!Connect, ServersInv, InsertsInv
  <2> QED
    BY <2>2, <2>3
<1>4. ASSUME NEW p \in Processes, Servers!BindSelect(p) PROVE ServersInv'
  <2>1. UNCHANGED <<bound, histories, inserts>>
    BY <1>4 DEF Servers!BindSelect, Servers!database
  <2>2. CASE bound = server[p].mint
    BY <1>4, <2>1, <2>2, ServerQuietStep DEF ServerPcs, Servers!BindSelect, ServersInv, InsertsInv
  <2>3. CASE bound # server[p].mint
    BY <1>4, <2>1, <2>3, ServerQuietStep DEF ServerPcs, Servers!BindSelect, ServersInv, InsertsInv
  <2> QED
    BY <2>2, <2>3
<1>5. ASSUME NEW p \in Processes, Servers!Signal(p) PROVE ServersInv'
  <2>1. UNCHANGED <<bound, histories, inserts>> /\ server[p].mint \in {None, bound}
    BY <1>5 DEF Servers!Signal, Servers!database, ServersInv, WorkInv, Servers!Working
  <2> QED
    BY <1>5, <2>1, ServerQuietStep DEF ServerPcs, Servers!Signal, ServersInv, InsertsInv
<1>6. CASE UNCHANGED Servers!vars
  BY <1>6 DEF Servers!vars, ServersInv, ServerInv, BindInv, WorkInv, Servers!Working, HistoriesInv, InsertsInv
<1> QED
  BY <1>1, <1>2, <1>3, <1>4, <1>5, <1>6, ServerStartStep, BindInsertStep, LateInsertStep,
     ServerJournalStep, ServerStopStep DEF Servers!Next

-----------------------------------------------------------------------------
\* The inductive invariant holds in every reachable state: who works has the
\* mint bound by BindMint, and only its operations are journaled.
THEOREM ServersInvariant == Servers!Spec => []ServersInv
BY ServersInit, ServersStep, PTL DEF Servers!Spec

\* However starts interleave and whatever mints they bring, one database holds
\* the operations of one mint (BindMint, README.md:220).
THEOREM OneHistory == Servers!Spec => []HistoriesAreNotMixed
<1>1. ServersInv => HistoriesAreNotMixed
  <2> SUFFICES ASSUME ServersInv PROVE Cardinality(histories) <= 1
    BY DEF HistoriesAreNotMixed, Servers!HistoriesAreNotMixed, Servers!Cardinality, Cardinality
  <2>1. histories = {} \/ histories = {bound}
    BY DEF ServersInv, HistoriesInv
  <2>2. Cardinality({}) = 0 /\ Cardinality({bound}) = 1
    BY FS_EmptySet, FS_Singleton
  <2> QED
    BY <2>1, <2>2
<1> QED
  BY <1>1, ServersInvariant, PTL

\* A process that serves with a mint works on operations of that mint alone,
\* those of processes before and beside it included (BindMint).
THEOREM ServersKeepToTheirMint == Servers!Spec => []ServersAgree
<1>1. ServersInv => ServersAgree
  BY DEF ServersInv, WorkInv, HistoriesInv, ServersAgree, Servers!ServersAgree
<1> QED
  BY <1>1, ServersInvariant, PTL

\* One migration runs at a time, and who uses the tables has seen them made.
LockInv ==
    /\ lock \in Processes \cup {None} /\ schema \in BOOLEAN /\ bound \in Mints \cup {None}
    /\ \A p \in Processes : server[p].pc = "migrating" <=> lock = p
    /\ \A p \in Processes :
          server[p].pc \in {"connect", "insert", "select", "serve", "drain"} => schema

LEMMA LockStep ==
  ASSUME ServersInv, LockInv, [Servers!Next]_(Servers!vars)
  PROVE  LockInv'
<1>0. server \in [Processes -> [pc : ServerPcs, mint : Mints \cup {None}]] /\ inserts \subseteq Mints
  BY DEF ServersInv, ServerInv, InsertsInv
<1>1. ASSUME NEW p \in Processes, NEW pc \in ServerPcs, Servers!Go(p, pc)
      PROVE  \A q \in Processes : /\ server'[q].mint = server[q].mint
                                  /\ server'[q].pc = IF q = p THEN pc ELSE server[q].pc
  BY <1>0, <1>1 DEF Servers!Go
<1>2. ASSUME NEW p \in Processes, NEW pc \in ServerPcs \ {"migrating"}, Servers!Go(p, pc),
             UNCHANGED <<lock, schema>>, bound' \in Mints \cup {None}, server[p].pc # "migrating",
             pc \in {"connect", "insert", "select", "serve", "drain"} => schema
      PROVE  LockInv'
  BY <1>1, <1>2 DEF LockInv
<1>3. ASSUME NEW p \in Processes, NEW m \in Mints \cup {None}, Servers!Start(p, m) PROVE LockInv'
  <2>1. /\ \A q \in Processes : server'[q].pc = IF q = p THEN "migrate" ELSE server[q].pc
        /\ server[p].pc = "down" /\ UNCHANGED <<lock, schema, bound>>
    BY <1>0, <1>3 DEF Servers!Start, Servers!database
  <2> QED
    BY <2>1 DEF LockInv
<1>4. ASSUME NEW p \in Processes, Servers!Lock(p) PROVE LockInv'
  <2>1. /\ \A q \in Processes : server'[q].pc = IF q = p THEN "migrating" ELSE server[q].pc
        /\ lock = None /\ lock' = p /\ UNCHANGED <<schema, bound>>
    BY <1>1, <1>4 DEF Servers!Lock, Servers!database, ServerPcs
  <2> QED
    BY <2>1, OperationsAssumption DEF LockInv
<1>5. ASSUME NEW p \in Processes, Servers!Migrate(p) PROVE LockInv'
  <2>1. /\ \A q \in Processes : server'[q].pc = IF q = p THEN "connect" ELSE server[q].pc
        /\ server[p].pc = "migrating" /\ lock' = None /\ schema' = TRUE /\ bound' = bound
    BY <1>1, <1>5 DEF Servers!Migrate, ServerPcs
  <2> QED
    BY <2>1, OperationsAssumption DEF LockInv
<1>6. ASSUME NEW p \in Processes, Servers!Connect(p) \/ Servers!BindSelect(p) \/ Servers!Signal(p)
      PROVE  LockInv'
  <2>1. /\ \E pc \in {"insert", "serve", "down", "drain"} : Servers!Go(p, pc)
        /\ server[p].pc \in {"connect", "select", "serve"} /\ UNCHANGED <<lock, schema, bound>>
    BY <1>6 DEF Servers!Connect, Servers!BindSelect, Servers!Signal, Servers!database
  <2> QED
    BY <1>2, <2>1 DEF LockInv, ServerPcs
<1>7. ASSUME NEW p \in Processes, Servers!BindInsert(p) PROVE LockInv'
  <2>1. /\ Servers!Go(p, "select") /\ server[p].pc = "insert" /\ UNCHANGED <<lock, schema>>
        /\ bound' \in {bound, server[p].mint}
    BY <1>7 DEF Servers!BindInsert, Servers!Bind
  <2>2. bound' \in Mints \cup {None}
    BY <1>0, <2>1 DEF LockInv
  <2> QED
    BY <1>2, <2>1, <2>2 DEF LockInv, ServerPcs
<1>8. ASSUME NEW p \in Processes, Servers!Stop(p) PROVE LockInv'
  <2>1. /\ \A q \in Processes : server'[q].pc = IF q = p THEN "down" ELSE server[q].pc
        /\ lock' = IF lock = p THEN None ELSE lock
        /\ UNCHANGED <<schema, bound>>
    BY <1>1, <1>8 DEF Servers!Stop, ServerPcs
  <2> QED
    BY <2>1, OperationsAssumption DEF LockInv
<1>9. ASSUME NEW m \in Mints, Servers!LateInsert(m) PROVE LockInv'
  <2>1. UNCHANGED <<server, lock, schema>> /\ bound' \in {bound, m}
    BY <1>9 DEF Servers!LateInsert, Servers!Bind
  <2> QED
    BY <2>1 DEF LockInv
<1>10. ASSUME UNCHANGED <<server, lock, schema, bound>> PROVE LockInv'
  BY <1>10 DEF LockInv
<1> QED
  BY <1>3, <1>4, <1>5, <1>6, <1>7, <1>8, <1>9, <1>10
     DEF Servers!Next, Servers!Journal, Servers!vars

\* The type invariant: the advisory lock admits one migration at a time, and
\* no process goes on before the tables are there (Migrate).
THEOREM ServersAreTyped == Servers!Spec => []Servers!TypeOK
<1>1. Servers!Init => LockInv
  <2> SUFFICES ASSUME Servers!Init PROVE LockInv
    OBVIOUS
  <2>1. \A p \in Processes : server[p].pc = "down"
    BY DEF Servers!Init
  <2>2. lock = None /\ bound = None /\ schema = FALSE
    BY DEF Servers!Init
  <2> QED
    BY <2>1, <2>2, OperationsAssumption DEF LockInv
<1>2. ServersInv /\ LockInv /\ [Servers!Next]_(Servers!vars) => LockInv'
  BY LockStep
<1>3. ServersInv /\ LockInv => Servers!TypeOK
  <2> SUFFICES ASSUME ServersInv, LockInv PROVE Servers!TypeOK
    OBVIOUS
  <2>1. histories \subseteq Mints /\ inserts \subseteq Mints
    BY DEF ServersInv, HistoriesInv, InsertsInv, LockInv
  <2> QED
    BY <2>1 DEF ServersInv, ServerInv, ServerPcs, LockInv, Servers!TypeOK
<1> QED
  BY <1>1, <1>2, <1>3, ServersInvariant, PTL DEF Servers!Spec

-----------------------------------------------------------------------------
(* The API's Redis.  A counter has at most a minute to live, and each tick *)
(* that ages it takes one off what it has left; in the same way what a     *)
(* version of the catalog has been replaced for and what its cached copy,  *)
(* or the request that holds it, has left are bounded together.            *)

CounterInv ==
    \A c \in Clients :
        /\ age[c] \in 0..Minute + 1
        /\ count[c] # None => count[c] \in [n : 1..Limit + 1, left : 0..Minute]
        /\ count[c] # None => age[c] + count[c].left <= Minute

\* Only versions that were replaced grow old.
PastInv ==
    /\ table \in 0..Edits /\ past \in [0..Edits -> 0..TTL + Deadline + 1]
    /\ \A v \in 0..Edits : v >= table => past[v] = 0

CacheInv ==
    cache # None =>
        /\ cache \in [items : 0..Edits, left : 0..TTL]
        /\ past[cache.items] + cache.left <= TTL + Deadline

Requested ==
    [pc : {"free", "cached", "table", "set"}, items : 0..Edits \cup {None}, left : 0..Deadline]

RequestInv ==
    /\ request \in [Slots -> Requested]
    /\ \A q \in Slots : request[q].pc = "set" =>
          /\ request[q].items \in 0..Edits
          /\ past[request[q].items] + request[q].left <= Deadline

PublicInv ==
    /\ count \in [Clients -> [n : 1..Limit + 1, left : 0..Minute] \cup {None}]
    /\ age \in [Clients -> 0..Minute + 1]
    /\ CounterInv /\ PastInv /\ CacheInv /\ RequestInv
    /\ lag \in 0..TTL + Deadline

LEMMA PublicInit == Public!Init => PublicInv
<1> SUFFICES ASSUME Public!Init PROVE PublicInv
  OBVIOUS
<1>1. /\ count = [c \in Clients |-> None] /\ age = [c \in Clients |-> 0]
      /\ cache = None /\ table = 0 /\ lag = 0
      /\ past = [v \in 0..Edits |-> 0]
      /\ request = [q \in Slots |-> [pc |-> "free", items |-> None, left |-> 0]]
  BY DEF Public!Init, Public!Versions, Public!Free
<1>2. CounterInv /\ PastInv /\ CacheInv
  BY <1>1, OperationsAssumption DEF CounterInv, PastInv, CacheInv
<1>3. RequestInv
  BY <1>1, OperationsAssumption DEF RequestInv, Requested
<1> QED
  BY <1>1, <1>2, <1>3, OperationsAssumption DEF PublicInv

LEMMA CountStep ==
  ASSUME PublicInv, NEW c \in Clients, Public!Count(c)
  PROVE  PublicInv'
<1> DEFINE new == Public!Counted(count[c])
<1>1. /\ count' = [count EXCEPT ![c] = new]
      /\ age' = IF count[c] = None THEN [age EXCEPT ![c] = 0] ELSE age
      /\ UNCHANGED <<cache, table, past, request, lag>>
  BY DEF Public!Count, Public!rewards
<1>2. new \in [n : 1..Limit + 1, left : 0..Minute]
  <2>1. CASE count[c] = None
    BY <2>1, OperationsAssumption DEF Public!Counted
  <2>2. CASE count[c] # None
    <3>1. count[c] \in [n : 1..Limit + 1, left : 0..Minute]
      BY <2>2 DEF PublicInv, CounterInv
    <3>2. Public!Capped(count[c].n + 1) \in 1..Limit + 1
      BY <3>1, OperationsAssumption DEF Public!Capped
    <3> QED
      BY <2>2, <3>1, <3>2 DEF Public!Counted
  <2> QED
    BY <2>1, <2>2
<1>3. age'[c] + new.left <= Minute
  <2>1. CASE count[c] = None
    BY <1>1, <2>1, OperationsAssumption DEF Public!Counted, PublicInv
  <2>2. CASE count[c] # None
    <3>1. count[c] \in [n : 1..Limit + 1, left : 0..Minute] /\ age[c] + count[c].left <= Minute
      BY <2>2 DEF PublicInv, CounterInv
    <3>2. new.left = count[c].left
      BY <2>2, <3>1 DEF Public!Counted
    <3> QED
      BY <1>1, <2>2, <3>1, <3>2
  <2> QED
    BY <2>1, <2>2
<1> HIDE DEF new
<1>4. /\ count' \in [Clients -> [n : 1..Limit + 1, left : 0..Minute] \cup {None}]
      /\ age' \in [Clients -> 0..Minute + 1]
  BY <1>1, <1>2, OperationsAssumption DEF PublicInv
<1>5. CounterInv'
  <2> SUFFICES ASSUME NEW d \in Clients
               PROVE  /\ age'[d] \in 0..Minute + 1
                      /\ count'[d] # None => count'[d] \in [n : 1..Limit + 1, left : 0..Minute]
                      /\ count'[d] # None => age'[d] + count'[d].left <= Minute
    BY DEF CounterInv
  <2>1. CASE d = c
    BY <1>1, <1>2, <1>3, <1>4, <2>1 DEF PublicInv
  <2>2. CASE d # c
    <3>1. count'[d] = count[d] /\ age'[d] = age[d]
      BY <1>1, <2>2 DEF PublicInv
    <3> QED
      BY <3>1 DEF PublicInv, CounterInv
  <2> QED
    BY <2>1, <2>2
<1> QED
  BY <1>1, <1>4, <1>5 DEF PublicInv, PastInv, CacheInv, RequestInv

\* A request that moves leaves the counters and the table alone.
LEMMA RequestStep ==
  ASSUME PublicInv, NEW q \in Slots, NEW r \in Requested, request' = [request EXCEPT ![q] = r],
         r.pc = "set" => r.items \in 0..Edits /\ past[r.items] + r.left <= Deadline,
         UNCHANGED <<count, age, table, past>>, CacheInv', lag' \in 0..TTL + Deadline
  PROVE  PublicInv'
<1>1. RequestInv'
  BY DEF PublicInv, RequestInv
<1>2. CounterInv' /\ PastInv'
  BY DEF PublicInv, CounterInv, PastInv
<1> QED
  BY <1>1, <1>2 DEF PublicInv

LEMMA SlotStep ==
  ASSUME PublicInv, NEW q \in Slots,
         \/ Public!Get(q) \/ Public!ReadCache(q) \/ Public!ReadTable(q)
         \/ Public!WriteCache(q) \/ Public!Cut(q)
  PROVE  PublicInv'
<1>0. /\ request \in [Slots -> Requested] /\ request[q] \in Requested /\ table \in 0..Edits
      /\ past \in [0..Edits -> 0..TTL + Deadline + 1] /\ past[table] = 0
      /\ lag \in 0..TTL + Deadline
  BY DEF PublicInv, RequestInv, PastInv
<1>1. Public!Free \in Requested /\ Public!Free.pc = "free"
  BY OperationsAssumption DEF Public!Free, Requested
<1>2. UNCHANGED <<cache, past>> => CacheInv'
  BY DEF PublicInv, CacheInv
<1>3. CASE Public!Get(q)
  <2> DEFINE r == [pc |-> "cached", items |-> None, left |-> Deadline]
  <2>1. r \in Requested /\ r.pc # "set"
    BY OperationsAssumption DEF Requested
  <2>2. request' = [request EXCEPT ![q] = r] /\ UNCHANGED <<count, age, cache, table, past, lag>>
    BY <1>3 DEF Public!Get
  <2> HIDE DEF r
  <2> QED
    BY <1>0, <1>2, <2>1, <2>2, RequestStep
<1>4. CASE Public!ReadCache(q)
  <2>1. UNCHANGED <<count, age, cache, table, past>>
    BY <1>4 DEF Public!ReadCache
  <2>2. CASE cache # None /\ Public!Serve(q, cache.items)
    <3>1. cache \in [items : 0..Edits, left : 0..TTL] /\ past[cache.items] + cache.left <= TTL + Deadline
      BY <2>2 DEF PublicInv, CacheInv
    <3>2. cache.items \in 0..Edits /\ cache.left \in Nat /\ past[cache.items] \in Nat
      BY <1>0, <3>1
    <3>3. past[cache.items] \in 0..TTL + Deadline
      BY <3>1, <3>2, OperationsAssumption
    <3>4. request' = [request EXCEPT ![q] = Public!Free] /\ lag' = past[cache.items]
      BY <2>2 DEF Public!Serve
    <3> QED
      BY <1>1, <1>2, <2>1, <3>3, <3>4, RequestStep
  <2>3. CASE request' = [request EXCEPT ![q].pc = "table"] /\ UNCHANGED lag
    <3> DEFINE r == [request[q] EXCEPT !.pc = "table"]
    <3>1. r \in Requested /\ r.pc # "set" /\ request' = [request EXCEPT ![q] = r]
      BY <1>0, <2>3 DEF Requested
    <3> HIDE DEF r
    <3> QED
      BY <1>0, <1>2, <2>1, <2>3, <3>1, RequestStep
  <2> QED
    BY <1>4, <2>2, <2>3 DEF Public!ReadCache
<1>5. CASE Public!ReadTable(q)
  <2> DEFINE r == [[request[q] EXCEPT !.pc = "set"] EXCEPT !.items = table]
  <2>1. r \in Requested /\ r.items = table /\ r.left = request[q].left
    BY <1>0 DEF Requested
  <2>2. request' = [request EXCEPT ![q] = r]
    BY <1>0, <1>5 DEF Public!ReadTable, Requested
  <2>3. UNCHANGED <<count, age, cache, table, past, lag>>
    BY <1>5 DEF Public!ReadTable
  <2>4. past[table] + request[q].left <= Deadline
    BY <1>0, OperationsAssumption DEF Requested
  <2> HIDE DEF r
  <2> QED
    BY <1>0, <1>2, <2>1, <2>2, <2>3, <2>4, RequestStep
<1>6. CASE Public!WriteCache(q)
  <2>1. /\ request[q].pc = "set" /\ UNCHANGED <<count, age, table, past>>
        /\ cache' \in {cache, [items |-> request[q].items, left |-> TTL]}
        /\ request' = [request EXCEPT ![q] = Public!Free] /\ lag' = past[request[q].items]
    BY <1>6 DEF Public!WriteCache, Public!Serve
  <2>2. /\ request[q].items \in 0..Edits /\ past[request[q].items] + request[q].left <= Deadline
        /\ request[q].left \in Nat /\ past[request[q].items] \in Nat
    BY <1>0, <2>1 DEF PublicInv, RequestInv, Requested
  <2>3. past[request[q].items] <= Deadline /\ past[request[q].items] \in 0..TTL + Deadline
    BY <2>2, OperationsAssumption
  <2>4. CacheInv'
    <3> DEFINE new == [items |-> request[q].items, left |-> TTL]
    <3>1. /\ new \in [items : 0..Edits, left : 0..TTL]
          /\ past[new.items] + new.left <= TTL + Deadline
      BY <2>2, <2>3, OperationsAssumption
    <3>2. cache' = cache \/ cache' = new
      BY <2>1
    <3> HIDE DEF new
    <3> QED
      BY <1>2, <2>1, <3>1, <3>2 DEF CacheInv
  <2> QED
    BY <1>1, <2>1, <2>3, <2>4, RequestStep
<1>7. CASE Public!Cut(q)
  <2>1. /\ request' = [request EXCEPT ![q] = Public!Free]
        /\ UNCHANGED <<count, age, cache, table, past, lag>>
    BY <1>7 DEF Public!Cut
  <2> QED
    BY <1>0, <1>1, <1>2, <2>1, RequestStep
<1> QED
  BY <1>3, <1>4, <1>5, <1>6, <1>7

\* The operator's edits, and keys that Redis drops.
LEMMA OutsideStep ==
  ASSUME PublicInv, Public!Edit \/ Public!LoseRedis \/ Public!Expire
  PROVE  PublicInv'
<1>1. /\ UNCHANGED <<age, past, request, lag>> /\ cache' \in {cache, None}
      /\ table' = table \/ (table < Edits /\ table' = table + 1)
  BY DEF Public!Edit, Public!LoseRedis, Public!Expire
<1>2. /\ count' \in [Clients -> [n : 1..Limit + 1, left : 0..Minute] \cup {None}]
      /\ \A c \in Clients : count'[c] \in {count[c], None}
  BY DEF Public!Edit, Public!LoseRedis, Public!Expire, PublicInv
<1>3. CounterInv'
  BY <1>1, <1>2 DEF PublicInv, CounterInv
<1>4. PastInv'
  BY <1>1, OperationsAssumption DEF PublicInv, PastInv
<1>5. CacheInv' /\ RequestInv'
  BY <1>1 DEF PublicInv, CacheInv, RequestInv
<1> QED
  BY <1>1, <1>2, <1>3, <1>4, <1>5 DEF PublicInv

LEMMA TickStep ==
  ASSUME PublicInv, Public!Tick
  PROVE  PublicInv'
<1>0. /\ past \in [0..Edits -> 0..TTL + Deadline + 1] /\ table \in 0..Edits
      /\ request \in [Slots -> Requested]
      /\ TTL \in Nat /\ Deadline \in Nat /\ Minute \in Nat /\ Edits \in Nat /\ Limit \in Nat
  BY OperationsAssumption DEF PublicInv, PastInv, RequestInv
<1>1. UNCHANGED <<table, lag>>
  BY DEF Public!Tick
<1>2. ASSUME NEW v \in 0..Edits
      PROVE  /\ past'[v] \in 0..TTL + Deadline + 1 /\ past[v] <= past'[v] /\ past'[v] <= past[v] + 1
             /\ v >= table => past'[v] = past[v]
  <2>1. past'[v] = IF v >= table \/ past[v] = TTL + Deadline + 1 THEN past[v] ELSE past[v] + 1
    BY DEF Public!Tick, Public!Versions, Public!Oldest
  <2>2. past[v] \in 0..TTL + Deadline + 1
    BY <1>0
  <2>3. CASE v >= table \/ past[v] = TTL + Deadline + 1
    BY <2>1, <2>2, <2>3
  <2>4. CASE ~(v >= table \/ past[v] = TTL + Deadline + 1)
    <3>1. TTL + Deadline + 1 \in Nat /\ past[v] # TTL + Deadline + 1 /\ ~(v >= table)
      BY <1>0, <2>4
    <3>2. past'[v] = past[v] + 1
      BY <2>1, <2>4
    <3>3. \A a, m \in Int : a \in 0..m /\ a # m => a + 1 \in 0..m /\ a <= a + 1
      OBVIOUS
    <3> QED
      BY <2>2, <3>1, <3>2, <3>3
  <2> QED
    BY <2>3, <2>4
<1>3. PastInv'
  <2>1. past' \in [0..Edits -> 0..TTL + Deadline + 1]
    <3>1. past' = [v \in 0..Edits |-> past'[v]]
      BY DEF Public!Tick, Public!Versions
    <3> QED
      BY <1>2, <3>1
  <2> QED
    BY <1>1, <1>2, <2>1 DEF PublicInv, PastInv
<1>4. ASSUME NEW c \in Clients
      PROVE  /\ age'[c] \in 0..Minute + 1
             /\ count'[c] # None =>
                   /\ count'[c] \in [n : 1..Limit + 1, left : 0..Minute]
                   /\ age'[c] + count'[c].left <= Minute
  <2>1. /\ count'[c] = Public!Later(count[c])
        /\ age'[c] = IF count[c] = None \/ age[c] = Minute + 1 THEN age[c] ELSE age[c] + 1
    BY DEF Public!Tick
  <2>2. age[c] \in 0..Minute + 1
    BY DEF PublicInv, CounterInv
  <2>3. age'[c] \in 0..Minute + 1 /\ age'[c] <= age[c] + 1
    BY <1>0, <2>1, <2>2
  <2>4. CASE count[c] = None \/ count[c].left = 0
    BY <2>1, <2>3, <2>4 DEF Public!Later
  <2>5. CASE count[c] # None /\ count[c].left # 0
    <3>1. count[c] \in [n : 1..Limit + 1, left : 0..Minute] /\ age[c] + count[c].left <= Minute
      BY <2>5 DEF PublicInv, CounterInv
    <3>2. count'[c] = [count[c] EXCEPT !.left = count[c].left - 1]
      BY <2>1, <2>5 DEF Public!Later
    <3>3. count[c].left - 1 \in 0..Minute
      BY <1>0, <2>5, <3>1
    <3>4. /\ count'[c] \in [n : 1..Limit + 1, left : 0..Minute]
          /\ count'[c].left = count[c].left - 1
      BY <3>1, <3>2, <3>3
    <3>5. age'[c] + (count[c].left - 1) <= Minute
      <4>1. count[c].left \in Nat /\ age[c] \in Nat /\ age'[c] \in Nat /\ age'[c] <= age[c] + 1
        BY <1>0, <2>2, <2>3, <3>1
      <4>2. Minute \in Nat /\ age[c] + count[c].left <= Minute
        BY <1>0, <3>1
      <4>3. \A a, b, n, m \in Nat : b <= a + 1 /\ a + n <= m => b + (n - 1) <= m
        OBVIOUS
      <4> QED
        BY <4>1, <4>2, <4>3
    <3> QED
      BY <2>3, <3>4, <3>5
  <2> QED
    BY <2>4, <2>5
<1>5. /\ count' \in [Clients -> [n : 1..Limit + 1, left : 0..Minute] \cup {None}]
      /\ age' \in [Clients -> 0..Minute + 1]
  <2>1. /\ count' = [c \in Clients |-> count'[c]] /\ age' = [c \in Clients |-> age'[c]]
    BY DEF Public!Tick
  <2> QED
    BY <1>4, <2>1
<1>6. CounterInv'
  BY <1>4 DEF CounterInv
<1>7. CacheInv'
  <2>1. cache' = Public!Later(cache)
    BY DEF Public!Tick
  <2>2. CASE cache = None \/ cache.left = 0
    BY <2>1, <2>2 DEF Public!Later, CacheInv
  <2>3. CASE cache # None /\ cache.left # 0
    <3>1. cache \in [items : 0..Edits, left : 0..TTL] /\ past[cache.items] + cache.left <= TTL + Deadline
      BY <2>3 DEF PublicInv, CacheInv
    <3>2. cache' = [cache EXCEPT !.left = cache.left - 1]
      BY <2>1, <2>3 DEF Public!Later
    <3>3. cache.left - 1 \in 0..TTL /\ cache.items \in 0..Edits
      BY <1>0, <2>3, <3>1
    <3>4. /\ cache' \in [items : 0..Edits, left : 0..TTL]
          /\ cache'.items = cache.items /\ cache'.left = cache.left - 1
      BY <3>1, <3>2, <3>3
    <3>5. /\ past[cache.items] \in Nat /\ past'[cache.items] \in Nat
          /\ past'[cache.items] <= past[cache.items] + 1
      BY <1>0, <1>2, <3>3
    <3>6. past'[cache.items] + (cache.left - 1) <= TTL + Deadline
      <4>1. cache.left \in Nat /\ TTL + Deadline \in Nat
        BY <1>0, <3>1
      <4>2. \A a, b, n, m \in Nat : b <= a + 1 /\ a + n <= m => b + (n - 1) <= m
        OBVIOUS
      <4> QED
        BY <3>1, <3>5, <4>1, <4>2
    <3> QED
      BY <3>4, <3>6 DEF CacheInv
  <2> QED
    BY <2>2, <2>3
<1>8. RequestInv'
  <2>1. ASSUME NEW q \in Slots
        PROVE  /\ request'[q] \in Requested
               /\ request'[q].pc = "set" =>
                     /\ request'[q].items \in 0..Edits
                     /\ past'[request'[q].items] + request'[q].left <= Deadline
    <3>1. /\ request'[q] = IF request[q].pc = "free" THEN Public!Free
                           ELSE [request[q] EXCEPT !.left = request[q].left - 1]
          /\ request[q].pc = "free" \/ request[q].left > 0
      BY DEF Public!Tick
    <3>2. CASE request[q].pc = "free"
      BY <1>0, <3>1, <3>2 DEF Public!Free, Requested
    <3>3. CASE request[q].pc # "free"
      <4>1. request[q] \in Requested /\ request[q].left - 1 \in 0..Deadline
        BY <1>0, <3>1, <3>3 DEF Requested
      <4>2. /\ request'[q] \in Requested /\ request'[q].pc = request[q].pc
            /\ request'[q].items = request[q].items /\ request'[q].left = request[q].left - 1
        BY <3>1, <3>3, <4>1 DEF Requested
      <4>3. CASE request[q].pc = "set"
        <5>1. /\ request[q].items \in 0..Edits
              /\ past[request[q].items] + request[q].left <= Deadline
              /\ request[q].left \in Nat
          BY <4>1, <4>3 DEF PublicInv, RequestInv, Requested
        <5>2. /\ past[request[q].items] \in Nat /\ past'[request[q].items] \in Nat
              /\ past'[request[q].items] <= past[request[q].items] + 1
          BY <1>0, <1>2, <5>1
        <5>3. \A a, b, n, m \in Nat : b <= a + 1 /\ a + n <= m => b + (n - 1) <= m
          OBVIOUS
        <5>4. past'[request[q].items] + (request[q].left - 1) <= Deadline
          BY <1>0, <5>1, <5>2, <5>3
        <5> QED
          BY <4>2, <5>1, <5>4
      <4> QED
        BY <4>2, <4>3
    <3> QED
      BY <3>2, <3>3
  <2>2. request' = [q \in Slots |-> request'[q]]
    BY DEF Public!Tick
  <2> QED
    BY <2>1, <2>2 DEF RequestInv
<1> QED
  BY <1>1, <1>3, <1>5, <1>6, <1>7, <1>8 DEF PublicInv

LEMMA PublicStep == PublicInv /\ [Public!Next]_(Public!vars) => PublicInv'
<1>1. ASSUME PublicInv, UNCHANGED Public!vars PROVE PublicInv'
  BY <1>1 DEF Public!vars, PublicInv, CounterInv, PastInv, CacheInv, RequestInv
<1> QED
  BY <1>1, CountStep, SlotStep, OutsideStep, TickStep DEF Public!Next

\* The invariant of the counters and the catalog, for every number of clients
\* and requests, and for all their times to live.
THEOREM PublicInvariant == Public!Spec => []PublicInv
BY PublicInit, PublicStep, PTL DEF Public!Spec

\* The type invariant: no key is left in Redis when its time is over.
THEOREM PublicIsTyped == Public!Spec => []Public!TypeOK
<1>1. PublicInv => Public!TypeOK
  <2> SUFFICES ASSUME PublicInv PROVE Public!TypeOK
    OBVIOUS
  <2>1. \A q \in Slots : request[q] \in Requested
    BY DEF PublicInv, RequestInv
  <2>2. /\ \A c \in Clients : count[c] = None \/ count[c] \in [n : 1..Limit + 1, left : 0..Minute]
        /\ cache = None \/ cache \in [items : 0..Edits, left : 0..TTL]
        /\ table \in 0..Edits /\ past \in [0..Edits -> 0..TTL + Deadline + 1]
    BY DEF PublicInv, CounterInv, CacheInv, PastInv
  <2>3. lag \in 0..TTL + Deadline + 1
    BY OperationsAssumption DEF PublicInv
  <2> QED
    BY <2>1, <2>2, <2>3
       DEF PublicInv, Requested, Public!TypeOK, Public!Versions, Public!Oldest
<1> QED
  BY <1>1, PublicInvariant, PTL

\* No counter outlives its minute: a client that is refused, and keeps asking,
\* is let in again (the script at api.go:63 sets the expiry once, at the first).
THEOREM CountersExpire == Public!Spec => []RefusalsEnd
<1>1. PublicInv => RefusalsEnd
  <2> SUFFICES ASSUME PublicInv, NEW c \in Clients, count[c] # None PROVE age[c] <= Minute
    BY DEF RefusalsEnd, Public!RefusalsEnd
  <2>1. /\ count[c] \in [n : 1..Limit + 1, left : 0..Minute] /\ age[c] \in 0..Minute + 1
        /\ age[c] + count[c].left <= Minute
    BY DEF PublicInv, CounterInv
  <2> QED
    BY <2>1, OperationsAssumption
<1> QED
  BY <1>1, PublicInvariant, PTL

\* A catalog that is served, from the cache or from the table, was the table's
\* own within the cache's time to live and one request's deadline.
THEOREM CatalogsAreRecent == Public!Spec => []CatalogIsRecent
<1>1. PublicInv => CatalogIsRecent
  BY OperationsAssumption DEF PublicInv, CatalogIsRecent, Public!CatalogIsRecent
<1> QED
  BY <1>1, PublicInvariant, PTL

-----------------------------------------------------------------------------
(* Side by side.  A step of MCOperations is a step of one program and      *)
(* leaves the variables of the others alone.                               *)

allVars == <<scene, vars, setupVars, serverVars, publicVars, journalVars>>

\* What MCOperations does is something each of its programs does.
THEOREM EveryProgramIsKept ==
  MCSpec => Spec /\ Setup!Spec /\ Servers!Spec /\ Public!Spec /\ Journal!Spec
<1>1. MCInit => Init /\ Setup!Init /\ Servers!Init /\ Public!Init /\ Journal!Init
  BY DEF MCInit
<1>2. [MCNext]_allVars => [Next]_vars
  BY DEF MCNext, allVars
<1>3. [MCNext]_allVars => [Setup!Next]_(Setup!vars)
  BY DEF MCNext, allVars, setupVars, Setup!vars
<1>4. [MCNext]_allVars => [Servers!Next]_(Servers!vars)
  BY DEF MCNext, allVars, serverVars, Servers!vars
<1>5. [MCNext]_allVars => [Public!Next]_(Public!vars)
  BY DEF MCNext, allVars, publicVars, Public!vars
<1>6. [MCNext]_allVars => [Journal!Next]_(Journal!vars)
  BY DEF MCNext, allVars, journalVars, Journal!vars
<1>7. MCSpec => MCInit /\ [][MCNext]_allVars
  BY DEF MCSpec, allVars
<1> QED
  BY <1>1, <1>2, <1>3, <1>4, <1>5, <1>6, <1>7, PTL
     DEF Spec, Setup!Spec, Servers!Spec, Public!Spec, Journal!Spec

-----------------------------------------------------------------------------
(* The set-up of the mint.                                                 *)

SetupProofs == INSTANCE MintSetupProofs WITH tx <- creation

\* Both instances of MintSetup say the same.
LEMMA SameSetup == Setup!Spec => SetupProofs!Spec
<1>1. Setup!Init => SetupProofs!Init
  BY DEF Setup!Init, SetupProofs!Init, Setup!Files, SetupProofs!Files
<1>2. Setup!Next => SetupProofs!Next
  BY DEF Setup!Next, SetupProofs!Next, Setup!Start, SetupProofs!Start,
     Setup!Stat, SetupProofs!Stat, Setup!Generate, SetupProofs!Generate,
     Setup!Open, SetupProofs!Open, Setup!Write, SetupProofs!Write,
     Setup!AskMint, SetupProofs!AskMint, Setup!SendMint, SetupProofs!SendMint,
     Setup!Observe, SetupProofs!Observe, Setup!Stop, SetupProofs!Stop,
     Setup!Land, SetupProofs!Land, Setup!Expire, SetupProofs!Expire,
     Setup!Finalize, SetupProofs!Finalize, Setup!Go, SetupProofs!Go,
     Setup!Loaded, SetupProofs!Loaded, Setup!Final, SetupProofs!Final,
     Setup!Exists, SetupProofs!Exists, Setup!Valid, SetupProofs!Valid,
     Setup!Running, SetupProofs!Running, Setup!Ended, SetupProofs!Ended,
     Setup!Partial, SetupProofs!Partial
<1>3. [Setup!Next]_(Setup!vars) => [SetupProofs!Next]_(SetupProofs!vars)
  BY <1>2 DEF Setup!vars, SetupProofs!vars
<1> QED
  BY <1>1, <1>3, PTL DEF Setup!Spec, SetupProofs!Spec

\* However often the set-up runs, stops and is repeated, there is one mint.
THEOREM SetupMakesOneMint == MCSpec => []OneMint
<1>1. SetupProofs!Spec => []SetupProofs!OneMint
  BY SetupProofs!MintIsUnique, OperationsAssumption
<1>2. SetupProofs!OneMint => OneMint
  BY DEF OneMint, Setup!OneMint, SetupProofs!OneMint, Setup!Cardinality, SetupProofs!Cardinality
<1> QED
  BY <1>1, <1>2, SameSetup, EveryProgramIsKept, PTL

\* No mint is created, or can still be, with keys that a crash could lose.
THEOREM SetupKeepsTheKeys == MCSpec => []EveryMintHasItsKeys
<1>1. SetupProofs!Spec => []SetupProofs!EveryMintHasItsKeys
  BY SetupProofs!KeysAreKept, OperationsAssumption
<1>2. SetupProofs!EveryMintHasItsKeys => EveryMintHasItsKeys
  BY DEF EveryMintHasItsKeys, Setup!EveryMintHasItsKeys, SetupProofs!EveryMintHasItsKeys
<1> QED
  BY <1>1, <1>2, SameSetup, EveryProgramIsKept, PTL

\* The set-up ends well only with a finalized mint of its own authority.
THEOREM SetupNamesAFinalMint == MCSpec => []NamesAFinalMint
<1>1. SetupProofs!Spec => []SetupProofs!NamesAFinalMint
  BY SetupProofs!NamedMintIsFinal, OperationsAssumption
<1>2. SetupProofs!NamesAFinalMint => NamesAFinalMint
  BY DEF NamesAFinalMint, Setup!NamesAFinalMint, SetupProofs!NamesAFinalMint
<1> QED
  BY <1>1, <1>2, SameSetup, EveryProgramIsKept, PTL

\* Every variable of the metadata tool, the set-up, the servers and the API's
\* Redis keeps its type, with what the types say of one another.
THEOREM EverythingIsTyped == MCSpec => []TypesOK
<1>1. SetupProofs!Spec => []SetupProofs!IInv
  BY SetupProofs!Inductive, OperationsAssumption
<1>2. SetupProofs!IInv => Setup!TypeOK
  BY DEF SetupProofs!IInv, SetupProofs!ShapeInv, SetupProofs!Shapes, SetupProofs!States,
     SetupProofs!Early, SetupProofs!Late, SetupProofs!Ended, SetupProofs!Files, SetupProofs!Keys,
     SetupProofs!Partial, Setup!TypeOK, Setup!Ended, Setup!Files, Setup!Keys, Setup!Partial
<1>3. TypeOK /\ Setup!TypeOK /\ Servers!TypeOK /\ Public!TypeOK => TypesOK
  BY DEF TypesOK
<1> QED
  BY <1>1, <1>2, <1>3, SameSetup, TypesAreKept, ServersAreTyped, PublicIsTyped,
     EveryProgramIsKept, PTL

-----------------------------------------------------------------------------
(* The servers and the API's Redis, among the others.                      *)

\* Side by side with the rest, a database holds the operations of one mint.
THEOREM HistoriesStayApart == MCSpec => []HistoriesAreNotMixed
BY OneHistory, EveryProgramIsKept, PTL

\* Side by side with the rest, a server works for the mint of its journal.
THEOREM ServersStayWithTheirMint == MCSpec => []ServersAgree
BY ServersKeepToTheirMint, EveryProgramIsKept, PTL

\* Side by side with the rest, no rate counter outlives its minute.
THEOREM RefusalsAreShort == MCSpec => []RefusalsEnd
BY CountersExpire, EveryProgramIsKept, PTL

\* Side by side with the rest, no catalog is served that is too old.
THEOREM ServedCatalogsAreRecent == MCSpec => []CatalogIsRecent
BY CatalogsAreRecent, EveryProgramIsKept, PTL

-----------------------------------------------------------------------------
(* The journal.                                                            *)

JournalProofs ==
    INSTANCE SettlementProofs WITH
        Wallets <- {ada}, Keys <- {k1, k2}, Payloads <- {coffee, tote},
        Points <- [p \in {coffee, tote} |-> IF p = coffee THEN 1 ELSE 2],
        Opening <- [v \in {ada} |-> 2],
        Requests <- {[kind |-> "redeem", wallet |-> ada, key |-> k1, payload |-> coffee],
                     [kind |-> "redeem", wallet |-> ada, key |-> k2, payload |-> tote]}

\* The module of the proofs, instantiated, is the instance that is run.
LEMMA SameJournal == Journal!Spec => JournalProofs!Spec
<1>1. Journal!Init => JournalProofs!Init
  BY DEF Journal!Init, JournalProofs!Init, Journal!Absent, JournalProofs!Absent,
        Journal!IdleHandler, JournalProofs!IdleHandler, Journal!IdleWorker,
        JournalProofs!IdleWorker
<1>2. Journal!Next => JournalProofs!Next
  BY DEF Journal!Unsettled, JournalProofs!Unsettled, Journal!Absent, JournalProofs!Absent,
        Journal!Journaled, JournalProofs!Journaled, Journal!Of, JournalProofs!Of,
        Journal!SameKey, JournalProofs!SameKey, Journal!FindKey, JournalProofs!FindKey,
        Journal!IdleHandler, JournalProofs!IdleHandler, Journal!SnapshotOf,
        JournalProofs!SnapshotOf, Journal!IdleWorker, JournalProofs!IdleWorker, Journal!Find,
        JournalProofs!Find, Journal!Replay, JournalProofs!Replay, Journal!CheckBalance,
        JournalProofs!CheckBalance, Journal!Prepare, JournalProofs!Prepare, Journal!NewRow,
        JournalProofs!NewRow, Journal!InsertRow, JournalProofs!InsertRow, Journal!Insert,
        JournalProofs!Insert, Journal!Created, JournalProofs!Created, Journal!Reread,
        JournalProofs!Reread, Journal!Abandon, JournalProofs!Abandon, Journal!SignRedemption,
        JournalProofs!SignRedemption, Journal!ReadSubmit, JournalProofs!ReadSubmit,
        Journal!SubmittedRow, JournalProofs!SubmittedRow, Journal!Submit, JournalProofs!Submit,
        Journal!Collectable, JournalProofs!Collectable, Journal!Fulfill, JournalProofs!Fulfill,
        Journal!ReadBatch, JournalProofs!ReadBatch, Journal!ReadHeight, JournalProofs!ReadHeight,
        Journal!StatusOf, JournalProofs!StatusOf, Journal!Verdict, JournalProofs!Verdict,
        Journal!ReadStatus, JournalProofs!ReadStatus, Journal!NextRow, JournalProofs!NextRow,
        Journal!SkipRow, JournalProofs!SkipRow, Journal!Sendable, JournalProofs!Sendable,
        Journal!KeepPending, JournalProofs!KeepPending, Journal!SettledRow,
        JournalProofs!SettledRow, Journal!Settle, JournalProofs!Settle, Journal!Interrupt,
        JournalProofs!Interrupt, Journal!Land, JournalProofs!Land, Journal!Drop,
        JournalProofs!Drop, Journal!Succeed, JournalProofs!Succeed, Journal!Fail,
        JournalProofs!Fail, Journal!AdvanceHeight, JournalProofs!AdvanceHeight,
        Journal!BurnOutside, JournalProofs!BurnOutside, Journal!HandlerStep,
        JournalProofs!HandlerStep, Journal!WorkerStep, JournalProofs!WorkerStep,
        Journal!ChainStep, JournalProofs!ChainStep, Journal!Next, JournalProofs!Next,
        Journal!chain, JournalProofs!chain
<1>3. [Journal!Next]_(Journal!vars) => [JournalProofs!Next]_(JournalProofs!vars)
  BY <1>2 DEF Journal!vars, JournalProofs!vars, Journal!chain, JournalProofs!chain
<1> QED
  BY <1>1, <1>3, PTL DEF Journal!Spec, JournalProofs!Spec

\* Side by side with the rest, points are never spent twice.
THEOREM PointsStayConserved == MCSpec => []PointsConserved
<1>1. JournalProofs!SettlementAssumption
  BY OperationsAssumption DEF JournalProofs!Request, JournalProofs!Kinds
<1>2. JournalProofs!FiniteAssumption
  <2>1. IsFiniteSet(Ids) /\ IsFiniteSet({ada})
    BY OperationsAssumption, FS_Singleton
  <2> QED
    BY <2>1 DEF JournalProofs!IsFiniteSet, IsFiniteSet
<1>3. JournalProofs!Spec => []JournalProofs!PointsConserved
  BY <1>1, <1>2, JournalProofs!PointsAreConserved
<1>4. JournalProofs!PointsConserved => PointsConserved
  BY DEF PointsConserved, Journal!PointsConserved, JournalProofs!PointsConserved, Journal!PointsOf,
        JournalProofs!PointsOf, Journal!Held, JournalProofs!Held, Journal!Minted,
        JournalProofs!Minted, Journal!Coded, JournalProofs!Coded, Journal!Journaled,
        JournalProofs!Journaled, Journal!Of, JournalProofs!Of, Journal!SumFunctionOnSet,
        JournalProofs!SumFunctionOnSet, Journal!FoldFunctionOnSet,
        JournalProofs!FoldFunctionOnSet, Journal!MapThenFoldSet, JournalProofs!MapThenFoldSet
<1> QED
  BY <1>3, <1>4, SameJournal, EveryProgramIsKept, PTL

=============================================================================
