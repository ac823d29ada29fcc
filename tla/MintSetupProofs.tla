--------------------------- MODULE MintSetupProofs ---------------------------
(***************************************************************************)
(* Theorems about MintSetup, for any number of runs.  A keypair file is    *)
(* created by one run, written once, and never replaced; a run goes on     *)
(* with a key only when it is the file's.  So every run that reaches the   *)
(* ledger uses the same two keys, and CreateAccount succeeds once.         *)
(*                                                                         *)
(* The theorems assume that Missing, which stands for no file, is no key.  *)
(***************************************************************************)
EXTENDS MintSetup, FiniteSetTheorems, TLAPS

Early == {"stat", "generate", "open", "write"}
Late == {"ask", "send", "wait", "existing", "created"}
Named == {"existing", "created"}
States == Ended \cup {"idle"} \cup Early \cup Late

Shapes ==
    [pc : States, create : BOOLEAN, of : Files, new : Keys \cup {Missing},
     key : [Files -> Keys \cup {Missing}]]

ShapeInv ==
    /\ file \in [Files -> Nat \cup {Missing}] /\ made \in Nat
    /\ proc \in [Runs -> Shapes]
    /\ tx \in [Runs -> {"none", "sent", "landed", "failed", "expired"}]
    /\ \A m \in mints : m \in [address : Keys, authority : Keys, final : BOOLEAN]

\* A file that is created and not yet written has one writer.
WriterInv ==
    /\ \A r \in Runs : proc[r].pc \in {"open", "write"} => proc[r].new \in Keys
    /\ \A r \in Runs : proc[r].pc = "write" => file[proc[r].of] = Partial
    /\ \A r, s \in Runs :
          proc[r].pc = "write" /\ proc[s].pc = "write" /\ proc[r].of = proc[s].of => r = s

\* A key that a run holds is its file's.
KeyInv == \A r \in Runs, f \in Files : proc[r].key[f] # Missing => file[f] = proc[r].key[f]

\* Which keys a run holds, by where it is.
StageInv ==
    /\ \A r \in Runs : proc[r].pc = "idle" => proc[r].of = "authority"
    /\ \A r \in Runs :
          proc[r].pc \in Early /\ proc[r].of = "mint" => proc[r].key["authority"] # Missing
    /\ \A r \in Runs : proc[r].pc \in Late \/ tx[r] = "sent" =>
          \A f \in Files : proc[r].key[f] # Missing

\* The ledger has no mint, or one under the keys of the files.
LedgerInv ==
    /\ \A m \in mints : m.address = file["mint"] /\ m.authority = file["authority"]
    /\ \A m, n \in mints : m = n

IInv == ShapeInv /\ WriterInv /\ KeyInv /\ StageInv /\ LedgerInv /\ NamesAFinalMint

LEMMA InitInv == Init => IInv
<1> SUFFICES ASSUME Init PROVE IInv
  OBVIOUS
<1>1. \A r \in Runs : proc[r].pc = "idle" /\ tx[r] = "none" /\ proc[r].of = "authority"
                    /\ \A f \in Files : proc[r].key[f] = Missing
  BY DEF Init, Files
<1>2. ShapeInv
  BY DEF Init, ShapeInv, Shapes, States, Files
<1>3. WriterInv /\ KeyInv /\ StageInv /\ LedgerInv /\ NamesAFinalMint
  BY <1>1 DEF Init, WriterInv, KeyInv, StageInv, LedgerInv, NamesAFinalMint, Early, Late
<1> QED
  BY <1>2, <1>3 DEF IInv

\* A step of run r to the state p, which writes at most the file it may write,
\* and leaves the ledger alone.
LEMMA RunStep ==
  ASSUME Missing \notin Nat, IInv, NEW r \in Runs, NEW p \in Shapes,
         proc' = [proc EXCEPT ![r] = p],
         file' \in [Files -> Nat \cup {Missing}], made' \in Nat, mints' = mints,
         \A f \in Files : file[f] \in Keys => file'[f] = file[f],
         \A s \in Runs \ {r} : proc[s].pc = "write" => file'[proc[s].of] = file[proc[s].of],
         p.pc \in {"open", "write"} => p.new \in Keys,
         p.pc = "write" =>
            /\ file'[p.of] = Partial
            /\ \A s \in Runs \ {r} : ~(proc[s].pc = "write" /\ proc[s].of = p.of),
         \A f \in Files : p.key[f] # Missing => file'[f] = p.key[f],
         \A f \in Files : proc[r].key[f] # Missing => p.key[f] # Missing,
         p.pc # "idle", p.pc \in Early /\ p.of = "mint" => p.key["authority"] # Missing,
         p.pc \in Late => \A f \in Files : p.key[f] # Missing,
         p.pc \in Named => \E m \in mints :
            m.final /\ m.address = p.key["mint"] /\ m.authority = p.key["authority"],
         tx' = tx \/ (tx' = [tx EXCEPT ![r] = "sent"] /\ proc[r].pc \in Late)
  PROVE  IInv'
<1>1. /\ proc'[r] = p
      /\ \A s \in Runs : s # r => proc'[s] = proc[s] /\ tx'[s] = tx[s]
      /\ \A s \in Runs, f \in Files : proc[s].key[f] \in Keys \cup {Missing}
  BY DEF IInv, ShapeInv, Shapes
<1>2. ShapeInv'
  BY DEF IInv, ShapeInv
<1>3. WriterInv'
  BY <1>1 DEF IInv, WriterInv
<1>4. KeyInv'
  BY <1>1 DEF IInv, KeyInv
<1>5. StageInv'
  <2>1. tx'[r] = "sent" => tx[r] = "sent" \/ proc[r].pc \in Late
    BY DEF IInv, ShapeInv
  <2> QED
    BY <1>1, <2>1 DEF IInv, StageInv
<1>6. LedgerInv'
  <2>1. \A m \in mints : m.address \in Keys /\ m.authority \in Keys
    BY DEF IInv, ShapeInv
  <2> QED
    BY <2>1 DEF IInv, LedgerInv, Files
<1>7. NamesAFinalMint'
  BY <1>1 DEF IInv, NamesAFinalMint, Named
<1> QED
  BY <1>2, <1>3, <1>4, <1>5, <1>6, <1>7 DEF IInv

\* A step that changes where a run is and nothing else of it.
LEMMA GoStep ==
  ASSUME Missing \notin Nat, IInv, NEW r \in Runs, NEW pc \in States, Go(r, pc),
         UNCHANGED <<file, made, mints>>,
         tx' = tx \/ (tx' = [tx EXCEPT ![r] = "sent"] /\ proc[r].pc \in Late),
         pc \notin {"idle", "open", "write"},
         pc \in Early => proc[r].pc \in Early,
         pc \in Late => proc[r].pc \in Late,
         pc \in Named => \E m \in mints :
            m.final /\ m.address = proc[r].key["mint"] /\ m.authority = proc[r].key["authority"]
  PROVE  IInv'
<1> DEFINE p == [proc[r] EXCEPT !.pc = pc]
<1>1. proc[r] \in Shapes
  BY DEF IInv, ShapeInv
<1>2. /\ p \in Shapes /\ proc' = [proc EXCEPT ![r] = p]
      /\ p.pc = pc /\ p.of = proc[r].of /\ p.key = proc[r].key /\ p.new = proc[r].new
  BY <1>1 DEF Go, Shapes
<1>3. /\ file' \in [Files -> Nat \cup {Missing}] /\ made' \in Nat /\ mints' = mints
      /\ \A f \in Files : file[f] \in Keys => file'[f] = file[f]
      /\ \A s \in Runs \ {r} : proc[s].pc = "write" => file'[proc[s].of] = file[proc[s].of]
      /\ p.pc \in {"open", "write"} => p.new \in Keys
      /\ p.pc = "write" =>
            /\ file'[p.of] = Partial
            /\ \A s \in Runs \ {r} : ~(proc[s].pc = "write" /\ proc[s].of = p.of)
  BY <1>2 DEF IInv, ShapeInv
<1>4. /\ \A f \in Files : p.key[f] # Missing => file'[f] = p.key[f]
      /\ \A f \in Files : proc[r].key[f] # Missing => p.key[f] # Missing
      /\ p.pc # "idle"
      /\ p.pc \in Early /\ p.of = "mint" => p.key["authority"] # Missing
      /\ p.pc \in Late => \A f \in Files : p.key[f] # Missing
      /\ p.pc \in Named => \E m \in mints :
            m.final /\ m.address = p.key["mint"] /\ m.authority = p.key["authority"]
  BY <1>2 DEF IInv, KeyInv, StageInv
<1> HIDE DEF p
<1> QED
  BY <1>2, <1>3, <1>4, RunStep

\* A step of a run that has no mint yet, with the keys and files as they were.
LEMMA QuietStep ==
  ASSUME Missing \notin Nat, IInv, NEW r \in Runs, NEW p \in Shapes,
         proc' = [proc EXCEPT ![r] = p], UNCHANGED <<file, tx, mints>>, made' \in Nat,
         p.pc \notin Late, p.pc \notin Named, p.pc \notin {"idle", "write"},
         p.pc = "open" => p.new \in Keys,
         p.key = proc[r].key, p.of = "mint" => p.key["authority"] # Missing
  PROVE  IInv'
<1>1. /\ file' \in [Files -> Nat \cup {Missing}] /\ mints' = mints /\ tx' = tx
      /\ \A f \in Files : file[f] \in Keys => file'[f] = file[f]
      /\ \A s \in Runs \ {r} : proc[s].pc = "write" => file'[proc[s].of] = file[proc[s].of]
      /\ p.pc \in {"open", "write"} => p.new \in Keys
      /\ p.pc = "write" =>
            /\ file'[p.of] = Partial
            /\ \A s \in Runs \ {r} : ~(proc[s].pc = "write" /\ proc[s].of = p.of)
  BY DEF IInv, ShapeInv
<1>2. /\ \A f \in Files : p.key[f] # Missing => file'[f] = p.key[f]
      /\ \A f \in Files : proc[r].key[f] # Missing => p.key[f] # Missing
      /\ p.pc # "idle"
      /\ p.pc \in Early /\ p.of = "mint" => p.key["authority"] # Missing
      /\ p.pc \in Late => \A f \in Files : p.key[f] # Missing
      /\ p.pc \in Named => \E m \in mints :
            m.final /\ m.address = p.key["mint"] /\ m.authority = p.key["authority"]
  BY DEF IInv, KeyInv
<1> QED
  BY <1>1, <1>2, RunStep

LEMMA StartStep ==
  ASSUME Missing \notin Nat, IInv, NEW r \in Runs, NEW create \in BOOLEAN, Start(r, create)
  PROVE  IInv'
<1> DEFINE p == [proc[r] EXCEPT !.pc = "stat", !.create = create]
<1>1. /\ proc[r] \in Shapes /\ proc[r].of = "authority"
      /\ proc' = [proc EXCEPT ![r] = p] /\ UNCHANGED <<file, made, tx, mints>>
  BY DEF IInv, ShapeInv, StageInv, Start
<1>2. /\ p \in Shapes
      /\ p.pc = "stat" /\ p.of = proc[r].of /\ p.key = proc[r].key /\ p.new = proc[r].new
  BY <1>1 DEF Shapes, States, Early
<1>3. made' \in Nat
  BY <1>1 DEF IInv, ShapeInv
<1> HIDE DEF p
<1>4. p.pc \notin Late /\ p.pc \notin Named /\ p.of # "mint"
  BY <1>1, <1>2 DEF Late, Named
<1> QED
  BY <1>1, <1>2, <1>3, <1>4, QuietStep

\* The run goes on with the key of the file, which holds it in full.
LEMMA LoadedStep ==
  ASSUME Missing \notin Nat, IInv, NEW r \in Runs, NEW key \in Keys,
         proc[r].pc \in Early, proc' = [proc EXCEPT ![r] = Loaded(@, key)],
         file' \in [Files -> Nat \cup {Missing}],
         \A f \in Files : file[f] \in Keys => file'[f] = file[f],
         \A s \in Runs \ {r} : proc[s].pc = "write" => file'[proc[s].of] = file[proc[s].of],
         file'[proc[r].of] = key, UNCHANGED <<made, tx, mints>>
  PROVE  IInv'
<1> DEFINE p == Loaded(proc[r], key)
<1>1. proc[r] \in Shapes /\ key # Missing
  BY DEF IInv, ShapeInv, Keys
<1>2. /\ p \in Shapes
      /\ p.key = [proc[r].key EXCEPT ![proc[r].of] = key]
      /\ p.pc \in {"ask", "stat", "keys"}
      /\ p.pc = "ask" => proc[r].of = "mint"
      /\ p.pc = "stat" => proc[r].of = "authority"
  BY <1>1 DEF Loaded, Shapes, States, Early, Late, Ended, Files
<1>3. proc[r].key \in [Files -> Keys \cup {Missing}] /\ proc[r].of \in Files
  BY <1>1 DEF Shapes
<1>4. \A f \in Files : proc[r].key[f] # Missing => proc[r].key[f] \in Keys /\ file[f] = proc[r].key[f]
  BY <1>3 DEF IInv, KeyInv
<1>5. /\ \A f \in Files : p.key[f] # Missing => file'[f] = p.key[f]
      /\ \A f \in Files : proc[r].key[f] # Missing => p.key[f] # Missing
      /\ p.key[proc[r].of] # Missing
  BY <1>1, <1>2, <1>3, <1>4
<1>6. proc[r].of = "mint" => proc[r].key["authority"] # Missing
  BY DEF IInv, StageInv
<1> HIDE DEF p
<1>7. /\ p.pc \in Early /\ p.of = "mint" => p.key["authority"] # Missing
      /\ p.pc \in Late => \A f \in Files : p.key[f] # Missing
  BY <1>2, <1>5, <1>6 DEF Files, Early, Late
<1>8. /\ p.pc # "idle" /\ p.pc \notin {"open", "write"} /\ p.pc \notin Named
      /\ made' \in Nat /\ mints' = mints /\ proc' = [proc EXCEPT ![r] = p] /\ tx' = tx
  BY <1>2 DEF Named, IInv, ShapeInv, p
<1>9. p \in Shapes
  BY <1>2
<1> QED
  BY <1>5, <1>7, <1>8, <1>9, RunStep

LEMMA StatStep ==
  ASSUME Missing \notin Nat, IInv, NEW r \in Runs, Stat(r)
  PROVE  IInv'
<1>1. /\ proc[r].pc = "stat" /\ proc[r].pc \in Early
      /\ UNCHANGED <<file, made, tx, mints>> /\ file \in [Files -> Nat \cup {Missing}]
      /\ proc[r].of \in Files
  BY DEF Stat, Early, IInv, ShapeInv, Shapes
<1>2. CASE file[proc[r].of] = Missing
  <2>1. Go(r, "generate")
    BY <1>2 DEF Stat
  <2> QED
    BY <1>1, <2>1, GoStep DEF States, Early, Late, Named
<1>3. CASE file[proc[r].of] = Partial /\ file[proc[r].of] # Missing
  <2>1. Go(r, "stopped")
    BY <1>3 DEF Stat
  <2> QED
    BY <1>1, <2>1, GoStep DEF States, Ended, Early, Late, Named
<1>4. CASE file[proc[r].of] # Partial /\ file[proc[r].of] # Missing
  <2> DEFINE found == file[proc[r].of]
  <2>1. found \in Keys /\ proc' = [proc EXCEPT ![r] = Loaded(@, found)]
    BY <1>1, <1>4 DEF Stat, Keys
  <2>2. file' = file /\ file'[proc[r].of] = found
    BY <1>1
  <2> HIDE DEF found
  <2> QED
    BY <1>1, <2>1, <2>2, LoadedStep
<1> QED
  BY <1>2, <1>3, <1>4

LEMMA GenerateStep ==
  ASSUME Missing \notin Nat, IInv, NEW r \in Runs, Generate(r)
  PROVE  IInv'
<1> DEFINE p == [proc[r] EXCEPT !.new = made', !.pc = "open"]
<1>0. /\ proc[r] \in Shapes /\ proc[r].pc \in Early /\ proc \in [Runs -> Shapes]
      /\ UNCHANGED <<file, tx, mints>> /\ made' \in Nat /\ made' \in Keys
  BY DEF IInv, ShapeInv, Generate, Early, Keys, Partial
<1>1. proc' = [proc EXCEPT ![r] = p]
  BY <1>0 DEF Generate
<1>2. /\ p \in Shapes
      /\ p.pc = "open" /\ p.of = proc[r].of /\ p.key = proc[r].key /\ p.new \in Keys
  BY <1>0 DEF Shapes, States, Early
<1>3. p.of = "mint" => p.key["authority"] # Missing
  BY <1>0, <1>2 DEF IInv, StageInv
<1> HIDE DEF p
<1>4. p.pc \notin Late /\ p.pc \notin Named
  BY <1>2 DEF Late, Named
<1> QED
  BY <1>0, <1>1, <1>2, <1>3, <1>4, QuietStep

LEMMA OpenStep ==
  ASSUME Missing \notin Nat, IInv, NEW r \in Runs, Open(r)
  PROVE  IInv'
<1>1. CASE file[proc[r].of] # Missing
  <2>1. UNCHANGED <<file, made, tx, mints>> /\ Go(r, "stopped")
    BY <1>1 DEF Open
  <2> QED
    BY <2>1, GoStep DEF States, Ended, Early, Late, Named
<1>2. CASE file[proc[r].of] = Missing
  <2> DEFINE p == [proc[r] EXCEPT !.pc = "write"]
  <2>1. /\ proc[r] \in Shapes /\ proc[r].pc \in Early /\ proc[r].new \in Keys
        /\ proc' = [proc EXCEPT ![r] = p] /\ UNCHANGED <<made, tx, mints>>
        /\ file' = [file EXCEPT ![proc[r].of] = Partial]
    BY <1>2 DEF IInv, ShapeInv, WriterInv, Open, Go, Early
  <2>2. /\ p \in Shapes
        /\ p.pc = "write" /\ p.of = proc[r].of /\ p.key = proc[r].key /\ p.new \in Keys
        /\ p.of \in Files /\ file \in [Files -> Nat \cup {Missing}] /\ made' \in Nat
    BY <2>1 DEF Shapes, States, Early, IInv, ShapeInv
  <2>3. \A s \in Runs \ {r} : ~(proc[s].pc = "write" /\ proc[s].of = p.of)
    BY <1>2, <2>2 DEF IInv, WriterInv, Partial
  <2>4. \A s \in Runs : proc[s].of \in Files
    BY DEF IInv, ShapeInv, Shapes
  <2>5. \A f \in Files : f # p.of => file'[f] = file[f]
    BY <2>1, <2>2
  <2>6. /\ file' \in [Files -> Nat \cup {Missing}] /\ file'[p.of] = Partial
        /\ \A f \in Files : file[f] \in Keys => file'[f] = file[f]
    BY <1>2, <2>1, <2>2 DEF Partial, Keys
  <2>7. /\ \A f \in Files : p.key[f] # Missing => file'[f] = p.key[f]
        /\ p.of = "mint" => p.key["authority"] # Missing
    BY <1>2, <2>1, <2>2, <2>5 DEF IInv, KeyInv, StageInv
  <2> HIDE DEF p
  <2>8. \A s \in Runs \ {r} : proc[s].pc = "write" => file'[proc[s].of] = file[proc[s].of]
    BY <2>3, <2>4, <2>5
  <2>9. p.pc \notin Late /\ p.pc \notin Named
    BY <2>2 DEF Late, Named
  <2>10. /\ p.pc \in {"open", "write"} => p.new \in Keys
         /\ p.pc = "write" =>
              /\ file'[p.of] = Partial
              /\ \A s \in Runs \ {r} : ~(proc[s].pc = "write" /\ proc[s].of = p.of)
         /\ \A f \in Files : proc[r].key[f] # Missing => p.key[f] # Missing
         /\ p.pc # "idle" /\ p \in Shapes /\ made' \in Nat
    BY <2>2, <2>3, <2>6
  <2>11. proc' = [proc EXCEPT ![r] = p] /\ UNCHANGED <<tx, mints>>
    BY <2>1
  <2> QED
    BY <2>6, <2>7, <2>8, <2>9, <2>10, <2>11, RunStep
<1> QED
  BY <1>1, <1>2

LEMMA WriteStep ==
  ASSUME Missing \notin Nat, IInv, NEW r \in Runs, Write(r)
  PROVE  IInv'
<1>1. CASE file' = file /\ Go(r, "stopped")
  <2>1. UNCHANGED <<file, made, tx, mints>>
    BY <1>1 DEF Write
  <2> QED
    BY <1>1, <2>1, GoStep DEF States, Ended, Early, Late, Named
<1>2. CASE /\ file' = [file EXCEPT ![proc[r].of] = proc[r].new]
           /\ proc' = [proc EXCEPT ![r] = Loaded(@, @.new)]
  <2> DEFINE new == proc[r].new
  <2>1. /\ proc[r].pc = "write" /\ proc[r].pc \in Early /\ proc[r].of \in Files
        /\ new \in Keys /\ proc' = [proc EXCEPT ![r] = Loaded(@, new)]
        /\ UNCHANGED <<made, tx, mints>> /\ file \in [Files -> Nat \cup {Missing}]
    BY <1>2 DEF Write, Early, IInv, ShapeInv, Shapes, WriterInv
  <2>2. file[proc[r].of] = Partial
    BY <2>1 DEF IInv, WriterInv
  <2>3. \A s \in Runs \ {r} : proc[s].pc = "write" => proc[s].of \in Files /\ proc[s].of # proc[r].of
    BY <2>1 DEF IInv, ShapeInv, Shapes, WriterInv
  <2> HIDE DEF new
  <2>4. file' = [file EXCEPT ![proc[r].of] = new]
    BY <1>2 DEF new
  <2>5. /\ file' \in [Files -> Nat \cup {Missing}] /\ file'[proc[r].of] = new
        /\ \A f \in Files : file[f] \in Keys => file'[f] = file[f]
    BY <2>1, <2>2, <2>4 DEF Keys
  <2>6. \A s \in Runs \ {r} : proc[s].pc = "write" => file'[proc[s].of] = file[proc[s].of]
    BY <2>1, <2>3, <2>4
  <2> QED
    BY <2>1, <2>5, <2>6, LoadedStep
<1> QED
  BY <1>1, <1>2 DEF Write

\* What a run that talks to the ledger holds are the keys of the files.
LEMMA LateKeys ==
  ASSUME IInv, NEW r \in Runs, proc[r].pc \in Late \/ tx[r] = "sent"
  PROVE  /\ \A f \in Files : proc[r].key[f] # Missing /\ proc[r].key[f] = file[f]
         /\ proc[r].key["mint"] \in Keys /\ proc[r].key["authority"] \in Keys
         /\ \A m \in mints : m.address = proc[r].key["mint"] /\ m.authority = proc[r].key["authority"]
<1>1. \A f \in Files : proc[r].key[f] # Missing /\ proc[r].key[f] = file[f]
  BY DEF IInv, StageInv, KeyInv
<1>2. proc[r].key \in [Files -> Keys \cup {Missing}]
  BY DEF IInv, ShapeInv, Shapes
<1>3. proc[r].key["mint"] \in Keys /\ proc[r].key["authority"] \in Keys
  BY <1>1, <1>2 DEF Files
<1> QED
  BY <1>1, <1>3 DEF IInv, LedgerInv, Files

\* A finalized mint at the run's address is the one under both its keys.
LEMMA NamedIsFinal ==
  ASSUME IInv, NEW r \in Runs, proc[r].pc \in Late, Final(proc[r].key["mint"])
  PROVE  \E m \in mints :
            m.final /\ m.address = proc[r].key["mint"] /\ m.authority = proc[r].key["authority"]
BY LateKeys DEF Final

LEMMA AskStep ==
  ASSUME Missing \notin Nat, IInv, NEW r \in Runs, AskMint(r)
  PROVE  IInv'
<1>1. PICK pc \in {"send", "existing", "stopped"} :
         /\ Go(r, pc)
         /\ pc = "existing" => Final(proc[r].key["mint"])
  BY DEF AskMint
<1>2. proc[r].pc \in Late /\ UNCHANGED <<file, made, tx, mints>>
  BY DEF AskMint, Late
<1>3. pc \in Named => Final(proc[r].key["mint"])
  BY <1>1 DEF Named
<1>4. pc \in States /\ pc \notin {"idle", "open", "write"} /\ pc \notin Early
  BY <1>1 DEF States, Ended, Late, Early
<1> QED
  BY <1>1, <1>2, <1>3, <1>4, NamedIsFinal, GoStep

LEMMA SendStep ==
  ASSUME Missing \notin Nat, IInv, NEW r \in Runs, SendMint(r)
  PROVE  IInv'
<1>1. PICK pc \in {"wait", "stopped"} : Go(r, pc)
  BY DEF SendMint
<1>2. /\ proc[r].pc \in Late /\ UNCHANGED <<file, made, mints>>
      /\ tx' = tx \/ tx' = [tx EXCEPT ![r] = "sent"]
  BY DEF SendMint, Late
<1>3. pc \in States /\ pc \notin {"idle", "open", "write"} /\ pc \notin Early /\ pc \notin Named
  BY <1>1 DEF States, Ended, Late, Early, Named
<1> QED
  BY <1>1, <1>2, <1>3, GoStep

LEMMA ObserveStep ==
  ASSUME Missing \notin Nat, IInv, NEW r \in Runs, Observe(r)
  PROVE  IInv'
<1>1. PICK pc \in {"created", "stopped"} :
         /\ Go(r, pc)
         /\ pc = "created" => Final(proc[r].key["mint"])
  BY DEF Observe
<1>2. proc[r].pc \in Late /\ UNCHANGED <<file, made, tx, mints>>
  BY DEF Observe, Late
<1>3. pc \in Named => Final(proc[r].key["mint"])
  BY <1>1 DEF Named
<1>4. pc \in States /\ pc \notin {"idle", "open", "write"} /\ pc \notin Early
  BY <1>1 DEF States, Ended, Late, Early
<1> QED
  BY <1>1, <1>2, <1>3, <1>4, NamedIsFinal, GoStep

LEMMA StopStep ==
  ASSUME Missing \notin Nat, IInv, NEW r \in Runs, Stop(r)
  PROVE  IInv'
<1>1. Go(r, "stopped") /\ UNCHANGED <<file, made, tx, mints>>
  BY DEF Stop
<1> QED
  BY <1>1, GoStep DEF States, Ended, Early, Late, Named

\* A step of the cluster leaves the files and the runs alone.
LEMMA ClusterStep ==
  ASSUME IInv, UNCHANGED <<file, made, proc>>, NEW r \in Runs,
         NEW state \in {"landed", "failed", "expired"},
         tx' = tx \/ tx' = [tx EXCEPT ![r] = state],
         \A m \in mints' : m \in [address : Keys, authority : Keys, final : BOOLEAN],
         LedgerInv', NamesAFinalMint'
  PROVE  IInv'
<1>1. ShapeInv' /\ \A s \in Runs : tx'[s] = "sent" => tx[s] = "sent"
  BY DEF IInv, ShapeInv
<1> QED
  BY <1>1 DEF IInv, WriterInv, KeyInv, StageInv

LEMMA LandStep ==
  ASSUME IInv, NEW r \in Runs, Land(r)
  PROVE  IInv'
<1>1. /\ tx[r] = "sent" /\ UNCHANGED <<file, made, proc>>
      /\ \A m \in mints : m \in [address : Keys, authority : Keys, final : BOOLEAN]
  BY DEF Land, IInv, ShapeInv
<1>2. CASE Exists(proc[r].key["mint"])
  <2>1. tx' = [tx EXCEPT ![r] = "failed"] /\ mints' = mints
    BY <1>2 DEF Land
  <2>2. LedgerInv' /\ NamesAFinalMint'
    BY <1>1, <2>1 DEF IInv, LedgerInv, NamesAFinalMint
  <2> QED
    BY <1>1, <2>1, <2>2, ClusterStep
<1>3. CASE ~Exists(proc[r].key["mint"])
  <2> DEFINE new == [address |-> proc[r].key["mint"], authority |-> proc[r].key["authority"],
                     final |-> FALSE]
  <2>1. tx' = [tx EXCEPT ![r] = "landed"] /\ mints' = mints \cup {new}
    BY <1>3 DEF Land
  <2>2. mints = {}
    BY <1>1, <1>3, LateKeys DEF Exists
  <2>3. /\ new \in [address : Keys, authority : Keys, final : BOOLEAN]
        /\ new.address = file["mint"] /\ new.authority = file["authority"]
    BY <1>1, LateKeys DEF Files
  <2> HIDE DEF new
  <2>4. LedgerInv' /\ NamesAFinalMint'
    BY <1>1, <2>1, <2>2, <2>3 DEF IInv, LedgerInv, NamesAFinalMint
  <2> QED
    BY <1>1, <2>1, <2>2, <2>3, <2>4, ClusterStep
<1> QED
  BY <1>2, <1>3

LEMMA ExpireStep ==
  ASSUME IInv, NEW r \in Runs, Expire(r)
  PROVE  IInv'
<1>1. /\ tx' = [tx EXCEPT ![r] = "expired"] /\ UNCHANGED <<file, made, proc, mints>>
      /\ \A m \in mints : m \in [address : Keys, authority : Keys, final : BOOLEAN]
  BY DEF Expire, IInv, ShapeInv
<1>2. LedgerInv' /\ NamesAFinalMint'
  BY <1>1 DEF IInv, LedgerInv, NamesAFinalMint
<1> QED
  BY <1>1, <1>2, ClusterStep

LEMMA FinalizeStep ==
  ASSUME IInv, NEW m \in mints, Finalize(m)
  PROVE  IInv'
<1> DEFINE new == [m EXCEPT !.final = TRUE]
<1>1. /\ mints' = (mints \ {m}) \cup {new} /\ UNCHANGED <<file, made, proc, tx>>
      /\ m \in [address : Keys, authority : Keys, final : BOOLEAN] /\ ~m.final
  BY DEF Finalize, IInv, ShapeInv
<1>2. mints' = {new}
  BY <1>1 DEF IInv, LedgerInv
<1>3. /\ new \in [address : Keys, authority : Keys, final : BOOLEAN]
      /\ new.address = file["mint"] /\ new.authority = file["authority"]
  BY <1>1 DEF IInv, LedgerInv
<1> HIDE DEF new
<1>4. \A r \in Runs : proc[r].pc \notin {"existing", "created"}
  BY <1>1 DEF IInv, LedgerInv, NamesAFinalMint
<1>5. ShapeInv' /\ LedgerInv' /\ NamesAFinalMint'
  BY <1>1, <1>2, <1>3, <1>4 DEF IInv, ShapeInv, LedgerInv, NamesAFinalMint
<1> QED
  BY <1>1, <1>5 DEF IInv, WriterInv, KeyInv, StageInv

LEMMA NextInv ==
  ASSUME Missing \notin Nat, IInv, [Next]_vars
  PROVE  IInv'
<1>1. CASE \E r \in Runs :
          \/ \E create \in BOOLEAN : Start(r, create)
          \/ Stat(r) \/ Generate(r) \/ Open(r) \/ Write(r)
  BY <1>1, StartStep, StatStep, GenerateStep, OpenStep, WriteStep
<1>2. CASE \E r \in Runs : AskMint(r) \/ SendMint(r) \/ Observe(r) \/ Stop(r)
  BY <1>2, AskStep, SendStep, ObserveStep, StopStep
<1>3. CASE (\E r \in Runs : Land(r) \/ Expire(r)) \/ (\E m \in mints : Finalize(m))
  BY <1>3, LandStep, ExpireStep, FinalizeStep
<1>4. CASE UNCHANGED vars
  BY <1>4 DEF vars, IInv, ShapeInv, WriterInv, KeyInv, StageInv, LedgerInv, NamesAFinalMint
<1> QED
  BY <1>1, <1>2, <1>3, <1>4 DEF Next

\* The conjunction of named parts is inductive for every number of runs.
THEOREM Inductive ==
  ASSUME Missing \notin Nat
  PROVE  Spec => []IInv
<1>1. Init => IInv
  BY InitInv
<1>2. IInv /\ [Next]_vars => IInv'
  BY NextInv
<1> QED
  BY <1>1, <1>2, PTL DEF Spec

\* OneMint: CreateAccount (main.go) succeeds at most once, whatever runs are
\* repeated or overlap.
THEOREM MintIsUnique ==
  ASSUME Missing \notin Nat
  PROVE  Spec => []OneMint
<1>1. IInv => OneMint
  <2> SUFFICES ASSUME IInv PROVE OneMint
    OBVIOUS
  <2>1. CASE mints = {}
    BY <2>1, FS_EmptySet DEF OneMint
  <2>2. CASE \E m \in mints : TRUE
    <3>1. PICK m \in mints : mints = {m}
      BY <2>2 DEF IInv, LedgerInv
    <3>2. Cardinality(mints) = 1
      BY <3>1, FS_Singleton
    <3> QED
      BY <3>2 DEF OneMint
  <2> QED
    BY <2>1, <2>2
<1> QED
  BY <1>1, Inductive, PTL

\* EveryMintHasItsKeys: the keypair files (main.go, keypair) hold in full what
\* a mint needs, whichever run made it.
THEOREM KeysAreKept ==
  ASSUME Missing \notin Nat
  PROVE  Spec => []EveryMintHasItsKeys
<1>1. IInv => EveryMintHasItsKeys
  <2> SUFFICES ASSUME IInv PROVE EveryMintHasItsKeys
    OBVIOUS
  <2>1. \A r \in Runs : tx[r] = "sent" => proc[r].key = file
    <3> SUFFICES ASSUME NEW r \in Runs, tx[r] = "sent" PROVE proc[r].key = file
      OBVIOUS
    <3>1. \A f \in Files : proc[r].key[f] = file[f]
      BY LateKeys
    <3>2. proc[r].key \in [Files -> Keys \cup {Missing}] /\ file \in [Files -> Nat \cup {Missing}]
      BY DEF IInv, ShapeInv, Shapes
    <3> QED
      BY <3>1, <3>2
  <2> QED
    BY <2>1 DEF IInv, LedgerInv, EveryMintHasItsKeys
<1> QED
  BY <1>1, Inductive, PTL

\* NamesAFinalMint: the mint that a run tells the operator to configure is
\* finalized and under the authority it names.
THEOREM NamedMintIsFinal ==
  ASSUME Missing \notin Nat
  PROVE  Spec => []NamesAFinalMint
<1>1. IInv => NamesAFinalMint
  BY DEF IInv
<1> QED
  BY <1>1, Inductive, PTL
=============================================================================
