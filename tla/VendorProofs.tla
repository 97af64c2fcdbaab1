------------------------------ MODULE VendorProofs ------------------------------
(***************************************************************************)
(* What VendorPublication promises, for any number of commands, operations,*)
(* failures and acts of a person: the state is well typed, a leased tree   *)
(* stays in place, the last published registry is retained, and what a     *)
(* command reports ready is one publication.                               *)
(***************************************************************************)
EXTENDS VendorPublication, FiniteSetTheorems, TLAPS

---------------------------------------------------------------------------
(* The inductive invariant *)

\* The operations are numbered from one, without gaps.
Numbered == \E n \in Nat : contents \in [1 .. n -> Lockfile]

Published == {"config", "manifest", "last", "uncover"}
Holding == {"populate", "validate", "commit", "mkfence", "retire"} \cup UnderFence
Done == {"release", "unlock"}

\* What the locals of one command say about each other.
Control(l) ==
    /\ l.pc = "idle" => l.run = 0
    /\ l.pc = "lease" => l.tree # 0
    /\ l.lease => /\ l.tree # 0
                  /\ l.pc \in {"fence", "writer", "receipt", "resolver", "catalogue", "ready"}
    /\ l.pass = 2 => l.lease
    /\ l.pc = "catalogue" => l.lease
    /\ l.pc = "ready" => l.pass = 2
    /\ l.locked # {} => l.pc \in Holding
    /\ l.pc \in Holding \cup {"acquired", "previous"} \cup Done => l.run # 0
    /\ l.pc \in Holding /\ l.previous # 0 => l.previous \in l.locked
    /\ l.pc \in Holding \ {"populate"} => l.run \in l.locked
    /\ l.published <=> l.pc \in Published \cup {"retire"}
    /\ l.old # 0 => l.pc \in Published \cup {"publish", "retire"}

ControlInv == \A p \in Proc : Control(proc[p])

\* The number of an operation is its own.
OwnRuns == \A p, q \in Proc : p # q /\ proc[p].run # 0 => proc[p].run # proc[q].run

\* The fence belongs to one command.
OneOwner ==
    /\ \A p \in Proc : proc[p].pc \in UnderFence => fence
    /\ \A p, q \in Proc : proc[p].pc \in UnderFence /\ proc[q].pc \in UnderFence => p = q

Publishing(p) == proc[p].run # 0 /\ ~proc[p].published /\ proc[p].pc \notin Done

\* Nobody knows the tree of an operation before it is published ...
FreshRuns ==
    \A p \in Proc :
        Publishing(p) => /\ vendor # proc[p].run /\ committed # proc[p].run
                         /\ manifest.of # proc[p].run
                         /\ \A q \in Proc \ {p} : proc[p].run \notin proc[q].locked

\* ... and it stays in place while its command still has it locked.
PublishedInPlace ==
    \A p \in Proc :
        /\ proc[p].pc \in Published => vendor = proc[p].run /\ committed # proc[p].run
        /\ proc[p].pc = "retire" => vendor = proc[p].run /\ committed = proc[p].run

\* Exclusive locks on a tree exclude each other and the leases.
Exclusion ==
    /\ \A p, q \in Proc : p # q => proc[p].locked \cap proc[q].locked = {}
    /\ \A p, q \in Proc : proc[p].lease => proc[p].tree \notin proc[q].locked

Waiting == {"populate", "validate", "commit", "mkfence", "fenced", "move"}

\* While an operation has its lock file, the tree it locked is in place unless
\* an operation whose lock was taken away replaced it, and then that one's
\* fence can no more be cleared by a command.
LockHolderSeesTree ==
    \A p \in Proc :
        (proc[p].pc \in Waiting /\ Intact(p) /\ vendor # proc[p].previous) =>
            /\ fence
            /\ \A o \in Proc :
                   proc[o].pc \in UnderFence =>
                       proc[o].pc \in {"publish", "config", "manifest", "last"} /\ ~Untouched(o)

MovesWhatItLocked == \A p \in Proc : proc[p].pc = "move" => vendor = proc[p].previous

\* A stage was populated for the lock file its operation read.
StageMatchesGraph ==
    \A p \in Proc :
        /\ proc[p].graph.id <= cargoLock.id
        /\ proc[p].pc = "validate" /\ Unchanged(p) => contents[proc[p].run] = proc[p].graph.content
        /\ proc[p].pc \in {"commit", "mkfence"} \cup UnderFence =>
               contents[proc[p].run] = proc[p].graph.content

ReceiptMatchesTree ==
    /\ manifest # Nothing => manifest.digest = contents[manifest.of]
    /\ \A p \in Proc : proc[p].pc \in {"manifest", "last", "uncover"} => config.of = proc[p].run
    /\ \A p \in Proc : proc[p].pc \in {"last", "uncover"} => manifest.of = proc[p].run

Coherent == vendor = committed /\ config.of = committed /\ manifest.of = committed

\* The public files are one publication whenever the fence is not there, and
\* under it until its owner changes the first of them.
CoherentUnlessFenced ==
    (~fence \/ \E o \in Proc : proc[o].pc \in UnderFence /\ Untouched(o)) => Coherent

\* The second look of a check found no fence and pins what it sees.
SecondLook ==
    \A p \in Proc :
        proc[p].pass = 2 =>
            /\ proc[p].pc \in {"writer", "receipt", "resolver", "ready"} => Coherent
            /\ proc[p].pc \in {"resolver", "ready"} =>
                   proc[p].seen.manifest = manifest /\ manifest.digest = proc[p].graph.content
            /\ proc[p].pc = "ready" => proc[p].seen.config = config
---------------------------------------------------------------------------
(* Type correctness *)

TypeInv == TypeOK /\ Numbered

\* The next operation is new, and continues the numbering.
LEMMA NextIsNew ==
    ASSUME Numbered
    PROVE  /\ NextOperation \in Nat \ {0} /\ NextOperation \notin Operations
           /\ Operations = 1 .. Cardinality(Operations)
           /\ Operations \cup {NextOperation} = 1 .. NextOperation
           /\ Cardinality(Operations \cup {NextOperation}) = NextOperation
           /\ 0 \notin Operations
<1>1. PICK n \in Nat : contents \in [1 .. n -> Lockfile]
      BY DEF Numbered
<1>2. Operations = 1 .. n
      BY <1>1 DEF Operations
<1>3. Cardinality(1 .. n) = n /\ Cardinality(1 .. (n + 1)) = n + 1
      BY <1>1, FS_Interval
<1>4. NextOperation = n + 1
      BY <1>2, <1>3 DEF NextOperation
<1>5. 1 .. n \cup {n + 1} = 1 .. (n + 1)
      OBVIOUS
<1>6. Operations \cup {NextOperation} = 1 .. NextOperation
      BY <1>2, <1>4, <1>5
<1>7. Cardinality(Operations \cup {NextOperation}) = NextOperation
      BY <1>3, <1>4, <1>6
<1>8. Operations = 1 .. Cardinality(Operations)
      BY <1>2, <1>3
<1>9. NextOperation \in Nat \ {0} /\ NextOperation \notin Operations /\ 0 \notin Operations
      BY <1>2, <1>4
<1> QED BY <1>6, <1>7, <1>8, <1>9

\* Every type a control file or a local can have grows with the operations.
LEMMA TypesGrow ==
    ASSUME Operations \subseteq Operations'
    PROVE  ControlFile \subseteq ControlFile' /\ Locals \subseteq Locals'
<1>1. ControlFile \subseteq ControlFile'
      BY DEF ControlFile, Nothing
<1> QED BY <1>1 DEF Locals, NoLock, Label, BeforeFence, UnderFence

\* The locals a command starts from, returns to and keeps to release its lock.
LEMMA IdleType ==
    ASSUME NEW lock \in [content : Lockfile, id : Nat] \cup {NoLock}
    PROVE  Idle(lock) \in Locals
BY DEF Idle, Locals, ControlFile, Label

\* Nothing is there at the start.
LEMMA TypeInit == Init => TypeInv
<1> SUFFICES ASSUME Init PROVE TypeInv
    OBVIOUS
<1>1. contents \in [1 .. 0 -> Lockfile] /\ Operations = 1 .. 0
      BY DEF Init, Operations
<1>2. Cardinality(Operations) = 0
      BY <1>1, FS_Interval
<1>3. proc \in [Proc -> Locals]
      BY IdleType DEF Init
<1>4. {config, manifest} \subseteq ControlFile
      BY DEF Init, ControlFile
<1>5. Numbered
      BY <1>1 DEF Numbered
<1>6. contents \in [1 .. Cardinality(Operations) -> Lockfile]
      BY <1>1, <1>2
<1>7. cargoLock \in [content : Lockfile, id : Nat] /\ staged \subseteq Operations
      BY DEF Init
<1>8. {vendor, lockFile, committed} \subseteq Operations \cup {0}
      BY DEF Init
<1>9. acts \in 0 .. MaxActs /\ faults \in 0 .. MaxFaults
      BY VendorAssumption DEF Init
<1>10. fence \in BOOLEAN
      BY Zenon DEF Init
<1> QED BY <1>3, <1>4, <1>5, <1>6, <1>7, <1>8, <1>9, <1>10 DEF TypeInv, TypeOK

\* A step that creates no operation leaves the types as they are.
LEMMA SameTypes ==
    ASSUME UNCHANGED contents
    PROVE  /\ Operations' = Operations /\ ControlFile' = ControlFile /\ Locals' = Locals
           /\ Numbered => Numbered'
BY DEF Operations, ControlFile, Nothing, Locals, NoLock, Label, BeforeFence, UnderFence, Numbered

\* A step that only moves a command on keeps the types.
LEMMA DiskType ==
    ASSUME TypeInv, Disk, proc' \in [Proc -> Locals]
    PROVE  TypeInv'
<1>1. UNCHANGED contents
      BY DEF Disk
<1> QED BY <1>1, SameTypes DEF TypeInv, TypeOK, Disk, public, Operations

\* Ending, refusing, releasing and moving on keep the locals well typed.
LEMMA MoveType ==
    ASSUME TypeInv, NEW p \in Proc
    PROVE  /\ \A l \in Locals : Set(p, l) => proc' \in [Proc -> Locals]
           /\ \A label \in Label : [proc[p] EXCEPT !.pc = label] \in Locals
           /\ Idle(NoLock) \in Locals /\ Released(p) \in Locals
           /\ Idle(cargoLock) \in Locals
<1>1. proc \in [Proc -> Locals] /\ cargoLock \in [content : Lockfile, id : Nat]
      BY DEF TypeInv, TypeOK
<1>2. \A l \in Locals : Set(p, l) => proc' \in [Proc -> Locals]
      BY <1>1 DEF Set
<1>3. \A label \in Label : [proc[p] EXCEPT !.pc = label] \in Locals
      BY <1>1, SMTT(30) DEF Locals
<1>4. proc[p].graph \in [content : Lockfile, id : Nat] \cup {NoLock}
      BY <1>1 DEF Locals
<1>5. Idle(NoLock) \in Locals /\ Idle(cargoLock) \in Locals /\ Idle(proc[p].graph) \in Locals
      BY <1>1, <1>4, IdleType
<1>6. Released(p) \in Locals
      BY <1>1, <1>5 DEF Released, Locals, Label
<1> QED BY <1>2, <1>3, <1>5, <1>6

\* A refused check ends, or the provisioning that asked for it goes on.
LEMMA RefuseType ==
    ASSUME TypeInv, NEW p \in Proc, Refuse(p)
    PROVE  proc' \in [Proc -> Locals]
<1>1. proc[p] \in Locals
      BY DEF TypeInv, TypeOK
<1>2. CASE proc[p].kind = "provision"
  <2>1. \A label \in {"clear", "previous"} :
            [proc[p] EXCEPT !.lease = FALSE, !.tree = 0, !.pass = 1, !.pc = label] \in Locals
        BY <1>1 DEF Locals, Label, BeforeFence
  <2> QED BY <1>2, <2>1, MoveType DEF Refuse
<1>3. CASE proc[p].kind # "provision"
      BY <1>3, MoveType DEF Refuse, End
<1> QED BY <1>2, <1>3

\* The steps of a check.
LEMMA ReadType ==
    ASSUME TypeInv, NEW p \in Proc, Read(p)
    PROVE  TypeInv'
<1>0. proc[p] \in Locals /\ {config, manifest} \subseteq ControlFile
      /\ vendor \in Operations \cup {0} /\ cargoLock \in [content : Lockfile, id : Nat]
      BY DEF TypeInv, TypeOK
<1>1. CASE Start(p)
  <2>1. PICK kind \in {"check", "use"} :
           Set(p, [Idle(cargoLock) EXCEPT !.kind = kind,
                     !.pc = IF kind = "use" THEN "open" ELSE "fence"])
        BY <1>1 DEF Start
  <2>2. \A label \in {"open", "fence"} :
            [Idle(cargoLock) EXCEPT !.kind = kind, !.pc = label] \in Locals
    <3>1. Idle(cargoLock) \in Locals
          BY MoveType
    <3> QED BY <3>1 DEF Locals, Label
  <2>3. proc' \in [Proc -> Locals]
        BY <2>1, <2>2, MoveType
  <2> QED BY <2>3, <1>1, DiskType DEF Start
<1>2. CASE SeeFence(p)
      BY <1>2, DiskType, RefuseType, MoveType DEF SeeFence, Goto, Label
<1>3. CASE SeeWriter(p)
      BY <1>3, DiskType, RefuseType, MoveType DEF SeeWriter, Goto, End, Label
<1>4. CASE SeeManifest(p)
  <2>1. [proc[p] EXCEPT !.seen.manifest = manifest, !.pc = "resolver"] \in Locals
        BY <1>0 DEF Locals, Label
  <2> QED BY <2>1, <1>4, DiskType, RefuseType, MoveType DEF SeeManifest
<1>5. CASE SeeConfig(p)
  <2>1. \A label \in {"catalogue", "open"} :
            [proc[p] EXCEPT !.seen.config = config, !.pc = label] \in Locals
        BY <1>0 DEF Locals, Label
  <2> QED BY <2>1, <1>5, DiskType, RefuseType, MoveType DEF SeeConfig, Goto, Label
<1>6. CASE Open(p)
  <2>1. [proc[p] EXCEPT !.tree = vendor, !.pc = "lease"] \in Locals
        BY <1>0 DEF Locals, Label
  <2> QED BY <2>1, <1>6, DiskType, RefuseType, MoveType DEF Open
<1>7. CASE Lease(p)
  <2>1. [proc[p] EXCEPT !.lease = TRUE, !.graph = cargoLock, !.pc = "fence"] \in Locals
        BY <1>0 DEF Locals, Label
  <2>2. [proc[p] EXCEPT !.lease = TRUE, !.pc = "catalogue"] \in Locals
        BY <1>0 DEF Locals, Label
  <2> QED BY <2>1, <2>2, <1>7, DiskType, RefuseType, MoveType DEF Lease
<1>8. CASE Catalogue(p)
  <2>1. [proc[p] EXCEPT !.pass = 2, !.pc = "fence"] \in Locals
        BY <1>0 DEF Locals, Label
  <2> QED BY <2>1, <1>8, DiskType, RefuseType, MoveType DEF Catalogue
<1>9. CASE Ready(p)
      BY <1>9, DiskType, MoveType DEF Ready, End
<1> QED BY <1>1, <1>2, <1>3, <1>4, <1>5, <1>6, <1>7, <1>8, <1>9 DEF Read

\* A step that creates no operation keeps the types when what it writes has
\* them.
LEMMA SameContentsType ==
    ASSUME TypeInv, UNCHANGED <<contents, cargoLock>>,
           {vendor', lockFile', committed'} \subseteq Operations \cup {0},
           staged' \subseteq Operations, {config', manifest'} \subseteq ControlFile,
           fence' \in BOOLEAN, proc' \in [Proc -> Locals],
           acts' \in 0 .. MaxActs, faults' \in 0 .. MaxFaults
    PROVE  TypeInv'
<1>1. /\ Operations' = Operations /\ ControlFile' = ControlFile /\ Locals' = Locals
      /\ Numbered'
      BY SameTypes DEF TypeInv
<1>2. contents' \in [1 .. Cardinality(Operations') -> Lockfile]
      BY <1>1 DEF TypeInv, TypeOK
<1> QED BY <1>1, <1>2 DEF TypeInv, TypeOK

\* An operation that is created, and the tree it populates.
LEMMA AcquireType ==
    ASSUME TypeInv, NEW p \in Proc, Acquire(p)
    PROVE  TypeInv'
<1>0. proc \in [Proc -> Locals] /\ cargoLock \in [content : Lockfile, id : Nat]
      BY DEF TypeInv, TypeOK
<1>1. CASE End(p) /\ UNCHANGED <<lockFile, contents>>
      BY <1>1, MoveType, SameContentsType DEF Acquire, End, TypeInv, TypeOK, public
<1>2. CASE ~(End(p) /\ UNCHANGED <<lockFile, contents>>)
  <2> DEFINE run == NextOperation
  <2>1. /\ lockFile' = run
        /\ contents' = [o \in Operations \cup {run} |->
                            IF o = run THEN cargoLock.content ELSE contents[o]]
        /\ Set(p, [proc[p] EXCEPT !.run = run, !.pc = "acquired"])
        /\ UNCHANGED <<cargoLock, public, fence, staged, committed, acts, faults>>
        BY <1>2 DEF Acquire
  <2>2. PICK n \in Nat : contents \in [1 .. n -> Lockfile]
        BY DEF TypeInv, Numbered
  <2>3. Operations' = Operations \cup {run} /\ Operations' = 1 .. run /\ run \in Nat
        BY <2>1, NextIsNew DEF TypeInv, Operations
  <2>4. contents' \in [1 .. run -> Lockfile]
        BY <1>0, <2>1, <2>2, <2>3 DEF Operations
  <2>5. Numbered' /\ contents' \in [1 .. Cardinality(Operations') -> Lockfile]
        BY <2>3, <2>4, NextIsNew DEF Numbered, TypeInv
  <2>6. Operations \subseteq Operations' /\ ControlFile \subseteq ControlFile'
        /\ Locals \subseteq Locals'
        BY <2>3, TypesGrow
  <2>7. [proc[p] EXCEPT !.run = run, !.pc = "acquired"] \in Locals'
    <3>1. proc[p] \in Locals' /\ run \in Operations'
          BY <1>0, <2>3, <2>6, NextIsNew DEF TypeInv
    <3> HIDE DEF run
    <3> QED BY <3>1 DEF Locals, Label, BeforeFence
  <2>8. proc' \in [Proc -> Locals']
        BY <1>0, <2>1, <2>6, <2>7 DEF Set
  <2> QED BY <2>1, <2>3, <2>5, <2>6, <2>8 DEF TypeInv, TypeOK, public
<1> QED BY <1>1, <1>2

\* Populating a stage changes for which lock file its own tree is.
LEMMA PopulateType ==
    ASSUME TypeInv, NEW p \in Proc, Populate(p), proc[p].run # 0
    PROVE  TypeInv'
<1>0. proc[p] \in Locals /\ cargoLock \in [content : Lockfile, id : Nat]
      BY DEF TypeInv, TypeOK
<1>1. proc[p].run \in Operations
      BY <1>0 DEF Locals
<1>2. PICK n \in Nat : contents \in [1 .. n -> Lockfile]
      BY DEF TypeInv, Numbered
<1>3. contents' \in [1 .. n -> Lockfile] /\ Operations' = Operations
      BY <1>0, <1>2 DEF Populate, Operations
<1>4. Numbered' /\ contents' \in [1 .. Cardinality(Operations') -> Lockfile]
  <2>1. Numbered'
        BY <1>3 DEF Numbered
  <2>2. Operations = 1 .. n
        BY <1>2 DEF Operations
  <2> QED BY <1>3, <2>1, <2>2, NextIsNew DEF TypeInv
<1>5. ControlFile' = ControlFile /\ Locals' = Locals
      BY <1>3 DEF ControlFile, Nothing, Locals, NoLock, Label, BeforeFence, UnderFence
<1>6. [proc[p] EXCEPT !.locked = @ \cup {proc[p].run}, !.pc = "validate"] \in Locals
      BY <1>0, <1>1 DEF Locals, Label, BeforeFence
<1>7. proc' \in [Proc -> Locals]
      BY <1>6, MoveType DEF Populate
<1> QED BY <1>1, <1>3, <1>4, <1>5, <1>7 DEF Populate, TypeInv, TypeOK, public

\* The steps of a provisioning that leave the disk alone.
LEMMA ProvisionType ==
    ASSUME TypeInv, NEW p \in Proc,
           \/ Provision(p) \/ SeeNoFence(p) \/ Reuse(p) \/ LockPrevious(p) \/ Validate(p)
           \/ CheckBeforeFence(p) \/ CheckUnderFence(p) \/ CheckPublished(p) \/ Release(p)
    PROVE  TypeInv'
<1>0. proc[p] \in Locals /\ vendor \in Operations \cup {0}
      BY DEF TypeInv, TypeOK
<1>1. CASE Provision(p)
  <2>1. PICK force \in BOOLEAN :
          Set(p, [Idle(cargoLock) EXCEPT !.kind = "provision", !.force = force,
                     !.pc = IF manifest # Nothing /\ ~force THEN "fence" ELSE "clear"])
        BY <1>1 DEF Provision
  <2>2. \A label \in {"fence", "clear"} :
            [Idle(cargoLock) EXCEPT !.kind = "provision", !.force = force, !.pc = label] \in Locals
    <3>1. Idle(cargoLock) \in Locals
          BY MoveType
    <3> QED BY <3>1 DEF Locals, Label
  <2>3. proc' \in [Proc -> Locals]
        BY <2>1, <2>2, MoveType
  <2> QED BY <1>1, <2>3, DiskType DEF Provision
<1>2. CASE SeeNoFence(p)
      BY <1>2, DiskType, MoveType DEF SeeNoFence, Goto, End, Label
<1>3. CASE Reuse(p)
  <2>1. \A label \in {"fence", "previous"} : [proc[p] EXCEPT !.pass = 1, !.pc = label] \in Locals
        BY <1>0 DEF Locals, Label, BeforeFence
  <2> QED BY <2>1, <1>3, DiskType, MoveType DEF Reuse
<1>4. CASE LockPrevious(p)
  <2>1. [proc[p] EXCEPT !.previous = vendor, !.locked = {vendor} \ {0},
                     !.pc = "populate"] \in Locals
        BY <1>0 DEF Locals, Label, BeforeFence
  <2> QED BY <2>1, <1>4, DiskType, MoveType DEF LockPrevious
<1>5. CASE Validate(p) \/ CheckBeforeFence(p) \/ CheckUnderFence(p) \/ CheckPublished(p)
      BY <1>5, DiskType, MoveType
      DEF Validate, CheckBeforeFence, CheckUnderFence, CheckPublished, Goto, Label,
          BeforeFence, UnderFence
<1>6. CASE Release(p)
      BY <1>6, DiskType, MoveType DEF Release, Goto, End, Label
<1> QED BY <1>1, <1>2, <1>3, <1>4, <1>5, <1>6


\* The steps of a provisioning that change the disk.
LEMMA CommitType ==
    ASSUME TypeInv, NEW p \in Proc, proc[p].pc \in UnderFence => proc[p].run # 0,
           \/ CreateFence(p) \/ MoveOld(p) \/ PublishTree(p) \/ WriteConfig(p)
           \/ WriteManifest(p) \/ ClearFence(p) \/ Retire(p) \/ Unlock(p)
    PROVE  TypeInv'
<1>0. /\ proc[p] \in Locals /\ {vendor, proc[p].run} \subseteq Operations \cup {0}
      /\ staged \subseteq Operations /\ cargoLock \in [content : Lockfile, id : Nat]
      BY DEF TypeInv, TypeOK, Locals
<1> USE DEF TypeInv, TypeOK, public
<1>1. CASE CreateFence(p)
      BY <1>1, SameContentsType, MoveType DEF CreateFence, Goto, Label, UnderFence
<1>2. CASE MoveOld(p)
  <2>1. [proc[p] EXCEPT !.old = vendor, !.pc = "publish"] \in Locals
        BY <1>0 DEF Locals, Label, UnderFence
  <2> QED BY <1>0, <1>2, <2>1, SameContentsType, MoveType DEF MoveOld
<1>3. CASE PublishTree(p)
  <2>1. [proc[p] EXCEPT !.published = TRUE, !.pc = "config"] \in Locals
        BY <1>0 DEF Locals, Label, UnderFence
  <2> QED BY <1>0, <1>3, <2>1, SameContentsType, MoveType DEF PublishTree
<1>4. CASE WriteConfig(p) \/ WriteManifest(p)
  <2>1. Written(p) \in ControlFile
    <3>1. proc[p].run \in Operations /\ proc[p].graph = cargoLock
          BY <1>0, <1>4 DEF WriteConfig, WriteManifest, At, UnderFence, Unchanged
    <3>2. Operations \subseteq Nat
          BY NextIsNew
    <3> QED BY <1>0, <3>1, <3>2 DEF Written, ControlFile
  <2> QED BY <1>4, <2>1, SameContentsType, MoveType
          DEF WriteConfig, WriteManifest, Goto, Label, UnderFence
<1>5. CASE ClearFence(p)
      BY <1>0, <1>5, SameContentsType, MoveType DEF ClearFence, Goto, Label
<1>6. CASE Retire(p)
      BY <1>0, <1>6, SameContentsType, MoveType DEF Retire
<1>7. CASE Unlock(p)
      BY <1>7, SameContentsType, MoveType DEF Unlock, End
<1> QED BY <1>1, <1>2, <1>3, <1>4, <1>5, <1>6, <1>7

\* The failures of a command.
LEMMA FaultType ==
    ASSUME TypeInv, NEW p \in Proc, GiveUp(p) \/ Fault(p)
    PROVE  TypeInv'
<1> USE DEF TypeInv, TypeOK, public
<1>0. faults < MaxFaults /\ faults' = faults + 1 => faults' \in 0 .. MaxFaults
      BY VendorAssumption
<1>1. CASE Abort(p) /\ faults' \in 0 .. MaxFaults
      BY <1>1, SameContentsType, MoveType DEF Abort, Discard, Keep, Stage
<1>2. CASE FailToClear(p)
      BY <1>0, <1>2, SameContentsType, MoveType DEF FailToClear, Discard, Keep, Stage
<1>3. CASE Crash(p)
      BY <1>0, <1>3, SameContentsType, MoveType DEF Crash, End
<1> QED BY <1>0, <1>1, <1>2, <1>3 DEF GiveUp, Fault, Fail

\* What a person does.
LEMMA PersonType ==
    ASSUME TypeInv, EditLock \/ RemoveLock \/ Reconcile
    PROVE  TypeInv'
<1> USE DEF TypeInv, TypeOK, public
<1>0. Act => acts' \in 0 .. MaxActs
      BY VendorAssumption DEF Act
<1>1. CASE EditLock
  <2>1. PICK content \in Lockfile : cargoLock' = [content |-> content, id |-> cargoLock.id + 1]
        BY <1>1 DEF EditLock
  <2>2. cargoLock' \in [content : Lockfile, id : Nat]
        BY <2>1
  <2>3. Operations' = Operations /\ ControlFile' = ControlFile /\ Locals' = Locals /\ Numbered'
        BY <1>1, SameTypes DEF EditLock
  <2> QED BY <1>0, <1>1, <2>2, <2>3 DEF EditLock
<1>2. CASE RemoveLock
      BY <1>0, <1>2, SameContentsType DEF RemoveLock
<1>3. CASE Reconcile
  <2>1. \A file \in ControlFile : Restored(file) \in ControlFile
    <3>1. committed # 0 => contents[committed] \in Lockfile
          BY DEF Operations
    <3>2. MaxOperations + acts + 1 \in Nat
          BY VendorAssumption
    <3> QED BY <3>1, <3>2 DEF Restored, ControlFile
  <2> QED BY <1>0, <1>3, <2>1, SameContentsType DEF Reconcile
<1> QED BY <1>1, <1>2, <1>3
---------------------------------------------------------------------------
(* The locals of a command *)

\* A step of one command leaves the locals of the others alone.
LEMMA SetOne ==
    ASSUME TypeInv, NEW p \in Proc, NEW l, Set(p, l)
    PROVE  proc'[p] = l /\ \A q \in Proc \ {p} : proc'[q] = proc[q]
BY DEF TypeInv, TypeOK, Set

\* Ending, refusing and releasing leave consistent locals.
LEMMA MoveControl ==
    ASSUME TypeInv, NEW p \in Proc, Control(proc[p])
    PROVE  /\ Control(Idle(NoLock)) /\ Control(Idle(cargoLock))
           /\ proc[p].run # 0 => Control(Released(p))
           /\ Refuse(p) /\ proc[p].locked = {} /\ proc[p].old = 0 /\ ~proc[p].published
                  => Control(proc'[p])
<1>0. proc[p] \in Locals
      BY DEF TypeInv, TypeOK
<1>1. Control(Idle(NoLock)) /\ Control(Idle(cargoLock))
      BY DEF Control, Idle, Holding, UnderFence, Done, Published
<1>2. proc[p].run # 0 => Control(Released(p))
      BY <1>0 DEF Control, Idle, Holding, UnderFence, Done, Published, Released
<1>3. ASSUME Refuse(p), proc[p].locked = {}, proc[p].old = 0, ~proc[p].published
      PROVE  Control(proc'[p])
  <2>1. CASE proc[p].kind # "provision"
        BY <1>1, <1>3, <2>1, SetOne DEF Refuse, End
  <2>2. CASE proc[p].kind = "provision"
    <3> DEFINE l == [proc[p] EXCEPT !.lease = FALSE, !.tree = 0, !.pass = 1,
                        !.pc = IF proc[p].run = 0 THEN "clear" ELSE "previous"]
    <3>1. proc'[p] = l
          BY <1>3, <2>2, SetOne DEF Refuse
    <3>2. Control(l)
          BY <1>0, <1>3 DEF Control, Holding, UnderFence, Done, Published, Locals
    <3> QED BY <3>1, <3>2
  <2> QED BY <2>1, <2>2
<1> QED BY <1>1, <1>2, <1>3

\* The steps of a check.
LEMMA ReadControl ==
    ASSUME TypeInv, NEW p \in Proc, Control(proc[p]), Read(p)
    PROVE  Control(proc'[p])
<1>0. proc \in [Proc -> Locals] /\ proc[p] \in Locals
      BY DEF TypeInv, TypeOK
<1> DEFINE Look == {"open", "lease", "fence", "writer", "receipt", "resolver", "catalogue", "ready"}
<1>1. proc[p].pc \in Look => proc[p].locked = {} /\ proc[p].old = 0 /\ ~proc[p].published
      BY DEF Control, Holding, UnderFence, Published
<1> HIDE DEF Look
<1>2. proc[p].pc \in Look /\ Refuse(p) => Control(proc'[p])
      BY <1>1, MoveControl
<1>3. CASE Start(p)
      BY <1>0, <1>3 DEF Start, Set, Control, Idle, Holding, UnderFence, Done, Published
<1>4. CASE SeeFence(p)
      BY <1>0, <1>1, <1>2, <1>4, SMTT(30)
      DEF SeeFence, At, Set, Goto, Look, Locals, Control, Holding, UnderFence, Done, Published
<1>5. CASE SeeWriter(p)
      BY <1>0, <1>1, <1>2, <1>5, MoveControl
      DEF SeeWriter, At, Set, Goto, End, Look, Locals, Control, Holding, UnderFence, Done, Published
<1>6. CASE SeeManifest(p)
  <2>1. Control([proc[p] EXCEPT !.seen.manifest = manifest, !.pc = "resolver"])
        BY <1>0, <1>1, <1>6
        DEF SeeManifest, At, Locals, Look, Control, Holding, UnderFence, Done, Published
  <2> QED BY <2>1, <1>2, <1>6, SetOne DEF SeeManifest, At, Goto, Look
<1>7. CASE SeeConfig(p)
  <2>1. proc[p].pass = 2 => Control([proc[p] EXCEPT !.pc = "ready"])
        BY <1>0, <1>1, <1>7
        DEF SeeConfig, At, Locals, Look, Control, Holding, UnderFence, Done, Published
  <2>2. Control([proc[p] EXCEPT !.seen.config = config,
                     !.pc = IF proc[p].lease THEN "catalogue" ELSE "open"])
        BY <1>0, <1>1, <1>7
        DEF SeeConfig, At, Locals, Look, Control, Holding, UnderFence, Done, Published
  <2> QED BY <2>1, <2>2, <1>2, <1>7, SetOne DEF SeeConfig, At, Goto, Look
<1>8. CASE Open(p)
  <2>1. vendor # 0 => Control([proc[p] EXCEPT !.tree = vendor, !.pc = "lease"])
        BY <1>0, <1>1, <1>8
        DEF Open, At, Locals, Look, Control, Holding, UnderFence, Done, Published
  <2> QED BY <2>1, <1>2, <1>8, SetOne DEF Open, At, Goto, Look
<1>9. CASE Lease(p)
  <2>1. Control([proc[p] EXCEPT !.lease = TRUE, !.graph = cargoLock, !.pc = "fence"])
        BY <1>0, <1>1, <1>9
        DEF Lease, At, Locals, Look, Control, Holding, UnderFence, Done, Published
  <2>2. Control([proc[p] EXCEPT !.lease = TRUE, !.pc = "catalogue"])
        BY <1>0, <1>1, <1>9
        DEF Lease, At, Locals, Look, Control, Holding, UnderFence, Done, Published
  <2> QED BY <2>1, <2>2, <1>2, <1>9, SetOne DEF Lease, At, Goto, Look
<1>10. CASE Catalogue(p)
  <2>1. Control([proc[p] EXCEPT !.pass = 2, !.pc = "fence"])
        BY <1>0, <1>1, <1>10
        DEF Catalogue, At, Locals, Look, Control, Holding, UnderFence, Done, Published
  <2> QED BY <2>1, <1>2, <1>10, SetOne DEF Catalogue, At, Goto, Look
<1>11. CASE Ready(p)
      BY <1>11, SetOne, MoveControl DEF Ready, At, End
<1> QED BY <1>3, <1>4, <1>5, <1>6, <1>7, <1>8, <1>9, <1>10, <1>11 DEF Read

\* An operation that fails goes on to release its lock.
LEMMA AbortControl ==
    ASSUME TypeInv, NEW p \in Proc, Control(proc[p]), Abort(p) \/ FailToClear(p)
    PROVE  Control(proc'[p])
<1>1. proc[p].pc \in BeforeFence \cup UnderFence \cup {"retire"} /\ Set(p, Released(p))
      BY DEF Abort, FailToClear, At, UnderFence
<1>2. proc[p].run # 0
      BY <1>1 DEF Control, Holding, BeforeFence
<1> QED BY <1>1, <1>2, MoveControl, SetOne

\* The steps of a provisioning.
LEMMA PublishControl ==
    ASSUME TypeInv, NEW p \in Proc, Control(proc[p]), Publish(p)
    PROVE  Control(proc'[p])
<1>0. proc[p] \in Locals /\ vendor \in Operations \cup {0}
      BY DEF TypeInv, TypeOK
<1>1. CASE Provision(p)
  <2>1. PICK force \in BOOLEAN :
          Set(p, [Idle(cargoLock) EXCEPT !.kind = "provision", !.force = force,
                     !.pc = IF manifest # Nothing /\ ~force THEN "fence" ELSE "clear"])
        BY <1>1 DEF Provision
  <2>2. \A label \in {"fence", "clear"} :
            Control([Idle(cargoLock) EXCEPT !.kind = "provision", !.force = force, !.pc = label])
        BY DEF Idle, Control, Holding, UnderFence, Done, Published
  <2> QED BY <2>1, <2>2, SetOne
<1>2. CASE SeeNoFence(p)
  <2>1. Control([proc[p] EXCEPT !.pc = "acquire"])
        BY <1>0, <1>2 DEF SeeNoFence, At, Locals, Control, Holding, UnderFence, Done, Published
  <2> QED BY <2>1, <1>2, SetOne, MoveControl DEF SeeNoFence, Goto, End
<1>3. CASE Acquire(p)
  <2>1. NextOperation # 0 => Control([proc[p] EXCEPT !.run = NextOperation, !.pc = "acquired"])
        BY <1>0, <1>3 DEF Acquire, At, Locals, Control, Holding, UnderFence, Done, Published
  <2>2. NextOperation # 0
        BY NextIsNew DEF TypeInv
  <2> QED BY <2>1, <2>2, <1>3, SetOne, MoveControl DEF Acquire, End
<1>4. CASE Reuse(p)
  <2>1. \A label \in {"fence", "previous"} : Control([proc[p] EXCEPT !.pass = 1, !.pc = label])
        BY <1>0, <1>4 DEF Reuse, At, Locals, Control, Holding, UnderFence, Done, Published
  <2> QED BY <2>1, <1>4, SetOne DEF Reuse
<1>5. CASE LockPrevious(p)
  <2>1. Control([proc[p] EXCEPT !.previous = vendor, !.locked = {vendor} \ {0}, !.pc = "populate"])
        BY <1>0, <1>5 DEF LockPrevious, At, Locals, Control, Holding, UnderFence, Done, Published
  <2> QED BY <2>1, <1>5, SetOne DEF LockPrevious
<1>6. CASE Populate(p)
  <2>1. Control([proc[p] EXCEPT !.locked = @ \cup {proc[p].run}, !.pc = "validate"])
        BY <1>0, <1>6 DEF Populate, At, Locals, Control, Holding, UnderFence, Done, Published
  <2> QED BY <2>1, <1>6, SetOne DEF Populate
<1>7. CASE Validate(p)
  <2>1. Control([proc[p] EXCEPT !.pc = "commit"])
        BY <1>0, <1>7 DEF Validate, At, Locals, Control, Holding, UnderFence, Done, Published
  <2> QED BY <2>1, <1>7, SetOne DEF Validate, Goto
<1>8. CASE CheckBeforeFence(p)
  <2>1. Control([proc[p] EXCEPT !.pc = "mkfence"])
        BY <1>0, <1>8
        DEF CheckBeforeFence, At, Locals, Control, Holding, UnderFence, Done, Published
  <2> QED BY <2>1, <1>8, SetOne DEF CheckBeforeFence, Goto
<1>9. CASE CreateFence(p)
  <2>1. Control([proc[p] EXCEPT !.pc = "fenced"])
        BY <1>0, <1>9 DEF CreateFence, At, Locals, Control, Holding, UnderFence, Done, Published
  <2> QED BY <2>1, <1>9, SetOne DEF CreateFence, Goto
<1>10. CASE CheckUnderFence(p)
  <2>1. Control([proc[p] EXCEPT !.pc = "move"])
        BY <1>0, <1>10
        DEF CheckUnderFence, At, Locals, Control, Holding, UnderFence, Done, Published
  <2> QED BY <2>1, <1>10, SetOne DEF CheckUnderFence, Goto
<1>11. CASE MoveOld(p)
  <2>1. Control([proc[p] EXCEPT !.old = vendor, !.pc = "publish"])
        BY <1>0, <1>11 DEF MoveOld, At, Locals, Control, Holding, UnderFence, Done, Published
  <2> QED BY <2>1, <1>11, SetOne DEF MoveOld
<1>12. CASE PublishTree(p)
  <2>1. Control([proc[p] EXCEPT !.published = TRUE, !.pc = "config"])
        BY <1>0, <1>12 DEF PublishTree, At, Locals, Control, Holding, UnderFence, Done, Published
  <2> QED BY <2>1, <1>12, SetOne DEF PublishTree
<1>13. CASE WriteConfig(p)
  <2>1. Control([proc[p] EXCEPT !.pc = "manifest"])
        BY <1>0, <1>13 DEF WriteConfig, At, Locals, Control, Holding, UnderFence, Done, Published
  <2> QED BY <2>1, <1>13, SetOne DEF WriteConfig, Goto
<1>14. CASE WriteManifest(p)
  <2>1. Control([proc[p] EXCEPT !.pc = "last"])
        BY <1>0, <1>14 DEF WriteManifest, At, Locals, Control, Holding, UnderFence, Done, Published
  <2> QED BY <2>1, <1>14, SetOne DEF WriteManifest, Goto
<1>15. CASE CheckPublished(p)
  <2>1. Control([proc[p] EXCEPT !.pc = "uncover"])
        BY <1>0, <1>15 DEF CheckPublished, At, Locals, Control, Holding, UnderFence, Done, Published
  <2> QED BY <2>1, <1>15, SetOne DEF CheckPublished, Goto
<1>16. CASE ClearFence(p)
  <2>1. Control([proc[p] EXCEPT !.pc = "retire"])
        BY <1>0, <1>16 DEF ClearFence, At, Locals, Control, Holding, UnderFence, Done, Published
  <2> QED BY <2>1, <1>16, SetOne DEF ClearFence, Goto
<1>17. CASE Retire(p)
  <2>1. proc[p].run # 0
        BY <1>17 DEF Retire, At, Control, Holding
  <2> QED BY <2>1, <1>17, SetOne, MoveControl DEF Retire
<1>18. CASE Release(p)
  <2>1. Control([proc[p] EXCEPT !.pc = "unlock"])
        BY <1>0, <1>18 DEF Release, At, Locals, Control, Holding, UnderFence, Done, Published
  <2> QED BY <2>1, <1>18, SetOne, MoveControl DEF Release, Goto, End
<1>19. CASE Unlock(p)
      BY <1>19, SetOne, MoveControl DEF Unlock, End
<1>20. CASE GiveUp(p)
      BY <1>20, AbortControl DEF GiveUp
<1> QED BY <1>1, <1>2, <1>3, <1>4, <1>5, <1>6, <1>7, <1>8, <1>9, <1>10, <1>11, <1>12, <1>13, <1>14,
           <1>15, <1>16, <1>17, <1>18, <1>19, <1>20
        DEF Publish
---------------------------------------------------------------------------
(* Steps that change nothing but a command that publishes nothing *)

\* The invariant.
Inv ==
    /\ TypeInv /\ ControlInv
    /\ OwnRuns /\ OneOwner /\ FreshRuns /\ PublishedInPlace /\ Exclusion
    /\ LockHolderSeesTree /\ MovesWhatItLocked /\ StageMatchesGraph /\ ReceiptMatchesTree
    /\ CoherentUnlessFenced /\ SecondLook /\ LeaseKeepsTree /\ RegistryRetained

Others(p) == \A q \in Proc \ {p} : proc'[q] = proc[q]

\* p ends, looks or leaves; a lease is kept, or taken on a tree nobody locked.
Quiet(p) ==
    /\ UNCHANGED <<cargoLock, public, fence, lockFile, staged, contents, committed>>
    /\ Others(p)
    /\ proc'[p].pc \notin Holding
    /\ proc'[p].run \in {0, proc[p].run}
    /\ Publishing(p)' => Publishing(p)
    /\ proc'[p].graph \in {proc[p].graph, cargoLock, NoLock}
    /\ proc'[p].lease =>
          \/ proc[p].lease /\ proc'[p].tree = proc[p].tree
          \/ vendor = proc'[p].tree /\ \A q \in Proc : proc'[p].tree \notin proc[q].locked

\* The second look of p.
Looked(p) ==
    proc[p].pass = 2 =>
        /\ proc[p].pc \in {"writer", "receipt", "resolver", "ready"} => Coherent
        /\ proc[p].pc \in {"resolver", "ready"} =>
               proc[p].seen.manifest = manifest /\ manifest.digest = proc[p].graph.content
        /\ proc[p].pc = "ready" => proc[p].seen.config = config

\* The locals of everybody stay consistent when those of p do.
LEMMA OthersControl ==
    ASSUME ControlInv, NEW p \in Proc, Others(p), Control(proc'[p])
    PROVE  ControlInv'
<1>1. \A q \in Proc : Control(proc'[q])
      BY DEF ControlInv, Others
<1> QED BY <1>1 DEF ControlInv, Control, Holding, Published, Done, UnderFence

\* A quiet step keeps the invariant.
LEMMA QuietInv ==
    ASSUME Inv, NEW p \in Proc, Quiet(p), TypeInv', Control(proc'[p]), Looked(p)'
    PROVE  Inv'
<1>0. ControlInv' /\ Others(p)
      BY OthersControl DEF Quiet, Inv
<1>1. UNCHANGED <<cargoLock, vendor, config, manifest, fence, lockFile, staged, contents,
                   committed>>
      BY DEF Quiet, public
<1>2. proc'[p].locked = {} /\ proc'[p].pc \notin Holding
      BY DEF Quiet, Control
<1>3. proc'[p].pc \notin UnderFence \cup Waiting \cup Published
                           \cup {"retire", "validate", "commit", "mkfence", "move", "manifest",
                                              "last", "uncover"}
      BY <1>2 DEF Holding, UnderFence, Waiting, Published
<1>4. OwnRuns'
      BY <1>0 DEF Inv, OwnRuns, Others, Quiet
<1>5. OneOwner'
      BY <1>0, <1>1, <1>3 DEF Inv, OneOwner, Others
<1>6. FreshRuns'
      BY <1>0, <1>1, <1>2 DEF Inv, FreshRuns, Others, Quiet, Publishing
<1>7. PublishedInPlace'
      BY <1>0, <1>1, <1>3 DEF Inv, PublishedInPlace, Others
<1>8. Exclusion'
      BY <1>0, <1>1, <1>2 DEF Inv, Exclusion, Others, Quiet
<1>9. LockHolderSeesTree'
      BY <1>0, <1>1, <1>3 DEF Inv, LockHolderSeesTree, Others, Intact, Untouched
<1>10. MovesWhatItLocked'
      BY <1>0, <1>1, <1>3 DEF Inv, MovesWhatItLocked, Others
<1>11. StageMatchesGraph'
      BY <1>0, <1>1, <1>3
      DEF Inv, TypeInv, TypeOK, StageMatchesGraph, Others, Unchanged, Quiet, NoLock
<1>12. ReceiptMatchesTree'
      BY <1>0, <1>1, <1>3 DEF Inv, ReceiptMatchesTree, Others, Nothing
<1>13. CoherentUnlessFenced'
      BY <1>0, <1>1, <1>3 DEF Inv, CoherentUnlessFenced, Others, Untouched, Coherent
<1>14. SecondLook'
      BY <1>0, <1>1 DEF Inv, SecondLook, Others, Coherent, Looked
<1>15. LeaseKeepsTree'
      BY <1>0, <1>1 DEF Inv, LeaseKeepsTree, Others, Quiet
<1>16. RegistryRetained'
      BY <1>1 DEF Inv, RegistryRetained
<1> QED BY <1>0, <1>4, <1>5, <1>6, <1>7, <1>8, <1>9, <1>10, <1>11, <1>12, <1>13, <1>14, <1>15, <1>16
        DEF Inv

\* Refusing and ending are quiet.
LEMMA RefuseQuiet ==
    ASSUME Inv, NEW p \in Proc, proc[p].pc \notin Holding \cup Done, Refuse(p) \/ End(p), Disk
    PROVE  Quiet(p) /\ Looked(p)'
<1>0. proc[p] \in Locals /\ Control(proc[p])
      BY DEF Inv, TypeInv, TypeOK, ControlInv
<1>1. ~proc[p].published
      BY <1>0 DEF Control, Holding, Published, UnderFence
<1>2. CASE End(p)
  <2>1. Others(p) /\ proc'[p] = Idle(NoLock)
        BY <1>2, SetOne DEF End, Others, Inv
  <2> QED BY <2>1 DEF Quiet, Disk, Idle, Publishing, Looked, Holding, UnderFence
<1>3. CASE Refuse(p) /\ proc[p].kind = "provision"
  <2> DEFINE l == [proc[p] EXCEPT !.lease = FALSE, !.tree = 0, !.pass = 1,
                      !.pc = IF proc[p].run = 0 THEN "clear" ELSE "previous"]
  <2>1. Others(p) /\ proc'[p] = l
        BY <1>3, SetOne DEF Refuse, Others, Inv
  <2>2. /\ l.pc \notin Holding \cup Done /\ l.run = proc[p].run /\ l.graph = proc[p].graph
        /\ ~l.lease /\ l.pass = 1
        BY <1>0 DEF Locals, Holding, UnderFence, Done
  <2> QED BY <1>1, <2>1, <2>2 DEF Quiet, Disk, Publishing, Looked
<1> QED BY <1>2, <1>3 DEF Refuse

\* Looking is quiet, and a second look that goes on sees one publication.
LEMMA ReadQuiet ==
    ASSUME Inv, NEW p \in Proc, Read(p)
    PROVE  Quiet(p) /\ Looked(p)'
<1>0. proc[p] \in Locals /\ Control(proc[p]) /\ TypeInv
      BY DEF Inv, TypeInv, TypeOK, ControlInv
<1>1. /\ proc[p].pc \notin Holding \cup Done /\ ~proc[p].published
      /\ UNCHANGED <<cargoLock, public, vendor, config, manifest, fence, lockFile, staged,
                         contents, committed>>
      BY <1>0 DEF Read, Start, SeeFence, SeeWriter, SeeManifest, SeeConfig, Open, Lease, Catalogue,
                  Ready, At, Disk, public, Holding, UnderFence, Done, Published, Control
<1>2. Disk /\ (Refuse(p) \/ End(p)) => Quiet(p) /\ Looked(p)'
      BY <1>1, RefuseQuiet
<1>3. ASSUME NEW l, Set(p, l), l.pc \notin Holding \cup Done, l.run = proc[p].run,
             l.graph \in {proc[p].graph, cargoLock, NoLock}, ~l.published,
             l.lease => \/ proc[p].lease /\ l.tree = proc[p].tree
                        \/ vendor = l.tree /\ \A q \in Proc : l.tree \notin proc[q].locked,
             l.pass = 2 =>
                /\ l.pc \in {"writer", "receipt", "resolver", "ready"} => Coherent
                /\ l.pc \in {"resolver", "ready"} =>
                       l.seen.manifest = manifest /\ manifest.digest = l.graph.content
                /\ l.pc = "ready" => l.seen.config = config
      PROVE  Quiet(p) /\ Looked(p)'
  <2>1. Others(p) /\ proc'[p] = l
        BY <1>0, <1>3, SetOne DEF Others
  <2>2. Quiet(p)
        BY <1>1, <1>3, <2>1 DEF Quiet, Publishing
  <2>3. Looked(p)'
        BY <1>1, <1>3, <2>1 DEF Looked, Coherent
  <2> QED BY <2>2, <2>3
<1>4. CASE Start(p)
  <2>1. PICK kind \in {"check", "use"} :
           Set(p, [Idle(cargoLock) EXCEPT !.kind = kind,
                     !.pc = IF kind = "use" THEN "open" ELSE "fence"])
        BY <1>4 DEF Start
  <2> DEFINE l == [Idle(cargoLock) EXCEPT !.kind = kind,
                     !.pc = IF kind = "use" THEN "open" ELSE "fence"]
  <2>2. /\ l.pc \notin Holding \cup Done /\ l.run = 0 /\ l.graph = cargoLock
        /\ ~l.lease /\ l.pass = 1 /\ ~l.published
        BY DEF Idle, Holding, UnderFence, Done
  <2>3. proc[p].run = 0
        BY <1>0, <1>4 DEF Start, At, Control
  <2>4. Set(p, l)
        BY <2>1
  <2> HIDE DEF l
  <2> QED BY <1>3, <2>2, <2>3, <2>4
<1>5. CASE SeeFence(p)
  <2>1. ~fence => Coherent
        BY DEF Inv, CoherentUnlessFenced
  <2> DEFINE l == [proc[p] EXCEPT !.pc = "writer"]
  <2>2. /\ l.pc = "writer" /\ l.run = proc[p].run /\ l.graph = proc[p].graph
        /\ l.lease = proc[p].lease /\ l.tree = proc[p].tree /\ ~l.published
        BY <1>0, <1>1 DEF Locals
  <2> HIDE DEF l
  <2>3. CASE ~fence
        BY <1>3, <1>5, <2>1, <2>2, <2>3 DEF l, SeeFence, Goto, Holding, UnderFence, Done
  <2> QED BY <1>2, <1>5, <2>3 DEF SeeFence
<1>6. CASE SeeWriter(p)
  <2>1. proc[p].pass = 2 => Coherent
        BY <1>6 DEF Inv, SecondLook, SeeWriter, At
  <2> DEFINE l == [proc[p] EXCEPT !.pc = "receipt"]
  <2>2. /\ l.pc = "receipt" /\ l.run = proc[p].run /\ l.graph = proc[p].graph
        /\ l.lease = proc[p].lease /\ l.tree = proc[p].tree /\ l.pass = proc[p].pass /\ ~l.published
        BY <1>0, <1>1 DEF Locals
  <2> HIDE DEF l
  <2>3. CASE Goto(p, "receipt")
        BY <1>3, <2>1, <2>2, <2>3 DEF l, Goto, Holding, UnderFence, Done
  <2> QED BY <1>2, <1>6, <2>3 DEF SeeWriter
<1>7. CASE SeeManifest(p)
  <2>1. proc[p].pass = 2 => Coherent
        BY <1>7 DEF Inv, SecondLook, SeeManifest, At
  <2> DEFINE l == [proc[p] EXCEPT !.seen.manifest = manifest, !.pc = "resolver"]
  <2>2. /\ l.pc = "resolver" /\ l.run = proc[p].run /\ l.graph = proc[p].graph
        /\ l.lease = proc[p].lease /\ l.tree = proc[p].tree /\ l.pass = proc[p].pass /\ ~l.published
        /\ l.seen.manifest = manifest
        BY <1>0, <1>1 DEF Locals
  <2> HIDE DEF l
  <2>3. CASE manifest.digest = proc[p].graph.content /\ Set(p, l)
        BY <1>3, <2>1, <2>2, <2>3 DEF Holding, UnderFence, Done
  <2> QED BY <1>2, <1>7, <2>3 DEF SeeManifest, l
<1>8. CASE SeeConfig(p)
  <2>1. proc[p].pass = 2 =>
            Coherent /\ proc[p].seen.manifest = manifest /\ manifest.digest = proc[p].graph.content
        BY <1>8 DEF Inv, SecondLook, SeeConfig, At
  <2>2. CASE Refuse(p)
        BY <1>2, <1>8, <2>2 DEF SeeConfig
  <2>3. CASE proc[p].pass = 2 /\ ~Refuse(p)
    <3> DEFINE l == [proc[p] EXCEPT !.pc = "ready"]
    <3>1. /\ l.pc = "ready" /\ l.run = proc[p].run /\ l.graph = proc[p].graph
          /\ l.lease = proc[p].lease /\ l.tree = proc[p].tree /\ l.seen = proc[p].seen
                /\ ~l.published
          BY <1>0, <1>1 DEF Locals
    <3> HIDE DEF l
    <3>2. config = proc[p].seen.config /\ Set(p, l)
          BY <1>8, <2>3 DEF SeeConfig, SameFile, Goto, l
    <3> QED BY <1>3, <2>1, <2>3, <3>1, <3>2 DEF Holding, UnderFence, Done
  <2>4. CASE proc[p].pass # 2 /\ ~Refuse(p)
    <3> DEFINE l == [proc[p] EXCEPT !.seen.config = config,
                        !.pc = IF proc[p].lease THEN "catalogue" ELSE "open"]
    <3>1. /\ l.pc \in {"catalogue", "open"} /\ l.run = proc[p].run /\ l.graph = proc[p].graph
          /\ l.lease = proc[p].lease /\ l.tree = proc[p].tree /\ l.pass # 2 /\ ~l.published
          BY <1>0, <1>1, <2>4 DEF Locals
    <3> HIDE DEF l
    <3>2. Set(p, l)
          BY <1>8, <2>4 DEF SeeConfig, l
    <3> QED BY <1>3, <3>1, <3>2 DEF Holding, UnderFence, Done
  <2> QED BY <2>2, <2>3, <2>4
<1>9. CASE Open(p)
  <2> DEFINE l == [proc[p] EXCEPT !.tree = vendor, !.pc = "lease"]
  <2>1. /\ l.pc = "lease" /\ l.run = proc[p].run /\ l.graph = proc[p].graph
        /\ ~l.lease /\ l.pass # 2 /\ ~l.published
        BY <1>0, <1>1, <1>9 DEF Locals, Control, Open, At
  <2> HIDE DEF l
  <2>2. CASE Set(p, l)
        BY <1>3, <2>1, <2>2 DEF Holding, UnderFence, Done
  <2> QED BY <1>2, <1>9, <2>2 DEF Open, l
<1>10. CASE Lease(p)
  <2>1. CASE Refuse(p)
        BY <1>2, <1>10, <2>1 DEF Lease
  <2>2. CASE ~Refuse(p) /\ proc[p].kind = "use"
    <3> DEFINE l == [proc[p] EXCEPT !.lease = TRUE, !.graph = cargoLock, !.pc = "fence"]
    <3>1. /\ l.pc = "fence" /\ l.run = proc[p].run /\ l.graph = cargoLock
          /\ l.tree = proc[p].tree /\ l.pass # 2 /\ ~l.published
          BY <1>0, <1>1, <1>10 DEF Locals, Control, Lease, At
    <3> HIDE DEF l
    <3>2. /\ vendor = proc[p].tree /\ \A q \in Proc : proc[p].tree \notin proc[q].locked
          /\ Set(p, l)
          BY <1>10, <2>2 DEF Lease, l
    <3> QED BY <1>3, <3>1, <3>2 DEF Holding, UnderFence, Done
  <2>3. CASE ~Refuse(p) /\ proc[p].kind # "use"
    <3> DEFINE l == [proc[p] EXCEPT !.lease = TRUE, !.pc = "catalogue"]
    <3>1. /\ l.pc = "catalogue" /\ l.run = proc[p].run /\ l.graph = proc[p].graph
          /\ l.tree = proc[p].tree /\ l.pass # 2 /\ ~l.published
          BY <1>0, <1>1, <1>10 DEF Locals, Control, Lease, At
    <3> HIDE DEF l
    <3>2. /\ vendor = proc[p].tree /\ \A q \in Proc : proc[p].tree \notin proc[q].locked
          /\ Set(p, l)
          BY <1>10, <2>3 DEF Lease, l
    <3> QED BY <1>3, <3>1, <3>2 DEF Holding, UnderFence, Done
  <2> QED BY <2>1, <2>2, <2>3
<1>11. CASE Catalogue(p)
  <2> DEFINE l == [proc[p] EXCEPT !.pass = 2, !.pc = "fence"]
  <2>1. /\ l.pc = "fence" /\ l.run = proc[p].run /\ l.graph = proc[p].graph
        /\ l.lease = proc[p].lease /\ l.tree = proc[p].tree /\ ~l.published
        BY <1>0, <1>1 DEF Locals
  <2> HIDE DEF l
  <2>2. CASE Set(p, l)
        BY <1>3, <2>1, <2>2 DEF Holding, UnderFence, Done
  <2> QED BY <1>2, <1>11, <2>2 DEF Catalogue, l
<1>12. CASE Ready(p)
  <2>1. CASE Set(p, Released(p))
    <3>1. Others(p) /\ proc'[p] = Released(p)
          BY <1>0, <2>1, SetOne DEF Others
    <3>2. /\ proc'[p].pc = "release" /\ proc'[p].run = proc[p].run /\ proc'[p].graph = proc[p].graph
          /\ ~proc'[p].lease /\ proc'[p].pass = 1
          BY <3>1 DEF Released, Idle
    <3> QED BY <1>1, <3>1, <3>2 DEF Quiet, Looked, Publishing, Done, Holding, UnderFence
  <2> QED BY <1>2, <1>12, <2>1 DEF Ready
<1> QED BY <1>4, <1>5, <1>6, <1>7, <1>8, <1>9, <1>10, <1>11, <1>12 DEF Read

\* So are the steps of a provisioning before it locks the tree and after it
\* released it, and the crash of any command.
LEMMA IdleQuiet ==
    ASSUME Inv, NEW p \in Proc,
           \/ Provision(p) \/ SeeNoFence(p) \/ Reuse(p) \/ Release(p) \/ Crash(p)
           \/ Acquire(p) /\ UNCHANGED contents
    PROVE  Quiet(p) /\ Looked(p)'
<1>0. proc[p] \in Locals /\ Control(proc[p]) /\ TypeInv
      BY DEF Inv, TypeInv, TypeOK, ControlInv
<1>1. ASSUME End(p),
             UNCHANGED <<cargoLock, public, fence, lockFile, staged, contents, committed>>
      PROVE  Quiet(p) /\ Looked(p)'
  <2>1. Others(p) /\ proc'[p] = Idle(NoLock)
        BY <1>0, <1>1, SetOne DEF End, Others
  <2> QED BY <1>1, <2>1 DEF Quiet, Idle, Publishing, Looked, Holding, UnderFence
<1>2. ASSUME NEW l, Set(p, l), l.pc \notin Holding, l.run = proc[p].run,
             l.graph \in {proc[p].graph, cargoLock}, ~l.lease, l.pass # 2,
             ~proc[p].published, proc[p].pc \in Done => l.pc \in Done,
             UNCHANGED <<cargoLock, public, fence, lockFile, staged, contents, committed>>
      PROVE  Quiet(p) /\ Looked(p)'
  <2>1. Others(p) /\ proc'[p] = l
        BY <1>0, <1>2, SetOne DEF Others
  <2> QED BY <1>2, <2>1 DEF Quiet, Publishing, Looked
<1>3. CASE Provision(p)
  <2>1. PICK force \in BOOLEAN :
          Set(p, [Idle(cargoLock) EXCEPT !.kind = "provision", !.force = force,
                     !.pc = IF manifest # Nothing /\ ~force THEN "fence" ELSE "clear"])
        BY <1>3 DEF Provision
  <2> DEFINE l == [Idle(cargoLock) EXCEPT !.kind = "provision", !.force = force,
                     !.pc = IF manifest # Nothing /\ ~force THEN "fence" ELSE "clear"]
  <2>2. /\ l.pc \notin Holding /\ l.run = 0 /\ l.graph = cargoLock /\ ~l.lease /\ l.pass # 2
        BY DEF Idle, Holding, UnderFence
  <2>3. proc[p].run = 0 /\ ~proc[p].published /\ proc[p].pc \notin Done
        BY <1>0, <1>3 DEF Provision, At, Control, Published, Done
  <2>4. Set(p, l)
        BY <2>1
  <2> HIDE DEF l
  <2> QED BY <1>2, <1>3, <2>2, <2>3, <2>4 DEF Provision, Disk
<1>4. CASE SeeNoFence(p)
  <2> DEFINE l == [proc[p] EXCEPT !.pc = "acquire"]
  <2>1. /\ l.pc \notin Holding /\ l.run = proc[p].run /\ l.graph = proc[p].graph
        /\ ~l.lease /\ l.pass # 2 /\ ~proc[p].published /\ proc[p].pc \notin Done
        BY <1>0, <1>4 DEF Locals, Control, SeeNoFence, At, Holding, UnderFence, Published, Done
  <2> HIDE DEF l
  <2>2. CASE Set(p, l)
        BY <1>2, <1>4, <2>1, <2>2 DEF SeeNoFence, Disk
  <2> QED BY <1>1, <1>4, <2>2 DEF SeeNoFence, Goto, Disk, l
<1>5. CASE Reuse(p)
  <2> DEFINE l == [proc[p] EXCEPT !.pass = 1,
                      !.pc = IF manifest # Nothing /\ ~proc[p].force THEN "fence" ELSE "previous"]
  <2>1. /\ l.pc \notin Holding /\ l.run = proc[p].run /\ l.graph = proc[p].graph
        /\ ~l.lease /\ l.pass # 2 /\ ~proc[p].published /\ proc[p].pc \notin Done
        BY <1>0, <1>5 DEF Locals, Control, Reuse, At, Holding, UnderFence, Published, Done
  <2>2. Set(p, l)
        BY <1>5 DEF Reuse
  <2> HIDE DEF l
  <2> QED BY <1>2, <1>5, <2>1, <2>2 DEF Reuse, Disk
<1>6. CASE Release(p)
  <2> DEFINE l == [proc[p] EXCEPT !.pc = "unlock"]
  <2>1. /\ l.pc \notin Holding /\ l.run = proc[p].run /\ l.graph = proc[p].graph
        /\ ~l.lease /\ l.pass # 2 /\ ~proc[p].published /\ l.pc \in Done
        BY <1>0, <1>6 DEF Locals, Control, Release, At, Holding, UnderFence, Published, Done
  <2> HIDE DEF l
  <2>2. CASE Set(p, l)
    <3>1. UNCHANGED <<cargoLock, public, fence, lockFile, staged, contents, committed>>
          BY <1>6 DEF Release, Disk
    <3> QED BY <1>2, <2>1, <2>2, <3>1
  <2> QED BY <1>1, <1>6, <2>2 DEF Release, Goto, Disk, l
<1>7. CASE Crash(p)
      BY <1>1, <1>7 DEF Crash
<1>8. CASE Acquire(p) /\ UNCHANGED contents
  <2>1. CASE End(p) /\ UNCHANGED lockFile
        BY <1>1, <1>8, <2>1 DEF Acquire
  <2>2. CASE ~(End(p) /\ UNCHANGED lockFile)
    <3>1. contents' = [o \in Operations \cup {NextOperation} |->
                          IF o = NextOperation THEN cargoLock.content ELSE contents[o]]
          BY <1>8, <2>2 DEF Acquire
    <3>2. NextOperation \in Operations
          BY <1>8, <3>1 DEF Operations
    <3> QED BY <1>0, <3>2, NextIsNew DEF TypeInv
  <2> QED BY <2>1, <2>2
<1> QED BY <1>3, <1>4, <1>5, <1>6, <1>7, <1>8
---------------------------------------------------------------------------
(* The steps of a provisioning *)

\* A command that moves on keeps the rest of its locals.
LEMMA GotoOne ==
    ASSUME TypeInv, NEW p \in Proc, NEW label, Goto(p, label)
    PROVE  /\ Others(p) /\ proc'[p].pc = label /\ proc'[p].run = proc[p].run
           /\ proc'[p].graph = proc[p].graph /\ proc'[p].lease = proc[p].lease
           /\ proc'[p].pass = proc[p].pass /\ proc'[p].previous = proc[p].previous
           /\ proc'[p].locked = proc[p].locked /\ proc'[p].old = proc[p].old
           /\ proc'[p].published = proc[p].published
<1>1. proc[p] \in Locals
      BY DEF TypeInv, TypeOK
<1>2. Others(p) /\ proc'[p] = [proc[p] EXCEPT !.pc = label]
      BY SetOne DEF Goto, Others
<1> QED BY <1>1, <1>2 DEF Locals

\* A command that holds a tree or an operation lock has no lease.
LEMMA HolderReadsNothing ==
    ASSUME Inv, NEW p \in Proc, proc[p].pc \in Holding \cup {"acquired", "previous",
                       "acquire"} \cup Done
    PROVE  /\ ~proc[p].lease /\ proc[p].pass # 2 
           /\ proc[p].published <=> proc[p].pc \in Published \cup {"retire"}
           /\ proc[p].old # 0 => proc[p].pc \in Published \cup {"publish", "retire"}
           /\ proc[p].pc # "acquire" => proc[p].run # 0
           /\ proc[p].pc \in {"acquire", "acquired", "previous"} \cup Done => proc[p].locked = {}
           /\ proc[p].pc \in Holding => (proc[p].previous # 0 => proc[p].previous \in proc[p].locked)
           /\ proc[p].pc \in Holding \ {"populate"} => proc[p].run \in proc[p].locked
BY DEF Inv, ControlInv, Control, Holding, UnderFence, Done

\* Validating the stage: the lock file is still the one it was populated for.
LEMMA ValidateInv ==
    ASSUME Inv, NEW p \in Proc, Validate(p), TypeInv', ControlInv'
    PROVE  Inv'
<1>1. /\ Others(p) /\ proc[p].pc = "validate" /\ proc'[p].pc = "commit"
      /\ proc'[p].run = proc[p].run
      /\ proc'[p].graph = proc[p].graph /\ proc'[p].lease = proc[p].lease
      /\ proc'[p].pass = proc[p].pass /\ proc'[p].previous = proc[p].previous
      /\ proc'[p].locked = proc[p].locked /\ proc'[p].old = proc[p].old
      /\ proc'[p].published = proc[p].published
      BY GotoOne DEF Inv, Validate, At
<1>2. UNCHANGED <<cargoLock, vendor, config, manifest, fence, lockFile, staged, contents,
                   committed>>
      BY DEF Validate, Disk, public
<1>3. /\ ~proc[p].lease /\ proc[p].pass # 2 /\ proc[p].run # 0 /\ ~proc[p].published
      /\ proc[p].old = 0
      BY <1>1, HolderReadsNothing DEF Holding, UnderFence, Published, Done
<1>4. Unchanged(p)
      BY DEF Validate
<1>5. OwnRuns'
      BY <1>1, <1>2, <1>3, <1>4 DEF Inv, OwnRuns, Others
<1>6. OneOwner'
      BY <1>1, <1>2, <1>3, <1>4 DEF Inv, OneOwner, Others, UnderFence
<1>7. FreshRuns'
      BY <1>1, <1>2, <1>3, <1>4 DEF Inv, FreshRuns, Others, Publishing, Done, Published, UnderFence
<1>8. PublishedInPlace'
      BY <1>1, <1>2, <1>3, <1>4 DEF Inv, PublishedInPlace, Others, Published, UnderFence
<1>9. Exclusion'
      BY <1>1, <1>2, <1>3, <1>4 DEF Inv, Exclusion, Others
<1>10. LockHolderSeesTree'
      BY <1>1, <1>2, <1>3, <1>4
      DEF Inv, LockHolderSeesTree, Others, Waiting, UnderFence, Intact, Untouched
<1>11. MovesWhatItLocked'
      BY <1>1, <1>2, <1>3, <1>4 DEF Inv, MovesWhatItLocked, Others, UnderFence
<1>12. StageMatchesGraph'
      BY <1>1, <1>2, <1>3, <1>4 DEF Inv, StageMatchesGraph, Others, UnderFence, Unchanged
<1>13. ReceiptMatchesTree'
      BY <1>1, <1>2, <1>3, <1>4 DEF Inv, ReceiptMatchesTree, Others, Nothing, UnderFence
<1>14. CoherentUnlessFenced'
      BY <1>1, <1>2, <1>3, <1>4
      DEF Inv, CoherentUnlessFenced, Others, UnderFence, Untouched, Coherent
<1>15. SecondLook'
      BY <1>1, <1>2, <1>3, <1>4 DEF Inv, SecondLook, Others, Coherent
<1>16. LeaseKeepsTree'
      BY <1>1, <1>2, <1>3, <1>4 DEF Inv, LeaseKeepsTree, Others
<1>17. RegistryRetained'
      BY <1>1, <1>2, <1>3, <1>4 DEF Inv, RegistryRetained, Others
<1> QED BY <1>5, <1>6, <1>7, <1>8, <1>9, <1>10, <1>11, <1>12, <1>13, <1>14, <1>15, <1>16, <1>17
        DEF Inv

\* The check before the fence.
LEMMA CheckBeforeFenceInv ==
    ASSUME Inv, NEW p \in Proc, CheckBeforeFence(p), TypeInv', ControlInv'
    PROVE  Inv'
<1>1. /\ Others(p) /\ proc[p].pc = "commit" /\ proc'[p].pc = "mkfence" /\ proc'[p].run = proc[p].run
      /\ proc'[p].graph = proc[p].graph /\ proc'[p].lease = proc[p].lease
      /\ proc'[p].pass = proc[p].pass /\ proc'[p].previous = proc[p].previous
      /\ proc'[p].locked = proc[p].locked /\ proc'[p].old = proc[p].old
      /\ proc'[p].published = proc[p].published
      BY GotoOne DEF Inv, CheckBeforeFence, At
<1>2. UNCHANGED <<cargoLock, vendor, config, manifest, fence, lockFile, staged, contents,
                   committed>>
      BY DEF CheckBeforeFence, Disk, public
<1>3. /\ ~proc[p].lease /\ proc[p].pass # 2 /\ proc[p].run # 0 /\ ~proc[p].published
      /\ proc[p].old = 0
      BY <1>1, HolderReadsNothing DEF Holding, UnderFence, Published, Done
<1>4. OwnRuns'
      BY <1>1, <1>2, <1>3 DEF Inv, OwnRuns, Others
<1>5. OneOwner'
      BY <1>1, <1>2, <1>3 DEF Inv, OneOwner, Others, UnderFence
<1>6. FreshRuns'
      BY <1>1, <1>2, <1>3 DEF Inv, FreshRuns, Others, Publishing, Done, Published, UnderFence
<1>7. PublishedInPlace'
      BY <1>1, <1>2, <1>3 DEF Inv, PublishedInPlace, Others, Published, UnderFence
<1>8. Exclusion'
      BY <1>1, <1>2, <1>3 DEF Inv, Exclusion, Others
<1>9. LockHolderSeesTree'
      BY <1>1, <1>2, <1>3
      DEF Inv, LockHolderSeesTree, Others, Waiting, UnderFence, Intact, Untouched
<1>10. MovesWhatItLocked'
      BY <1>1, <1>2, <1>3 DEF Inv, MovesWhatItLocked, Others, UnderFence
<1>11. StageMatchesGraph'
      BY <1>1, <1>2, <1>3 DEF Inv, StageMatchesGraph, Others, UnderFence, Unchanged
<1>12. ReceiptMatchesTree'
      BY <1>1, <1>2, <1>3 DEF Inv, ReceiptMatchesTree, Others, Nothing, UnderFence
<1>13. CoherentUnlessFenced'
      BY <1>1, <1>2, <1>3 DEF Inv, CoherentUnlessFenced, Others, UnderFence, Untouched, Coherent
<1>14. SecondLook'
      BY <1>1, <1>2, <1>3 DEF Inv, SecondLook, Others, Coherent
<1>15. LeaseKeepsTree'
      BY <1>1, <1>2, <1>3 DEF Inv, LeaseKeepsTree, Others
<1>16. RegistryRetained'
      BY <1>1, <1>2, <1>3 DEF Inv, RegistryRetained, Others
<1> QED BY <1>4, <1>5, <1>6, <1>7, <1>8, <1>9, <1>10, <1>11, <1>12, <1>13, <1>14, <1>15, <1>16
        DEF Inv

\* The fence goes up, with nothing changed yet.
LEMMA CreateFenceInv ==
    ASSUME Inv, NEW p \in Proc, CreateFence(p), TypeInv', ControlInv'
    PROVE  Inv'
<1>1. /\ Others(p) /\ proc[p].pc = "mkfence" /\ proc'[p].pc = "fenced" /\ proc'[p].run = proc[p].run
      /\ proc'[p].graph = proc[p].graph /\ proc'[p].lease = proc[p].lease
      /\ proc'[p].pass = proc[p].pass /\ proc'[p].previous = proc[p].previous
      /\ proc'[p].locked = proc[p].locked /\ proc'[p].old = proc[p].old
      /\ proc'[p].published = proc[p].published
      BY GotoOne DEF Inv, CreateFence, At
<1>2. UNCHANGED <<cargoLock, vendor, config, manifest, lockFile, staged, contents, committed>>
      /\ ~fence /\ fence'
      BY DEF CreateFence, Disk, public
<1>3. /\ ~proc[p].lease /\ proc[p].pass # 2 /\ proc[p].run # 0 /\ ~proc[p].published
      /\ proc[p].old = 0
      BY <1>1, HolderReadsNothing DEF Holding, UnderFence, Published, Done
<1>4. OwnRuns'
      BY <1>1, <1>2, <1>3 DEF Inv, OwnRuns, Others
<1>5. OneOwner'
      BY <1>1, <1>2, <1>3 DEF Inv, OneOwner, Others, UnderFence
<1>6. FreshRuns'
      BY <1>1, <1>2, <1>3 DEF Inv, FreshRuns, Others, Publishing, Done, Published, UnderFence
<1>7. PublishedInPlace'
      BY <1>1, <1>2, <1>3 DEF Inv, PublishedInPlace, Others, Published, UnderFence
<1>8. Exclusion'
      BY <1>1, <1>2, <1>3 DEF Inv, Exclusion, Others
<1>9. LockHolderSeesTree'
      BY <1>1, <1>2, <1>3
      DEF Inv, LockHolderSeesTree, Others, Waiting, UnderFence, Intact, Untouched
<1>10. MovesWhatItLocked'
      BY <1>1, <1>2, <1>3 DEF Inv, MovesWhatItLocked, Others, UnderFence
<1>11. StageMatchesGraph'
      BY <1>1, <1>2, <1>3 DEF Inv, StageMatchesGraph, Others, UnderFence, Unchanged
<1>12. ReceiptMatchesTree'
      BY <1>1, <1>2, <1>3 DEF Inv, ReceiptMatchesTree, Others, Nothing, UnderFence
<1>13. CoherentUnlessFenced'
      BY <1>1, <1>2, <1>3 DEF Inv, CoherentUnlessFenced, Others, UnderFence, Untouched, Coherent
<1>14. SecondLook'
      BY <1>1, <1>2, <1>3 DEF Inv, SecondLook, Others, Coherent
<1>15. LeaseKeepsTree'
      BY <1>1, <1>2, <1>3 DEF Inv, LeaseKeepsTree, Others
<1>16. RegistryRetained'
      BY <1>1, <1>2, <1>3 DEF Inv, RegistryRetained, Others
<1> QED BY <1>4, <1>5, <1>6, <1>7, <1>8, <1>9, <1>10, <1>11, <1>12, <1>13, <1>14, <1>15, <1>16
        DEF Inv

\* The check under the fence: the tree that was locked is the one in place.
LEMMA CheckUnderFenceInv ==
    ASSUME Inv, NEW p \in Proc, CheckUnderFence(p), TypeInv', ControlInv'
    PROVE  Inv'
<1>1. /\ Others(p) /\ proc[p].pc = "fenced" /\ proc'[p].pc = "move" /\ proc'[p].run = proc[p].run
      /\ proc'[p].graph = proc[p].graph /\ proc'[p].lease = proc[p].lease
      /\ proc'[p].pass = proc[p].pass /\ proc'[p].previous = proc[p].previous
      /\ proc'[p].locked = proc[p].locked /\ proc'[p].old = proc[p].old
      /\ proc'[p].published = proc[p].published
      BY GotoOne DEF Inv, CheckUnderFence, At
<1>2. UNCHANGED <<cargoLock, vendor, config, manifest, fence, lockFile, staged, contents,
                   committed>>
      BY DEF CheckUnderFence, Disk, public
<1>3. /\ ~proc[p].lease /\ proc[p].pass # 2 /\ proc[p].run # 0 /\ ~proc[p].published
      /\ proc[p].old = 0
      BY <1>1, HolderReadsNothing DEF Holding, UnderFence, Published, Done
<1>4. Intact(p)
      BY DEF CheckUnderFence, Precondition
<1>5. vendor = proc[p].previous
      BY <1>1, <1>4 DEF Inv, LockHolderSeesTree, Waiting, UnderFence
<1>6. OwnRuns'
      BY <1>1, <1>2, <1>3, <1>4, <1>5 DEF Inv, OwnRuns, Others
<1>7. OneOwner'
      BY <1>1, <1>2, <1>3, <1>4, <1>5 DEF Inv, OneOwner, Others, UnderFence
<1>8. FreshRuns'
      BY <1>1, <1>2, <1>3, <1>4, <1>5
      DEF Inv, FreshRuns, Others, Publishing, Done, Published, UnderFence
<1>9. PublishedInPlace'
      BY <1>1, <1>2, <1>3, <1>4, <1>5 DEF Inv, PublishedInPlace, Others, Published, UnderFence
<1>10. Exclusion'
      BY <1>1, <1>2, <1>3, <1>4, <1>5 DEF Inv, Exclusion, Others
<1>11. LockHolderSeesTree'
      BY <1>1, <1>2, <1>3, <1>4, <1>5
      DEF Inv, LockHolderSeesTree, Others, Waiting, UnderFence, Intact, Untouched
<1>12. MovesWhatItLocked'
      BY <1>1, <1>2, <1>3, <1>4, <1>5 DEF Inv, MovesWhatItLocked, Others, UnderFence
<1>13. StageMatchesGraph'
      BY <1>1, <1>2, <1>3, <1>4, <1>5 DEF Inv, StageMatchesGraph, Others, UnderFence, Unchanged
<1>14. ReceiptMatchesTree'
      BY <1>1, <1>2, <1>3, <1>4, <1>5 DEF Inv, ReceiptMatchesTree, Others, Nothing, UnderFence
<1>15. CoherentUnlessFenced'
      BY <1>1, <1>2, <1>3, <1>4, <1>5
      DEF Inv, CoherentUnlessFenced, Others, UnderFence, Untouched, Coherent
<1>16. SecondLook'
      BY <1>1, <1>2, <1>3, <1>4, <1>5 DEF Inv, SecondLook, Others, Coherent
<1>17. LeaseKeepsTree'
      BY <1>1, <1>2, <1>3, <1>4, <1>5 DEF Inv, LeaseKeepsTree, Others
<1>18. RegistryRetained'
      BY <1>1, <1>2, <1>3, <1>4, <1>5 DEF Inv, RegistryRetained, Others
<1> QED BY <1>6, <1>7, <1>8, <1>9, <1>10, <1>11, <1>12, <1>13, <1>14, <1>15, <1>16, <1>17, <1>18
        DEF Inv

\* The old tree goes into the stage.  Its mover has it locked, so that nobody
\* reads it.
LEMMA MoveOldInv ==
    ASSUME Inv, NEW p \in Proc, MoveOld(p), TypeInv', ControlInv'
    PROVE  Inv'
<1>1. /\ Others(p) /\ proc[p].pc = "move" /\ proc'[p].pc = "publish"
      /\ proc'[p].run = proc[p].run
      /\ proc'[p].graph = proc[p].graph
      /\ proc'[p].lease = proc[p].lease
      /\ proc'[p].previous = proc[p].previous
      /\ proc'[p].locked = proc[p].locked
      /\ proc'[p].old = vendor
      /\ proc'[p].published = proc[p].published
      /\ proc'[p].pass = proc[p].pass
  <2>1. proc[p] \in Locals
        BY DEF Inv, TypeInv, TypeOK
  <2>2. Others(p) /\ proc'[p] = [proc[p] EXCEPT !.old = vendor, !.pc = "publish"]
        BY SetOne DEF Inv, MoveOld, Others
  <2> QED BY <2>1, <2>2 DEF MoveOld, At, Locals
<1>2. UNCHANGED <<cargoLock, config, manifest, fence, lockFile, contents, committed>>
      /\ vendor' = 0 /\ staged' = staged \cup ({vendor} \ {0})
      BY DEF MoveOld, Disk, public
<1>3. /\ ~proc[p].lease /\ proc[p].pass # 2 /\ proc[p].run # 0 /\ ~proc[p].published
      /\ proc[p].old = 0
      BY <1>1, HolderReadsNothing DEF Holding, UnderFence, Published, Done
<1>4. /\ vendor = proc[p].previous /\ (vendor # 0 => vendor \in proc[p].locked)
      BY <1>1, HolderReadsNothing DEF Inv, MovesWhatItLocked, Holding, UnderFence
<1>5. \A q \in Proc : ~proc[q].lease /\ proc[q].pass # 2 /\ proc[q].pc # "retire"
  <2>1. ASSUME NEW q \in Proc PROVE ~proc[q].lease
        BY <1>4 DEF Inv, LeaseKeepsTree, Exclusion, ControlInv, Control
  <2>2. ASSUME NEW q \in Proc, proc[q].pc = "retire" PROVE FALSE
        BY <1>1, <1>4, <2>2, HolderReadsNothing DEF Inv, PublishedInPlace, Exclusion, Holding
  <2> QED BY <2>1, <2>2 DEF Inv, ControlInv, Control
<1>6. fence /\ \A q \in Proc \ {p} : proc[q].pc \notin UnderFence /\ proc[q].run # proc[p].run
      BY <1>1, <1>3 DEF Inv, OneOwner, OwnRuns, UnderFence
<1>7. OwnRuns'
      BY <1>1, <1>2, <1>3, <1>4, <1>5, <1>6 DEF Inv, OwnRuns, Others
<1>8. OneOwner'
      BY <1>1, <1>2, <1>3, <1>4, <1>5, <1>6 DEF Inv, OneOwner, Others, UnderFence
<1>9. FreshRuns'
      BY <1>1, <1>2, <1>3, <1>4, <1>5, <1>6
      DEF Inv, FreshRuns, Others, Publishing, Done, Published, UnderFence
<1>10. PublishedInPlace'
      BY <1>1, <1>2, <1>3, <1>4, <1>5, <1>6 DEF Inv, PublishedInPlace, Others, Published, UnderFence
<1>11. Exclusion'
      BY <1>1, <1>2, <1>3, <1>4, <1>5, <1>6 DEF Inv, Exclusion, Others
<1>12. LockHolderSeesTree'
      BY <1>1, <1>2, <1>3, <1>4, <1>5, <1>6
      DEF Inv, LockHolderSeesTree, Others, Waiting, UnderFence, Intact, Untouched
<1>13. MovesWhatItLocked'
      BY <1>1, <1>2, <1>3, <1>4, <1>5, <1>6 DEF Inv, MovesWhatItLocked, Others, UnderFence
<1>14. StageMatchesGraph'
      BY <1>1, <1>2, <1>3, <1>4, <1>5, <1>6
      DEF Inv, StageMatchesGraph, Others, UnderFence, Unchanged
<1>15. ReceiptMatchesTree'
      BY <1>1, <1>2, <1>3, <1>4, <1>5, <1>6 DEF Inv, ReceiptMatchesTree, Others, Nothing, UnderFence
<1>16. CoherentUnlessFenced'
      BY <1>1, <1>2, <1>3, <1>4, <1>5, <1>6
      DEF Inv, CoherentUnlessFenced, Others, UnderFence, Untouched, Coherent
<1>17. SecondLook'
      BY <1>1, <1>2, <1>3, <1>4, <1>5, <1>6 DEF Inv, SecondLook, Others, Coherent
<1>18. LeaseKeepsTree'
      BY <1>1, <1>2, <1>3, <1>4, <1>5, <1>6 DEF Inv, LeaseKeepsTree, Others
<1>19. RegistryRetained'
      BY <1>1, <1>2, <1>3, <1>4, <1>5, <1>6 DEF Inv, RegistryRetained, Others
<1> QED BY <1>7, <1>8, <1>9, <1>10, <1>11, <1>12, <1>13, <1>14, <1>15, <1>16, <1>17, <1>18, <1>19
        DEF Inv

\* The new tree is put in place, where there is none.
LEMMA PublishTreeInv ==
    ASSUME Inv, NEW p \in Proc, PublishTree(p), TypeInv', ControlInv'
    PROVE  Inv'
<1>1. /\ Others(p) /\ proc[p].pc = "publish" /\ proc'[p].pc = "config"
      /\ proc'[p].run = proc[p].run
      /\ proc'[p].graph = proc[p].graph
      /\ proc'[p].lease = proc[p].lease
      /\ proc'[p].previous = proc[p].previous
      /\ proc'[p].locked = proc[p].locked
      /\ proc'[p].old = proc[p].old
      /\ proc'[p].published = TRUE
      /\ proc'[p].pass = proc[p].pass
  <2>1. proc[p] \in Locals
        BY DEF Inv, TypeInv, TypeOK
  <2>2. Others(p) /\ proc'[p] = [proc[p] EXCEPT !.published = TRUE, !.pc = "config"]
        BY SetOne DEF Inv, PublishTree, Others
  <2> QED BY <2>1, <2>2 DEF PublishTree, At, Locals
<1>2. UNCHANGED <<cargoLock, config, manifest, fence, lockFile, contents, committed>>
      /\ vendor = 0 /\ vendor' = proc[p].run /\ staged' = staged \ {proc[p].run}
      BY DEF PublishTree, Disk, public
<1>3. /\ ~proc[p].lease /\ proc[p].pass # 2 /\ proc[p].run # 0 /\ ~proc[p].published
      BY <1>1, HolderReadsNothing DEF Holding, UnderFence, Published, Done
<1>4. \A q \in Proc : ~proc[q].lease /\ proc[q].pass # 2 /\ proc[q].pc # "retire"
  <2>1. ASSUME NEW q \in Proc PROVE ~proc[q].lease
        BY <1>2 DEF Inv, LeaseKeepsTree, ControlInv, Control
  <2>2. ASSUME NEW q \in Proc, proc[q].pc = "retire" PROVE FALSE
        BY <1>2, <2>2, HolderReadsNothing DEF Inv, PublishedInPlace, Holding
  <2> QED BY <2>1, <2>2 DEF Inv, ControlInv, Control
<1>5. fence /\ \A q \in Proc \ {p} : proc[q].pc \notin UnderFence /\ proc[q].run # proc[p].run
      BY <1>1, <1>3 DEF Inv, OneOwner, OwnRuns, UnderFence
<1>6. committed # proc[p].run
      BY <1>1, <1>3 DEF Inv, FreshRuns, Publishing, Done
<1>7. OwnRuns'
      BY <1>1, <1>2, <1>3, <1>4, <1>5, <1>6 DEF Inv, OwnRuns, Others
<1>8. OneOwner'
      BY <1>1, <1>2, <1>3, <1>4, <1>5, <1>6 DEF Inv, OneOwner, Others, UnderFence
<1>9. FreshRuns'
      BY <1>1, <1>2, <1>3, <1>4, <1>5, <1>6
      DEF Inv, FreshRuns, Others, Publishing, Done, Published, UnderFence
<1>10. PublishedInPlace'
      BY <1>1, <1>2, <1>3, <1>4, <1>5, <1>6 DEF Inv, PublishedInPlace, Others, Published, UnderFence
<1>11. Exclusion'
      BY <1>1, <1>2, <1>3, <1>4, <1>5, <1>6 DEF Inv, Exclusion, Others
<1>12. LockHolderSeesTree'
      BY <1>1, <1>2, <1>3, <1>4, <1>5, <1>6
      DEF Inv, LockHolderSeesTree, Others, Waiting, UnderFence, Intact, Untouched
<1>13. MovesWhatItLocked'
      BY <1>1, <1>2, <1>3, <1>4, <1>5, <1>6 DEF Inv, MovesWhatItLocked, Others, UnderFence
<1>14. StageMatchesGraph'
      BY <1>1, <1>2, <1>3, <1>4, <1>5, <1>6
      DEF Inv, StageMatchesGraph, Others, UnderFence, Unchanged
<1>15. ReceiptMatchesTree'
      BY <1>1, <1>2, <1>3, <1>4, <1>5, <1>6 DEF Inv, ReceiptMatchesTree, Others, Nothing, UnderFence
<1>16. CoherentUnlessFenced'
      BY <1>1, <1>2, <1>3, <1>4, <1>5, <1>6
      DEF Inv, CoherentUnlessFenced, Others, UnderFence, Untouched, Coherent
<1>17. SecondLook'
      BY <1>1, <1>2, <1>3, <1>4, <1>5, <1>6 DEF Inv, SecondLook, Others, Coherent
<1>18. LeaseKeepsTree'
      BY <1>1, <1>2, <1>3, <1>4, <1>5, <1>6 DEF Inv, LeaseKeepsTree, Others
<1>19. RegistryRetained'
      BY <1>1, <1>2, <1>3, <1>4, <1>5, <1>6 DEF Inv, RegistryRetained, Others
<1> QED BY <1>7, <1>8, <1>9, <1>10, <1>11, <1>12, <1>13, <1>14, <1>15, <1>16, <1>17, <1>18, <1>19
        DEF Inv

\* The configuration is written, while no second look is under way.
LEMMA WriteConfigInv ==
    ASSUME Inv, NEW p \in Proc, WriteConfig(p), TypeInv', ControlInv'
    PROVE  Inv'
<1>1. /\ Others(p) /\ proc[p].pc = "config" /\ proc'[p].pc = "manifest"
      /\ proc'[p].run = proc[p].run
      /\ proc'[p].graph = proc[p].graph /\ proc'[p].lease = proc[p].lease
      /\ proc'[p].pass = proc[p].pass /\ proc'[p].previous = proc[p].previous
      /\ proc'[p].locked = proc[p].locked /\ proc'[p].old = proc[p].old
      /\ proc'[p].published = proc[p].published
      BY GotoOne DEF Inv, WriteConfig, At
<1>2. UNCHANGED <<cargoLock, vendor, manifest, fence, lockFile, staged, contents, committed>>
      /\ config'.of = proc[p].run
      BY DEF WriteConfig, Written, Disk, public
<1>3. /\ ~proc[p].lease /\ proc[p].pass # 2 /\ proc[p].run # 0 /\ proc[p].published
      BY <1>1, HolderReadsNothing DEF Holding, UnderFence, Published, Done
<1>4. /\ vendor = proc[p].run /\ committed # proc[p].run
      /\ \A q \in Proc : proc[q].pass = 2 => proc[q].pc \notin {"writer", "receipt", "resolver",
                         "ready"}
      BY <1>1 DEF Inv, PublishedInPlace, Published, SecondLook, Coherent
<1>5. fence /\ \A q \in Proc \ {p} : proc[q].pc \notin UnderFence /\ proc[q].run # proc[p].run
      BY <1>1, <1>3 DEF Inv, OneOwner, OwnRuns, UnderFence
<1>6. OwnRuns'
      BY <1>1, <1>2, <1>3, <1>4, <1>5 DEF Inv, OwnRuns, Others
<1>7. OneOwner'
      BY <1>1, <1>2, <1>3, <1>4, <1>5 DEF Inv, OneOwner, Others, UnderFence
<1>8. FreshRuns'
      BY <1>1, <1>2, <1>3, <1>4, <1>5, ZenonT(60)
      DEF Inv, FreshRuns, Others, Publishing, Done, Published, UnderFence
<1>9. PublishedInPlace'
      BY <1>1, <1>2, <1>3, <1>4, <1>5 DEF Inv, PublishedInPlace, Others, Published, UnderFence
<1>10. Exclusion'
      BY <1>1, <1>2, <1>3, <1>4, <1>5 DEF Inv, Exclusion, Others
<1>11. LockHolderSeesTree'
      BY <1>1, <1>2, <1>3, <1>4, <1>5, ZenonT(60)
      DEF Inv, LockHolderSeesTree, Others, Waiting, UnderFence, Intact, Untouched
<1>12. MovesWhatItLocked'
      BY <1>1, <1>2, <1>3, <1>4, <1>5 DEF Inv, MovesWhatItLocked, Others, UnderFence
<1>13. StageMatchesGraph'
      BY <1>1, <1>2, <1>3, <1>4, <1>5 DEF Inv, StageMatchesGraph, Others, UnderFence, Unchanged
<1>14. ReceiptMatchesTree'
      BY <1>1, <1>2, <1>3, <1>4, <1>5 DEF Inv, ReceiptMatchesTree, Others, Nothing, UnderFence
<1>15. CoherentUnlessFenced'
      BY <1>1, <1>2, <1>3, <1>4, <1>5
      DEF Inv, CoherentUnlessFenced, Others, UnderFence, Untouched, Coherent
<1>16. SecondLook'
      BY <1>1, <1>2, <1>3, <1>4, <1>5 DEF Inv, SecondLook, Others, Coherent
<1>17. LeaseKeepsTree'
      BY <1>1, <1>2, <1>3, <1>4, <1>5 DEF Inv, LeaseKeepsTree, Others
<1>18. RegistryRetained'
      BY <1>1, <1>2, <1>3, <1>4, <1>5 DEF Inv, RegistryRetained, Others
<1> QED BY <1>6, <1>7, <1>8, <1>9, <1>10, <1>11, <1>12, <1>13, <1>14, <1>15, <1>16, <1>17, <1>18
        DEF Inv

\* The receipt is written, for the lock file the tree was populated for.
LEMMA WriteManifestInv ==
    ASSUME Inv, NEW p \in Proc, WriteManifest(p), TypeInv', ControlInv'
    PROVE  Inv'
<1>1. /\ Others(p) /\ proc[p].pc = "manifest" /\ proc'[p].pc = "last" /\ proc'[p].run = proc[p].run
      /\ proc'[p].graph = proc[p].graph /\ proc'[p].lease = proc[p].lease
      /\ proc'[p].pass = proc[p].pass /\ proc'[p].previous = proc[p].previous
      /\ proc'[p].locked = proc[p].locked /\ proc'[p].old = proc[p].old
      /\ proc'[p].published = proc[p].published
      BY GotoOne DEF Inv, WriteManifest, At
<1>2. UNCHANGED <<cargoLock, vendor, config, fence, lockFile, staged, contents, committed>>
      /\ manifest'.of = proc[p].run
      /\ manifest'.digest = proc[p].graph.content
      BY DEF WriteManifest, Written, Disk, public
<1>3. /\ ~proc[p].lease /\ proc[p].pass # 2 /\ proc[p].run # 0 /\ proc[p].published
      BY <1>1, HolderReadsNothing DEF Holding, UnderFence, Published, Done
<1>4. /\ vendor = proc[p].run /\ committed # proc[p].run
      /\ \A q \in Proc : proc[q].pass = 2 => proc[q].pc \notin {"writer", "receipt", "resolver",
                         "ready"}
      BY <1>1 DEF Inv, PublishedInPlace, Published, SecondLook, Coherent
<1>5. fence /\ \A q \in Proc \ {p} : proc[q].pc \notin UnderFence /\ proc[q].run # proc[p].run
      BY <1>1, <1>3 DEF Inv, OneOwner, OwnRuns, UnderFence
<1>6. contents[proc[p].run] = proc[p].graph.content
      BY <1>1 DEF Inv, StageMatchesGraph, UnderFence
<1>7. OwnRuns'
      BY <1>1, <1>2, <1>3, <1>4, <1>5, <1>6 DEF Inv, OwnRuns, Others
<1>8. OneOwner'
      BY <1>1, <1>2, <1>3, <1>4, <1>5, <1>6 DEF Inv, OneOwner, Others, UnderFence
<1>9. FreshRuns'
      BY <1>1, <1>2, <1>3, <1>4, <1>5, <1>6, ZenonT(60)
      DEF Inv, FreshRuns, Others, Publishing, Done, Published, UnderFence
<1>10. PublishedInPlace'
      BY <1>1, <1>2, <1>3, <1>4, <1>5, <1>6 DEF Inv, PublishedInPlace, Others, Published, UnderFence
<1>11. Exclusion'
      BY <1>1, <1>2, <1>3, <1>4, <1>5, <1>6 DEF Inv, Exclusion, Others
<1>12. LockHolderSeesTree'
      BY <1>1, <1>2, <1>3, <1>4, <1>5, <1>6, ZenonT(60)
      DEF Inv, LockHolderSeesTree, Others, Waiting, UnderFence, Intact, Untouched
<1>13. MovesWhatItLocked'
      BY <1>1, <1>2, <1>3, <1>4, <1>5, <1>6 DEF Inv, MovesWhatItLocked, Others, UnderFence
<1>14. StageMatchesGraph'
      BY <1>1, <1>2, <1>3, <1>4, <1>5, <1>6
      DEF Inv, StageMatchesGraph, Others, UnderFence, Unchanged
<1>15. ReceiptMatchesTree'
      BY <1>1, <1>2, <1>3, <1>4, <1>5, <1>6 DEF Inv, ReceiptMatchesTree, Others, Nothing, UnderFence
<1>16. CoherentUnlessFenced'
      BY <1>1, <1>2, <1>3, <1>4, <1>5, <1>6
      DEF Inv, CoherentUnlessFenced, Others, UnderFence, Untouched, Coherent
<1>17. SecondLook'
      BY <1>1, <1>2, <1>3, <1>4, <1>5, <1>6 DEF Inv, SecondLook, Others, Coherent
<1>18. LeaseKeepsTree'
      BY <1>1, <1>2, <1>3, <1>4, <1>5, <1>6 DEF Inv, LeaseKeepsTree, Others
<1>19. RegistryRetained'
      BY <1>1, <1>2, <1>3, <1>4, <1>5, <1>6 DEF Inv, RegistryRetained, Others
<1> QED BY <1>7, <1>8, <1>9, <1>10, <1>11, <1>12, <1>13, <1>14, <1>15, <1>16, <1>17, <1>18, <1>19
        DEF Inv

\* The last check: the operation still has its lock, so that nobody else
\* relied on the tree it replaced.
LEMMA CheckPublishedInv ==
    ASSUME Inv, NEW p \in Proc, CheckPublished(p), TypeInv', ControlInv'
    PROVE  Inv'
<1>1. /\ Others(p) /\ proc[p].pc = "last" /\ proc'[p].pc = "uncover" /\ proc'[p].run = proc[p].run
      /\ proc'[p].graph = proc[p].graph /\ proc'[p].lease = proc[p].lease
      /\ proc'[p].pass = proc[p].pass /\ proc'[p].previous = proc[p].previous
      /\ proc'[p].locked = proc[p].locked /\ proc'[p].old = proc[p].old
      /\ proc'[p].published = proc[p].published
      BY GotoOne DEF Inv, CheckPublished, At
<1>2. UNCHANGED <<cargoLock, vendor, config, manifest, fence, lockFile, staged, contents,
                   committed>>
      BY DEF CheckPublished, Disk, public
<1>3. /\ ~proc[p].lease /\ proc[p].pass # 2 /\ proc[p].run # 0 /\ proc[p].published
      BY <1>1, HolderReadsNothing DEF Holding, UnderFence, Published, Done
<1>4. fence /\ \A q \in Proc \ {p} : proc[q].pc \notin UnderFence /\ proc[q].run # proc[p].run
      BY <1>1, <1>3 DEF Inv, OneOwner, OwnRuns, UnderFence
<1>5. Intact(p)
      BY DEF CheckPublished, Precondition
<1>6. OwnRuns'
      BY <1>1, <1>2, <1>3, <1>4, <1>5 DEF Inv, OwnRuns, Others
<1>7. OneOwner'
      BY <1>1, <1>2, <1>3, <1>4, <1>5 DEF Inv, OneOwner, Others, UnderFence
<1>8. FreshRuns'
      BY <1>1, <1>2, <1>3, <1>4, <1>5, ZenonT(60)
      DEF Inv, FreshRuns, Others, Publishing, Done, Published, UnderFence
<1>9. PublishedInPlace'
      BY <1>1, <1>2, <1>3, <1>4, <1>5 DEF Inv, PublishedInPlace, Others, Published, UnderFence
<1>10. Exclusion'
      BY <1>1, <1>2, <1>3, <1>4, <1>5 DEF Inv, Exclusion, Others
<1>11. LockHolderSeesTree'
      BY <1>1, <1>2, <1>3, <1>4, <1>5
      DEF Inv, LockHolderSeesTree, Others, Waiting, UnderFence, Intact, Untouched
<1>12. MovesWhatItLocked'
      BY <1>1, <1>2, <1>3, <1>4, <1>5 DEF Inv, MovesWhatItLocked, Others, UnderFence
<1>13. StageMatchesGraph'
      BY <1>1, <1>2, <1>3, <1>4, <1>5 DEF Inv, StageMatchesGraph, Others, UnderFence, Unchanged
<1>14. ReceiptMatchesTree'
      BY <1>1, <1>2, <1>3, <1>4, <1>5 DEF Inv, ReceiptMatchesTree, Others, Nothing, UnderFence
<1>15. CoherentUnlessFenced'
      BY <1>1, <1>2, <1>3, <1>4, <1>5
      DEF Inv, CoherentUnlessFenced, Others, UnderFence, Untouched, Coherent
<1>16. SecondLook'
      BY <1>1, <1>2, <1>3, <1>4, <1>5 DEF Inv, SecondLook, Others, Coherent
<1>17. LeaseKeepsTree'
      BY <1>1, <1>2, <1>3, <1>4, <1>5 DEF Inv, LeaseKeepsTree, Others
<1>18. RegistryRetained'
      BY <1>1, <1>2, <1>3, <1>4, <1>5 DEF Inv, RegistryRetained, Others
<1> QED BY <1>6, <1>7, <1>8, <1>9, <1>10, <1>11, <1>12, <1>13, <1>14, <1>15, <1>16, <1>17, <1>18
        DEF Inv

\* The fence goes: the publication is complete.
LEMMA ClearFenceInv ==
    ASSUME Inv, NEW p \in Proc, ClearFence(p), TypeInv', ControlInv'
    PROVE  Inv'
<1>1. /\ Others(p) /\ proc[p].pc = "uncover" /\ proc'[p].pc = "retire" /\ proc'[p].run = proc[p].run
      /\ proc'[p].graph = proc[p].graph /\ proc'[p].lease = proc[p].lease
      /\ proc'[p].pass = proc[p].pass /\ proc'[p].previous = proc[p].previous
      /\ proc'[p].locked = proc[p].locked /\ proc'[p].old = proc[p].old
      /\ proc'[p].published = proc[p].published
      BY GotoOne DEF Inv, ClearFence, At
<1>2. UNCHANGED <<cargoLock, vendor, config, manifest, lockFile, staged, contents>> /\ ~fence'
      /\ committed' = proc[p].run
      BY DEF ClearFence, Disk, public
<1>3. /\ ~proc[p].lease /\ proc[p].pass # 2 /\ proc[p].run # 0 /\ proc[p].published
      BY <1>1, HolderReadsNothing DEF Holding, UnderFence, Published, Done
<1>4. /\ vendor = proc[p].run /\ committed # proc[p].run
      /\ \A q \in Proc : proc[q].pass = 2 => proc[q].pc \notin {"writer", "receipt", "resolver",
                         "ready"}
      BY <1>1 DEF Inv, PublishedInPlace, Published, SecondLook, Coherent
<1>5. fence /\ \A q \in Proc \ {p} : proc[q].pc \notin UnderFence /\ proc[q].run # proc[p].run
      BY <1>1, <1>3 DEF Inv, OneOwner, OwnRuns, UnderFence
<1>6. config.of = proc[p].run /\ manifest.of = proc[p].run
      BY <1>1 DEF Inv, ReceiptMatchesTree
<1>7. OwnRuns'
      BY <1>1, <1>2, <1>3, <1>4, <1>5, <1>6 DEF Inv, OwnRuns, Others
<1>8. OneOwner'
      BY <1>1, <1>2, <1>3, <1>4, <1>5, <1>6 DEF Inv, OneOwner, Others, UnderFence
<1>9. FreshRuns'
      BY <1>1, <1>2, <1>3, <1>4, <1>5, <1>6, ZenonT(60)
      DEF Inv, FreshRuns, Others, Publishing, Done, Published, UnderFence
<1>10. PublishedInPlace'
      BY <1>1, <1>2, <1>3, <1>4, <1>5, <1>6 DEF Inv, PublishedInPlace, Others, Published, UnderFence
<1>11. Exclusion'
      BY <1>1, <1>2, <1>3, <1>4, <1>5, <1>6 DEF Inv, Exclusion, Others
<1>12. LockHolderSeesTree'
      BY <1>1, <1>2, <1>3, <1>4, <1>5, <1>6
      DEF Inv, LockHolderSeesTree, Others, Waiting, UnderFence, Intact, Untouched
<1>13. MovesWhatItLocked'
      BY <1>1, <1>2, <1>3, <1>4, <1>5, <1>6 DEF Inv, MovesWhatItLocked, Others, UnderFence
<1>14. StageMatchesGraph'
      BY <1>1, <1>2, <1>3, <1>4, <1>5, <1>6
      DEF Inv, StageMatchesGraph, Others, UnderFence, Unchanged
<1>15. ReceiptMatchesTree'
      BY <1>1, <1>2, <1>3, <1>4, <1>5, <1>6 DEF Inv, ReceiptMatchesTree, Others, Nothing, UnderFence
<1>16. CoherentUnlessFenced'
      BY <1>1, <1>2, <1>3, <1>4, <1>5, <1>6
      DEF Inv, CoherentUnlessFenced, Others, UnderFence, Untouched, Coherent
<1>17. SecondLook'
      BY <1>1, <1>2, <1>3, <1>4, <1>5, <1>6 DEF Inv, SecondLook, Others, Coherent
<1>18. LeaseKeepsTree'
      BY <1>1, <1>2, <1>3, <1>4, <1>5, <1>6 DEF Inv, LeaseKeepsTree, Others
<1>19. RegistryRetained'
      BY <1>1, <1>2, <1>3, <1>4, <1>5, <1>6 DEF Inv, RegistryRetained, Others
<1> QED BY <1>7, <1>8, <1>9, <1>10, <1>11, <1>12, <1>13, <1>14, <1>15, <1>16, <1>17, <1>18, <1>19
        DEF Inv

\* The tree in place is locked, if nobody reads it.
LEMMA LockPreviousInv ==
    ASSUME Inv, NEW p \in Proc, LockPrevious(p), TypeInv', ControlInv'
    PROVE  Inv'
<1>1. /\ Others(p) /\ proc[p].pc = "previous" /\ proc'[p].pc = "populate"
      /\ proc'[p].run = proc[p].run
      /\ proc'[p].graph = proc[p].graph
      /\ proc'[p].lease = proc[p].lease
      /\ proc'[p].previous = vendor
      /\ proc'[p].locked = {vendor} \ {0}
      /\ proc'[p].old = proc[p].old
      /\ proc'[p].published = proc[p].published
      /\ proc'[p].pass = proc[p].pass
  <2>1. proc[p] \in Locals
        BY DEF Inv, TypeInv, TypeOK
  <2>2. Others(p)
        /\ proc'[p] = [proc[p] EXCEPT !.previous = vendor, !.locked = {vendor} \ {0},
                     !.pc = "populate"]
        BY SetOne DEF Inv, LockPrevious, Others
  <2> QED BY <2>1, <2>2 DEF LockPrevious, At, Locals
<1>2. UNCHANGED <<cargoLock, vendor, config, manifest, fence, lockFile, staged, contents,
                   committed>>
      BY DEF LockPrevious, Disk, public
<1>3. /\ ~proc[p].lease /\ proc[p].pass # 2 /\ proc[p].run # 0 /\ ~proc[p].published
      /\ proc[p].old = 0
      BY <1>1, HolderReadsNothing DEF Holding, UnderFence, Published, Done
<1>4. vendor # 0 => Free(vendor, p)
      BY DEF LockPrevious, CanLockPrevious
<1>5. vendor # proc[p].run
      BY <1>1, <1>3 DEF Inv, FreshRuns, Publishing, Done
<1>6. OwnRuns'
      BY <1>1, <1>2, <1>3, <1>4, <1>5 DEF Inv, OwnRuns, Others
<1>7. OneOwner'
      BY <1>1, <1>2, <1>3, <1>4, <1>5 DEF Inv, OneOwner, Others, UnderFence
<1>8. FreshRuns'
      BY <1>1, <1>2, <1>3, <1>4, <1>5
      DEF Inv, FreshRuns, Others, Publishing, Done, Published, UnderFence
<1>9. PublishedInPlace'
      BY <1>1, <1>2, <1>3, <1>4, <1>5 DEF Inv, PublishedInPlace, Others, Published, UnderFence
<1>10. Exclusion'
      BY <1>1, <1>2, <1>3, <1>4, <1>5 DEF Inv, Exclusion, Others, Free
<1>11. LockHolderSeesTree'
      BY <1>1, <1>2, <1>3, <1>4, <1>5
      DEF Inv, LockHolderSeesTree, Others, Waiting, UnderFence, Intact, Untouched
<1>12. MovesWhatItLocked'
      BY <1>1, <1>2, <1>3, <1>4, <1>5 DEF Inv, MovesWhatItLocked, Others, UnderFence
<1>13. StageMatchesGraph'
      BY <1>1, <1>2, <1>3, <1>4, <1>5 DEF Inv, StageMatchesGraph, Others, UnderFence, Unchanged
<1>14. ReceiptMatchesTree'
      BY <1>1, <1>2, <1>3, <1>4, <1>5 DEF Inv, ReceiptMatchesTree, Others, Nothing, UnderFence
<1>15. CoherentUnlessFenced'
      BY <1>1, <1>2, <1>3, <1>4, <1>5
      DEF Inv, CoherentUnlessFenced, Others, UnderFence, Untouched, Coherent
<1>16. SecondLook'
      BY <1>1, <1>2, <1>3, <1>4, <1>5 DEF Inv, SecondLook, Others, Coherent
<1>17. LeaseKeepsTree'
      BY <1>1, <1>2, <1>3, <1>4, <1>5 DEF Inv, LeaseKeepsTree, Others
<1>18. RegistryRetained'
      BY <1>1, <1>2, <1>3, <1>4, <1>5 DEF Inv, RegistryRetained, Others
<1> QED BY <1>6, <1>7, <1>8, <1>9, <1>10, <1>11, <1>12, <1>13, <1>14, <1>15, <1>16, <1>17, <1>18
        DEF Inv

\* The stage is populated under a number nobody knows.
LEMMA PopulateInv ==
    ASSUME Inv, NEW p \in Proc, Populate(p), TypeInv', ControlInv'
    PROVE  Inv'
<1>1. /\ Others(p) /\ proc[p].pc = "populate" /\ proc'[p].pc = "validate"
      /\ proc'[p].run = proc[p].run
      /\ proc'[p].graph = proc[p].graph
      /\ proc'[p].lease = proc[p].lease
      /\ proc'[p].previous = proc[p].previous
      /\ proc'[p].locked = proc[p].locked \cup {proc[p].run}
      /\ proc'[p].old = proc[p].old
      /\ proc'[p].published = proc[p].published
      /\ proc'[p].pass = proc[p].pass
  <2>1. proc[p] \in Locals
        BY DEF Inv, TypeInv, TypeOK
  <2>2. Others(p) /\ proc'[p] = [proc[p] EXCEPT !.locked = @ \cup {proc[p].run}, !.pc = "validate"]
        BY SetOne DEF Inv, Populate, Others
  <2> QED BY <2>1, <2>2 DEF Populate, At, Locals
<1>2. UNCHANGED <<cargoLock, vendor, config, manifest, fence, lockFile, committed>>
      /\ staged' = staged \cup {proc[p].run}
      BY DEF Populate, Disk, public
<1>3. /\ ~proc[p].lease /\ proc[p].pass # 2 /\ proc[p].run # 0 /\ ~proc[p].published
      /\ proc[p].old = 0
      BY <1>1, HolderReadsNothing DEF Holding, UnderFence, Published, Done
<1>4. /\ contents'[proc[p].run] = cargoLock.content
      /\ \A o \in Operations \ {proc[p].run} : contents'[o] = contents[o]
  <2>1. proc[p].run \in Operations
        BY <1>3 DEF Inv, TypeInv, TypeOK, Locals
  <2> QED BY <2>1 DEF Inv, TypeInv, TypeOK, Operations, Populate
<1>5. /\ vendor # proc[p].run /\ committed # proc[p].run /\ manifest.of # proc[p].run
      /\ \A q \in Proc \ {p} : proc[p].run \notin proc[q].locked /\ proc[q].run # proc[p].run
      BY <1>1, <1>3 DEF Inv, FreshRuns, Publishing, Done, OwnRuns
<1>6. /\ manifest # Nothing => manifest.of \in Operations
      /\ \A q \in Proc : proc[q].run # 0 => proc[q].run \in Operations
      /\ \A q \in Proc : proc[q].pc \in Holding => proc[q].run # 0
      BY DEF Inv, TypeInv, TypeOK, ControlFile, Locals, ControlInv, Control
<1>7. OwnRuns'
      BY <1>1, <1>2, <1>3, <1>4, <1>5, <1>6 DEF Inv, OwnRuns, Others
<1>8. OneOwner'
      BY <1>1, <1>2, <1>3, <1>4, <1>5, <1>6 DEF Inv, OneOwner, Others, UnderFence
<1>9. FreshRuns'
      BY <1>1, <1>2, <1>3, <1>4, <1>5, <1>6
      DEF Inv, FreshRuns, Others, Publishing, Done, Published, UnderFence
<1>10. PublishedInPlace'
      BY <1>1, <1>2, <1>3, <1>4, <1>5, <1>6 DEF Inv, PublishedInPlace, Others, Published, UnderFence
<1>11. Exclusion'
      BY <1>1, <1>2, <1>3, <1>4, <1>5, <1>6 DEF Inv, Exclusion, Others, LeaseKeepsTree
<1>12. LockHolderSeesTree'
      BY <1>1, <1>2, <1>3, <1>4, <1>5, <1>6
      DEF Inv, LockHolderSeesTree, Others, Waiting, UnderFence, Intact, Untouched
<1>13. MovesWhatItLocked'
      BY <1>1, <1>2, <1>3, <1>4, <1>5, <1>6 DEF Inv, MovesWhatItLocked, Others, UnderFence
<1>14. StageMatchesGraph'
      BY <1>1, <1>2, <1>3, <1>4, <1>5, <1>6
      DEF Inv, StageMatchesGraph, Others, UnderFence, Unchanged, Holding
<1>15. ReceiptMatchesTree'
      BY <1>1, <1>2, <1>3, <1>4, <1>5, <1>6 DEF Inv, ReceiptMatchesTree, Others, Nothing, UnderFence
<1>16. CoherentUnlessFenced'
      BY <1>1, <1>2, <1>3, <1>4, <1>5, <1>6
      DEF Inv, CoherentUnlessFenced, Others, UnderFence, Untouched, Coherent
<1>17. SecondLook'
      BY <1>1, <1>2, <1>3, <1>4, <1>5, <1>6 DEF Inv, SecondLook, Others, Coherent
<1>18. LeaseKeepsTree'
      BY <1>1, <1>2, <1>3, <1>4, <1>5, <1>6 DEF Inv, LeaseKeepsTree, Others
<1>19. RegistryRetained'
      BY <1>1, <1>2, <1>3, <1>4, <1>5, <1>6 DEF Inv, RegistryRetained, Others
<1> QED BY <1>7, <1>8, <1>9, <1>10, <1>11, <1>12, <1>13, <1>14, <1>15, <1>16, <1>17, <1>18, <1>19
        DEF Inv

\* What ends an operation: it retires, gives up or fails.
Leaves(p) ==
    /\ proc[p].pc \in BeforeFence \cup UnderFence \cup {"retire"}
    /\ Set(p, Released(p))
    /\ UNCHANGED <<cargoLock, public, lockFile, contents, committed>>
    /\ \/ UNCHANGED staged
       \/ staged' = staged \ Stage(p) /\ (Untouched(p) \/ proc[p].pc = "retire")
    /\ \/ fence' = fence
       \/ proc[p].pc = "retire" /\ fence'
       \/ proc[p].pc \in UnderFence /\ Untouched(p) /\ ~fence'

\* Every end of an operation is such a step.
LEMMA EndsAreLeaves ==
    ASSUME Inv, NEW p \in Proc, Retire(p) \/ GiveUp(p) \/ Fail(p) \/ FailToClear(p)
    PROVE  Leaves(p)
<1>1. CASE Retire(p)
      BY <1>1 DEF Retire, Leaves, At
<1>2. CASE Abort(p)
  <2>1. proc[p].pc \in BeforeFence => Untouched(p)
    <3>1. proc[p].pc \in BeforeFence => proc[p].pc \in Holding \cup {"acquired", "previous"}
          BY DEF BeforeFence, Holding
    <3> QED BY <3>1, HolderReadsNothing DEF BeforeFence, Untouched, Published
  <2> QED BY <1>2, <2>1 DEF Abort, Leaves, Discard, Keep
<1>3. CASE FailToClear(p)
  <2>1. proc[p].pc = "fenced" => Untouched(p)
        BY HolderReadsNothing DEF Holding, UnderFence, Untouched, Published
  <2>2. Set(p, Released(p)) /\ UNCHANGED <<cargoLock, public, lockFile, contents, committed>>
        BY <1>3 DEF FailToClear
  <2>3. CASE proc[p].pc \in UnderFence /\ Untouched(p) /\ UNCHANGED fence /\ Keep(p)
        BY <2>2, <2>3 DEF Leaves, Keep
  <2>4. CASE At(p, "retire") /\ fence' \in {fence, TRUE} /\ Keep(p)
        BY <2>2, <2>4 DEF Leaves, Keep, At
  <2>5. CASE At(p, "fenced") /\ UNCHANGED fence /\ Discard(p)
        BY <2>1, <2>2, <2>5 DEF Leaves, Discard, At, UnderFence
  <2> QED BY <1>3, <2>3, <2>4, <2>5 DEF FailToClear
<1> QED BY <1>1, <1>2, <1>3 DEF GiveUp, Fail

\* The end of an operation keeps the last publication, and clears the fence
\* only of one that changed nothing.
LEMMA LeaveInv ==
    ASSUME Inv, NEW p \in Proc, Leaves(p), TypeInv', ControlInv'
    PROVE  Inv'
<1>1. /\ Others(p) /\ proc'[p].pc = "release" /\ proc'[p].run = proc[p].run
      /\ proc'[p].graph = proc[p].graph /\ ~proc'[p].lease /\ proc'[p].pass = 1
            /\ proc'[p].locked = {}
  <2>1. Others(p) /\ proc'[p] = Released(p)
        BY SetOne DEF Inv, Leaves, Others
  <2> QED BY <2>1 DEF Released, Idle
<1>2. UNCHANGED <<cargoLock, vendor, config, manifest, lockFile, contents, committed>>
      BY DEF Leaves, Disk, public
<1>3. /\ proc[p].pc \in UnderFence => fence /\ \A q \in Proc \ {p} : proc[q].pc \notin UnderFence
      /\ proc[p].pc # "retire" => proc[p].pc \notin Done /\ proc[p].run # 0
  <2>1. proc[p].pc \in Holding \cup {"acquired", "previous"}
        BY DEF Leaves, BeforeFence, UnderFence, Holding
  <2> QED BY <2>1, HolderReadsNothing DEF Inv, OneOwner, Done, Holding, UnderFence
<1>4. /\ fence' = fence \/ fence' \/ (proc[p].pc \in UnderFence /\ Untouched(p))
      /\ fence => fence' \/ (proc[p].pc \in UnderFence /\ Untouched(p))
      BY DEF Leaves
<1>5. committed # 0 /\ committed \in staged => committed \in staged' \cup {vendor}
  <2>1. CASE proc[p].pc = "retire"
        BY <2>1 DEF Inv, PublishedInPlace
  <2>2. CASE Untouched(p) /\ proc[p].pc # "retire"
    <3>1. committed # proc[p].run
          BY <1>3, <2>2 DEF Inv, FreshRuns, Publishing, Untouched
    <3> QED BY <2>2, <3>1 DEF Leaves, Stage, Untouched
  <2> QED BY <2>1, <2>2 DEF Leaves
<1>6. OwnRuns'
      BY <1>1, <1>2, <1>3, <1>4, <1>5 DEF Inv, OwnRuns, Others
<1>7. OneOwner'
      BY <1>1, <1>2, <1>3, <1>4, <1>5 DEF Inv, OneOwner, Others, UnderFence
<1>8. FreshRuns'
      BY <1>1, <1>2, <1>3, <1>4, <1>5
      DEF Inv, FreshRuns, Others, Publishing, Done, Published, UnderFence
<1>9. PublishedInPlace'
      BY <1>1, <1>2, <1>3, <1>4, <1>5 DEF Inv, PublishedInPlace, Others, Published, UnderFence
<1>10. Exclusion'
      BY <1>1, <1>2, <1>3, <1>4, <1>5 DEF Inv, Exclusion, Others
<1>11. LockHolderSeesTree'
      BY <1>1, <1>2, <1>3, <1>4, <1>5
      DEF Inv, LockHolderSeesTree, Others, Waiting, UnderFence, Intact, Untouched
<1>12. MovesWhatItLocked'
      BY <1>1, <1>2, <1>3, <1>4, <1>5 DEF Inv, MovesWhatItLocked, Others, UnderFence
<1>13. StageMatchesGraph'
      BY <1>1, <1>2, <1>3, <1>4, <1>5 DEF Inv, StageMatchesGraph, Others, UnderFence, Unchanged
<1>14. ReceiptMatchesTree'
      BY <1>1, <1>2, <1>3, <1>4, <1>5 DEF Inv, ReceiptMatchesTree, Others, Nothing, UnderFence
<1>15. CoherentUnlessFenced'
      BY <1>1, <1>2, <1>3, <1>4, <1>5
      DEF Inv, CoherentUnlessFenced, Others, UnderFence, Untouched, Coherent
<1>16. SecondLook'
      BY <1>1, <1>2, <1>3, <1>4, <1>5 DEF Inv, SecondLook, Others, Coherent
<1>17. LeaseKeepsTree'
      BY <1>1, <1>2, <1>3, <1>4, <1>5 DEF Inv, LeaseKeepsTree, Others
<1>18. RegistryRetained'
      BY <1>1, <1>2, <1>3, <1>4, <1>5 DEF Inv, RegistryRetained, Others
<1> QED BY <1>6, <1>7, <1>8, <1>9, <1>10, <1>11, <1>12, <1>13, <1>14, <1>15, <1>16, <1>17, <1>18
        DEF Inv

\* A new operation has a number nobody knows.
LEMMA AcquireInv ==
    ASSUME Inv, NEW p \in Proc, Acquire(p), ~UNCHANGED contents, TypeInv', ControlInv'
    PROVE  Inv'
<1>1. /\ Others(p) /\ proc[p].pc = "acquire" /\ proc'[p].pc = "acquired"
      /\ proc'[p].run = NextOperation
      /\ proc'[p].graph = proc[p].graph /\ proc'[p].lease = proc[p].lease
      /\ proc'[p].pass = proc[p].pass /\ proc'[p].locked = proc[p].locked
  <2>1. proc[p] \in Locals
        BY DEF Inv, TypeInv, TypeOK
  <2>2. Others(p) /\ proc'[p] = [proc[p] EXCEPT !.run = NextOperation, !.pc = "acquired"]
        BY SetOne DEF Inv, Acquire, Others
  <2> QED BY <2>1, <2>2 DEF Acquire, At, Locals
<1>2. UNCHANGED <<cargoLock, vendor, config, manifest, fence, staged, committed>>
      /\ lockFile' = NextOperation
      BY DEF Acquire, public
<1>3. /\ ~proc[p].lease /\ proc[p].pass # 2 /\ proc[p].locked = {}
      BY <1>1, HolderReadsNothing
<1>4. NextOperation # 0 /\ NextOperation \notin Operations
      BY NextIsNew DEF Inv, TypeInv
<1>5. \A o \in Operations : contents'[o] = contents[o]
  <2>1. contents' = [o \in Operations \cup {NextOperation} |->
                       IF o = NextOperation THEN cargoLock.content ELSE contents[o]]
        BY DEF Acquire
  <2> QED BY <1>4, <2>1
<1>6. /\ {vendor, committed, manifest.of} \subseteq Operations \cup {0}
      /\ manifest # Nothing => manifest.of \in Operations
      /\ \A q \in Proc : /\ proc[q].run \in Operations \cup {0}
                         /\ proc[q].locked \subseteq Operations
                         /\ proc[q].pc \in Holding => proc[q].run \in Operations
      BY DEF Inv, TypeInv, TypeOK, ControlFile, Nothing, Locals, ControlInv, Control
<1>7. OwnRuns'
      BY <1>1, <1>2, <1>3, <1>4, <1>5, <1>6 DEF Inv, OwnRuns, Others
<1>8. OneOwner'
      BY <1>1, <1>2, <1>3, <1>4, <1>5, <1>6 DEF Inv, OneOwner, Others, UnderFence
<1>9. FreshRuns'
      BY <1>1, <1>2, <1>3, <1>4, <1>5, <1>6
      DEF Inv, FreshRuns, Others, Publishing, Done, Published, UnderFence
<1>10. PublishedInPlace'
      BY <1>1, <1>2, <1>3, <1>4, <1>5, <1>6 DEF Inv, PublishedInPlace, Others, Published, UnderFence
<1>11. Exclusion'
      BY <1>1, <1>2, <1>3, <1>4, <1>5, <1>6 DEF Inv, Exclusion, Others
<1>12. LockHolderSeesTree'
      BY <1>1, <1>2, <1>3, <1>4, <1>5, <1>6
      DEF Inv, LockHolderSeesTree, Others, Waiting, UnderFence, Intact, Untouched
<1>13. MovesWhatItLocked'
      BY <1>1, <1>2, <1>3, <1>4, <1>5, <1>6 DEF Inv, MovesWhatItLocked, Others, UnderFence
<1>14. StageMatchesGraph'
      BY <1>1, <1>2, <1>3, <1>4, <1>5, <1>6
      DEF Inv, StageMatchesGraph, Others, UnderFence, Unchanged, Holding
<1>15. ReceiptMatchesTree'
      BY <1>1, <1>2, <1>3, <1>4, <1>5, <1>6 DEF Inv, ReceiptMatchesTree, Others, Nothing, UnderFence
<1>16. CoherentUnlessFenced'
      BY <1>1, <1>2, <1>3, <1>4, <1>5, <1>6
      DEF Inv, CoherentUnlessFenced, Others, UnderFence, Untouched, Coherent
<1>17. SecondLook'
      BY <1>1, <1>2, <1>3, <1>4, <1>5, <1>6 DEF Inv, SecondLook, Others, Coherent
<1>18. LeaseKeepsTree'
      BY <1>1, <1>2, <1>3, <1>4, <1>5, <1>6 DEF Inv, LeaseKeepsTree, Others
<1>19. RegistryRetained'
      BY <1>1, <1>2, <1>3, <1>4, <1>5, <1>6 DEF Inv, RegistryRetained, Others
<1> QED BY <1>7, <1>8, <1>9, <1>10, <1>11, <1>12, <1>13, <1>14, <1>15, <1>16, <1>17, <1>18, <1>19
        DEF Inv

\* The operation lock is removed by its owner.
LEMMA UnlockInv ==
    ASSUME Inv, NEW p \in Proc, Unlock(p), TypeInv', ControlInv'
    PROVE  Inv'
<1>1. /\ Others(p) /\ proc'[p].pc = "idle" /\ proc'[p].run = 0 /\ proc'[p].graph.id = 0
      /\ ~proc'[p].lease
      /\ proc'[p].pass = 1 /\ proc'[p].locked = {}
  <2>1. Others(p) /\ proc'[p] = Idle(NoLock)
        BY SetOne DEF Inv, Unlock, End, Others
  <2> QED BY <2>1 DEF Idle, NoLock
<1>2. UNCHANGED <<cargoLock, vendor, config, manifest, fence, staged, contents, committed>>
      /\ lockFile' = 0
      BY DEF Unlock, Disk, public
<1>3. cargoLock.id \in Nat /\ \A q \in Proc : proc[q].pc \in Holding => proc[q].run # 0
      BY DEF Inv, TypeInv, TypeOK, ControlInv, Control
<1>4. OwnRuns'
      BY <1>1, <1>2, <1>3 DEF Inv, OwnRuns, Others
<1>5. OneOwner'
      BY <1>1, <1>2, <1>3 DEF Inv, OneOwner, Others, UnderFence
<1>6. FreshRuns'
      BY <1>1, <1>2, <1>3 DEF Inv, FreshRuns, Others, Publishing, Done, Published, UnderFence
<1>7. PublishedInPlace'
      BY <1>1, <1>2, <1>3 DEF Inv, PublishedInPlace, Others, Published, UnderFence
<1>8. Exclusion'
      BY <1>1, <1>2, <1>3 DEF Inv, Exclusion, Others
<1>9. LockHolderSeesTree'
      BY <1>1, <1>2, <1>3
      DEF Inv, LockHolderSeesTree, Others, Waiting, UnderFence, Intact, Untouched, Holding
<1>10. MovesWhatItLocked'
      BY <1>1, <1>2, <1>3 DEF Inv, MovesWhatItLocked, Others, UnderFence
<1>11. StageMatchesGraph'
      BY <1>1, <1>2, <1>3 DEF Inv, StageMatchesGraph, Others, UnderFence, Unchanged
<1>12. ReceiptMatchesTree'
      BY <1>1, <1>2, <1>3 DEF Inv, ReceiptMatchesTree, Others, Nothing, UnderFence
<1>13. CoherentUnlessFenced'
      BY <1>1, <1>2, <1>3 DEF Inv, CoherentUnlessFenced, Others, UnderFence, Untouched, Coherent
<1>14. SecondLook'
      BY <1>1, <1>2, <1>3 DEF Inv, SecondLook, Others, Coherent
<1>15. LeaseKeepsTree'
      BY <1>1, <1>2, <1>3 DEF Inv, LeaseKeepsTree, Others
<1>16. RegistryRetained'
      BY <1>1, <1>2, <1>3 DEF Inv, RegistryRetained, Others
<1> QED BY <1>4, <1>5, <1>6, <1>7, <1>8, <1>9, <1>10, <1>11, <1>12, <1>13, <1>14, <1>15, <1>16
        DEF Inv
---------------------------------------------------------------------------
(* What a person does *)

\* An edit of the lock file gives it a new identity.
LEMMA EditLockInv ==
    ASSUME Inv, EditLock, TypeInv'
    PROVE  Inv'
<1>1. UNCHANGED <<vendor, config, manifest, fence, lockFile, staged, contents, proc, committed>>
      BY DEF EditLock, public
<1>2. cargoLock'.id = cargoLock.id + 1 /\ cargoLock.id \in Nat
      BY DEF EditLock, Inv, TypeInv, TypeOK
<1>3. \A p \in Proc : proc[p].graph.id \in Nat
      BY DEF Inv, TypeInv, TypeOK, Locals, NoLock
<1>4. StageMatchesGraph'
      BY <1>1, <1>2, <1>3 DEF Inv, StageMatchesGraph, Unchanged
<1>5. ControlInv'
      BY <1>1 DEF Inv, ControlInv
<1>6. (OwnRuns /\ OneOwner /\ FreshRuns /\ PublishedInPlace /\ Exclusion)'
      BY <1>1 DEF Inv, OwnRuns, OneOwner, FreshRuns, Publishing, PublishedInPlace, Exclusion
<1>7. (LockHolderSeesTree /\ MovesWhatItLocked /\ ReceiptMatchesTree /\ CoherentUnlessFenced)'
      BY <1>1 DEF Inv, LockHolderSeesTree, Intact, Untouched, MovesWhatItLocked, ReceiptMatchesTree,
                  Nothing, CoherentUnlessFenced, Coherent
<1>8. (SecondLook /\ LeaseKeepsTree /\ RegistryRetained)'
      BY <1>1 DEF Inv, SecondLook, Coherent, LeaseKeepsTree, RegistryRetained
<1> QED BY <1>4, <1>5, <1>6, <1>7, <1>8 DEF Inv

\* An operation whose lock was removed cannot get it back.
LEMMA RemoveLockInv ==
    ASSUME Inv, RemoveLock, TypeInv'
    PROVE  Inv'
<1>1. /\ UNCHANGED <<cargoLock, vendor, config, manifest, fence, staged, contents, proc, committed>>
      /\ lockFile' = 0
      BY DEF RemoveLock, public
<1>2. \A p \in Proc : proc[p].pc \in Waiting => proc[p].run # 0
      BY DEF Inv, ControlInv, Control, Waiting, Holding, UnderFence
<1>3. LockHolderSeesTree'
      BY <1>1, <1>2 DEF LockHolderSeesTree, Intact
<1>4. ControlInv'
      BY <1>1 DEF Inv, ControlInv
<1>5. (OwnRuns /\ OneOwner /\ FreshRuns /\ PublishedInPlace /\ Exclusion)'
      BY <1>1 DEF Inv, OwnRuns, OneOwner, FreshRuns, Publishing, PublishedInPlace, Exclusion
<1>6. (StageMatchesGraph /\ MovesWhatItLocked /\ ReceiptMatchesTree /\ CoherentUnlessFenced)'
      BY <1>1
      DEF Inv, StageMatchesGraph, Unchanged, Untouched, MovesWhatItLocked, ReceiptMatchesTree,
                  Nothing, CoherentUnlessFenced, Coherent
<1>7. (SecondLook /\ LeaseKeepsTree /\ RegistryRetained)'
      BY <1>1 DEF Inv, SecondLook, Coherent, LeaseKeepsTree, RegistryRetained
<1> QED BY <1>3, <1>4, <1>5, <1>6, <1>7 DEF Inv

\* The last publication is put back while nobody is there to see it.
LEMMA ReconcileInv ==
    ASSUME Inv, Reconcile, TypeInv'
    PROVE  Inv'
<1>1. /\ UNCHANGED <<cargoLock, contents, proc, committed>>
      /\ vendor' = committed /\ config' = Restored(config) /\ manifest' = Restored(manifest)
      /\ staged' = staged \ {committed}
      BY DEF Reconcile
<1>2. \A p \in Proc : /\ proc'[p] = proc[p] /\ proc[p].pc = "idle" /\ proc[p].run = 0
                      /\ ~proc[p].lease /\ proc[p].pass # 2 /\ proc[p].locked = {}
      BY <1>1 DEF Reconcile, At, Inv, ControlInv, Control, Holding, UnderFence
<1>3. \A file \in ControlFile : Restored(file).of = committed
      BY DEF Restored, Nothing
<1>4. Coherent'
      BY <1>1, <1>3 DEF Coherent, Inv, TypeInv, TypeOK
<1>5. ReceiptMatchesTree'
  <2>1. manifest' # Nothing => manifest'.digest = contents[manifest'.of]
    <3>1. CASE manifest.of = committed
          BY <1>1, <3>1 DEF Restored, Inv, ReceiptMatchesTree
    <3>2. CASE manifest.of # committed /\ committed # 0
          BY <1>1, <3>2 DEF Restored
    <3>3. CASE manifest.of # committed /\ committed = 0
          BY <1>1, <3>3 DEF Restored
    <3> QED BY <3>1, <3>2, <3>3
  <2> QED BY <1>1, <1>2, <2>1 DEF ReceiptMatchesTree, Nothing
<1>6. ControlInv'
      BY <1>1 DEF Inv, ControlInv
<1>7. (OwnRuns /\ OneOwner /\ FreshRuns /\ PublishedInPlace /\ Exclusion)'
      BY <1>2
      DEF OwnRuns, OneOwner, FreshRuns, Publishing, PublishedInPlace, Published, UnderFence,
          Exclusion
<1>8. (LockHolderSeesTree /\ MovesWhatItLocked /\ CoherentUnlessFenced)'
      BY <1>2, <1>4 DEF LockHolderSeesTree, Waiting, MovesWhatItLocked, CoherentUnlessFenced
<1>9. StageMatchesGraph'
      BY <1>1, <1>2 DEF Inv, StageMatchesGraph, UnderFence
<1>10. (SecondLook /\ LeaseKeepsTree /\ RegistryRetained)'
      BY <1>1, <1>2 DEF SecondLook, LeaseKeepsTree, RegistryRetained
<1> QED BY <1>5, <1>6, <1>7, <1>8, <1>9, <1>10 DEF Inv

---------------------------------------------------------------------------
(* The theorems *)

\* Nobody runs and nothing is published at the start.
LEMMA InvInit == Init => Inv
<1> SUFFICES ASSUME Init PROVE Inv
    OBVIOUS
<1>1. /\ vendor = 0 /\ committed = 0 /\ config = Nothing /\ manifest = Nothing
      /\ cargoLock \in [content : Lockfile, id : {0}]
      BY DEF Init
<1>2. \A p \in Proc : proc[p] = Idle(NoLock)
      BY DEF Init
<1>3. \A p \in Proc : /\ proc[p].pc = "idle" /\ proc[p].run = 0 /\ proc[p].graph.id = 0
                      /\ ~proc[p].lease /\ proc[p].pass # 2 /\ proc[p].locked = {}
      BY <1>2 DEF Idle, NoLock
<1>4. ControlInv
      BY <1>2 DEF ControlInv, Control, Idle, Holding, UnderFence, Done, Published
<1>5. OwnRuns /\ OneOwner /\ FreshRuns /\ PublishedInPlace /\ Exclusion
      BY <1>3
      DEF OwnRuns, OneOwner, FreshRuns, Publishing, PublishedInPlace, Published, UnderFence,
          Exclusion
<1>6. LockHolderSeesTree /\ MovesWhatItLocked /\ StageMatchesGraph /\ SecondLook /\ LeaseKeepsTree
      BY <1>1, <1>3
      DEF LockHolderSeesTree, Waiting, MovesWhatItLocked, StageMatchesGraph, UnderFence,
                        SecondLook, LeaseKeepsTree
<1>7. ReceiptMatchesTree /\ CoherentUnlessFenced /\ RegistryRetained
      BY <1>1, <1>3
      DEF ReceiptMatchesTree, CoherentUnlessFenced, Coherent, Nothing, RegistryRetained
<1> QED BY <1>4, <1>5, <1>6, <1>7, TypeInit DEF Inv

\* Every step of a command keeps the invariant.
LEMMA CommandInv ==
    ASSUME Inv, NEW p \in Proc, Read(p) \/ Publish(p) \/ Fault(p)
    PROVE  Inv'
<1>0. TypeInv /\ ControlInv /\ Control(proc[p])
      BY DEF Inv, ControlInv
<1>1. CASE Read(p)
      BY <1>0, <1>1, ReadType, ReadControl, ReadQuiet, QuietInv
<1>2. CASE Fault(p)
  <2>1. TypeInv'
        BY <1>0, <1>2, FaultType
  <2>2. CASE Crash(p)
    <3>1. Control(proc'[p])
          BY <1>0, <2>2, SetOne, MoveControl DEF Crash, End
    <3> QED BY <2>1, <2>2, <3>1, IdleQuiet, QuietInv
  <2>3. CASE Fail(p) \/ FailToClear(p)
    <3>1. Others(p) /\ Control(proc'[p])
          BY <1>0, <2>3, AbortControl, SetOne DEF Fail, Abort, FailToClear, Others
    <3> QED BY <1>0, <2>1, <2>3, <3>1, OthersControl, EndsAreLeaves, LeaveInv
  <2> QED BY <1>2, <2>2, <2>3 DEF Fault
<1>3. CASE Publish(p)
  <2>1. proc[p].pc \in UnderFence \cup {"populate"} => proc[p].run # 0
        BY <1>0 DEF Control, Holding
  <2>2. TypeInv'
    <3>1. CASE GiveUp(p)
          BY <1>0, <3>1, FaultType
    <3>2. CASE Acquire(p) \/ Populate(p)
          BY <1>0, <2>1, <3>2, AcquireType, PopulateType DEF Populate, At
    <3>3. CASE ~(GiveUp(p) \/ Acquire(p) \/ Populate(p))
          BY <1>0, <1>3, <2>1, <3>3, ProvisionType, CommitType DEF Publish
    <3> QED BY <3>1, <3>2, <3>3
  <2>3. Control(proc'[p])
        BY <1>0, <1>3, PublishControl
  <2>4. Others(p)
        BY <1>0, <1>3, SetOne
        DEF Publish, Provision, SeeNoFence, Acquire, Reuse, LockPrevious, Populate, Validate,
            CheckBeforeFence, CreateFence, CheckUnderFence, MoveOld, PublishTree, WriteConfig,
            WriteManifest, CheckPublished, ClearFence, Retire, Release, Unlock, GiveUp, Abort,
            Goto, End, Others
  <2>5. ControlInv'
        BY <1>0, <2>3, <2>4, OthersControl
  <2>6. CASE \/ Provision(p) \/ SeeNoFence(p) \/ Reuse(p) \/ Release(p)
             \/ Acquire(p) /\ UNCHANGED contents
        BY <2>2, <2>3, <2>6, IdleQuiet, QuietInv
  <2>7. CASE Acquire(p) /\ ~UNCHANGED contents
        BY <2>2, <2>5, <2>7, AcquireInv
  <2>8. CASE LockPrevious(p) \/ Populate(p) \/ Validate(p)
        BY <2>2, <2>5, <2>8, LockPreviousInv, PopulateInv, ValidateInv
  <2>9. CASE CheckBeforeFence(p) \/ CreateFence(p) \/ CheckUnderFence(p)
        BY <2>2, <2>5, <2>9, CheckBeforeFenceInv, CreateFenceInv, CheckUnderFenceInv
  <2>10. CASE MoveOld(p) \/ PublishTree(p) \/ WriteConfig(p) \/ WriteManifest(p)
        BY <2>2, <2>5, <2>10, MoveOldInv, PublishTreeInv, WriteConfigInv, WriteManifestInv
  <2>11. CASE CheckPublished(p) \/ ClearFence(p) \/ Unlock(p)
        BY <2>2, <2>5, <2>11, CheckPublishedInv, ClearFenceInv, UnlockInv
  <2>12. CASE Retire(p) \/ GiveUp(p)
        BY <2>2, <2>5, <2>12, EndsAreLeaves, LeaveInv
  <2> QED BY <1>3, <2>6, <2>7, <2>8, <2>9, <2>10, <2>11, <2>12 DEF Publish
<1> QED BY <1>1, <1>2, <1>3

\* The invariant is inductive.
LEMMA InvNext == Inv /\ [Next]_vars => Inv'
<1> SUFFICES ASSUME Inv, [Next]_vars PROVE Inv'
    OBVIOUS
<1>1. CASE \E p \in Proc : Read(p) \/ Publish(p) \/ Fault(p)
      BY <1>1, CommandInv
<1>2. CASE EditLock \/ RemoveLock \/ Reconcile
      BY <1>2, PersonType, EditLockInv, RemoveLockInv, ReconcileInv DEF Inv
<1>3. CASE UNCHANGED vars
  <2>1. UNCHANGED <<cargoLock, vendor, config, manifest, fence, lockFile, staged, contents, proc,
                    committed, acts, faults>>
        BY <1>3 DEF vars, public
  <2>2. TypeInv'
    <3>1. Disk /\ proc' \in [Proc -> Locals]
          BY <2>1 DEF Disk, public, Inv, TypeInv, TypeOK
    <3> QED BY <3>1, DiskType DEF Inv
  <2>3. (ControlInv /\ OwnRuns /\ OneOwner /\ FreshRuns /\ PublishedInPlace /\ Exclusion)'
        BY <2>1
        DEF Inv, ControlInv, OwnRuns, OneOwner, FreshRuns, Publishing, PublishedInPlace, Exclusion
  <2>4. (StageMatchesGraph /\ MovesWhatItLocked /\ ReceiptMatchesTree /\ CoherentUnlessFenced)'
        BY <2>1
        DEF Inv, StageMatchesGraph, Unchanged, Untouched, MovesWhatItLocked, ReceiptMatchesTree,
                    Nothing, CoherentUnlessFenced, Coherent
  <2>5. (LockHolderSeesTree /\ SecondLook /\ LeaseKeepsTree /\ RegistryRetained)'
        BY <2>1
        DEF Inv, LockHolderSeesTree, Intact, Untouched, SecondLook, Coherent, LeaseKeepsTree,
                    RegistryRetained
  <2> QED BY <2>2, <2>3, <2>4, <2>5 DEF Inv
<1> QED BY <1>1, <1>2, <1>3 DEF Next

\* The invariant holds throughout.
LEMMA InvCorrect == Spec => []Inv
BY InvInit, InvNext, PTL DEF Spec

\* The public files, the stages and the locals of every command are always
\* well typed, whatever the number of commands and operations.
THEOREM TypeCorrect == Spec => []TypeOK
<1>1. Inv => TypeOK
      BY DEF Inv, TypeInv
<1> QED BY <1>1, InvCorrect, PTL

\* read_lease keeps the tree a reader opened where it is: no publication moves
\* it away, even one whose operation lock a person removed.
THEOREM LeasedTreeStays == Spec => []LeaseKeepsTree
<1>1. Inv => LeaseKeepsTree
      BY DEF Inv
<1> QED BY <1>1, InvCorrect, PTL

\* Publication::commit and its failures never lose the tree of the last
\* complete publication.
THEOREM LastRegistryRetained == Spec => []RegistryRetained
<1>1. Inv => RegistryRetained
      BY DEF Inv
<1> QED BY <1>1, InvCorrect, PTL

\* check_at reports ready only what one publication left: the tree it leased
\* is in place, was populated for the lock file it read, and the configuration
\* and the receipt it read twice were written with that tree.
THEOREM ReadyCoherent == Spec => []ReadyIsCoherent
<1>1. ASSUME Inv PROVE ReadyIsCoherent
  <2> SUFFICES ASSUME NEW p \in Proc, proc[p].pc = "ready"
               PROVE  /\ vendor = proc[p].tree
                      /\ contents[proc[p].tree] = proc[p].graph.content
                      /\ \A file \in {proc[p].seen.manifest, proc[p].seen.config} :
                             file.of = proc[p].tree
      BY DEF ReadyIsCoherent, At
  <2>1. proc[p].pass = 2 /\ proc[p].lease /\ proc[p].tree # 0
        BY <1>1 DEF Inv, ControlInv, Control
  <2>2. vendor = proc[p].tree
        BY <1>1, <2>1 DEF Inv, LeaseKeepsTree
  <2>3. /\ Coherent /\ proc[p].seen.manifest = manifest /\ proc[p].seen.config = config
        /\ manifest.digest = proc[p].graph.content
        BY <1>1, <2>1 DEF Inv, SecondLook
  <2>4. manifest # Nothing
        BY <2>1, <2>2, <2>3 DEF Coherent, Nothing
  <2>5. manifest.digest = contents[manifest.of]
        BY <1>1, <2>4 DEF Inv, ReceiptMatchesTree
  <2> QED BY <2>2, <2>3, <2>5 DEF Coherent
<1> QED BY <1>1, InvCorrect, PTL
=============================================================================
