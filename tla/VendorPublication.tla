--------------------------- MODULE VendorPublication ---------------------------
(***************************************************************************)
(* The vendored crates of a project (dependencies/src/rust.rs,             *)
(* publication.rs): the tree .kvist/vendored, the resolver configuration   *)
(* and the receipt are three files of one publication, replaced one after  *)
(* the other.  Commands provision them, check that they are ready, or hold *)
(* a lease on the tree while a sandboxed tool reads it; a person edits     *)
(* Cargo.lock and cleans up after interrupted commands.                    *)
(*                                                                         *)
(* Provisioning operations are numbered.  The number also names what the   *)
(* operation creates: its operation lock, its tree and, as their file      *)
(* identity, its configuration and receipt.  The locked graph has external *)
(* packages, and the destination is the default one.                       *)
(***************************************************************************)
EXTENDS Naturals, FiniteSets

CONSTANTS
    Proc,          \* processes, each running one command at a time
    Lockfile,      \* contents of Cargo.lock
    Packages,      \* the packages such a content locks
    MaxOperations, \* bound: provisioning operations
    MaxActs,       \* bound: what a person does
    MaxFaults      \* bound: crashes, failed calls, cancellations

ASSUME VendorAssumption ==
    /\ DOMAIN Packages = Lockfile
    /\ MaxOperations \in Nat /\ MaxActs \in Nat /\ MaxFaults \in Nat

VARIABLES
    cargoLock,     \* Cargo.lock: content and file identity
    vendor,        \* the operation whose tree is .kvist/vendored, or 0
    config,        \* sandbox-cargo/config.toml: publication and identity
    manifest,      \* vendor.json, likewise
    fence,         \* the directory vendor-publication exists
    lockFile,      \* the operation whose vendor-operation.lock exists, or 0
    staged,        \* trees in private stages, of live and of dead operations
    contents,      \* for which lock file each tree was populated
    proc,          \* the commands
    committed,     \* history: the publication completed or restored last
    acts, faults

public == <<vendor, config, manifest>>
vars == <<cargoLock, public, fence, lockFile, staged, contents, proc,
          committed, acts, faults>>

\* A control file: whose it is, its identity and the lock file it names.
Nothing == [of |-> 0, id |-> 0, digest |-> "none"]
NoLock == [content |-> "none", id |-> 0]
Operations == DOMAIN contents
NextOperation == Cardinality(Operations) + 1

\* The locals of a command: graph is the lock file it read first, pass its
\* first or second look at the controls, seen what the first one found, tree
\* the directory it opened, lease its shared lock on that, run its operation,
\* locked the trees it locked exclusively, previous the tree it found and old
\* the one it moved into its stage.
Idle(lock) ==
    [pc |-> "idle", kind |-> "check", graph |-> lock, force |-> FALSE,
     pass |-> 1, seen |-> [manifest |-> Nothing, config |-> Nothing],
     tree |-> 0, lease |-> FALSE, run |-> 0, locked |-> {}, previous |-> 0,
     old |-> 0, published |-> FALSE]

At(p, label) == proc[p].pc = label
Set(p, locals) == proc' = [proc EXCEPT ![p] = locals]
Goto(p, label) == Set(p, [proc[p] EXCEPT !.pc = label])
End(p) == Set(p, Idle(NoLock))

\* The locks on the trees go, the operation lock is next.
Released(p) == [Idle(proc[p].graph) EXCEPT !.run = proc[p].run, !.pc = "release"]

\* LockedGraph::unchanged compares bytes and identity.
Unchanged(p) == cargoLock = proc[p].graph

Free(tree, p) ==
    \A q \in Proc \ {p} :
        tree \notin proc[q].locked /\ ~(proc[q].lease /\ proc[q].tree = tree)

---------------------------------------------------------------------------
(* Readiness: check_at and check_view *)

Disk == UNCHANGED <<cargoLock, public, fence, lockFile, staged, contents,
                    committed, acts, faults>>

\* A tool takes its lease first and is checked under it.  The lease of that
\* check itself is then of the same tree, and one stands for both.
Start(p) ==
    /\ At(p, "idle")
    /\ \E kind \in {"check", "use"} :
          Set(p, [Idle(cargoLock) EXCEPT !.kind = kind,
                     !.pc = IF kind = "use" THEN "open" ELSE "fence"])
    /\ Disk

\* What a failed check leads to.  A provisioning that found nothing to reuse
\* goes on, before it has the operation lock or under it.
Refuse(p) ==
    IF proc[p].kind = "provision"
    THEN Set(p, [proc[p] EXCEPT !.lease = FALSE, !.tree = 0, !.pass = 1,
                    !.pc = IF proc[p].run = 0 THEN "clear" ELSE "previous"])
    ELSE End(p)

\* state_clear
SeeFence(p) ==
    /\ At(p, "fence")
    /\ IF fence THEN Refuse(p) ELSE Goto(p, "writer")
    /\ Disk

\* refuse_writer: an operation does not refuse itself.
SeeWriter(p) ==
    /\ At(p, "writer")
    /\ IF lockFile = 0 \/ proc[p].run # 0 THEN Goto(p, "receipt")
       ELSE IF proc[p].kind = "provision" THEN End(p) ELSE Refuse(p)
    /\ Disk

\* Mutant: the second look does not compare file identities.
SameFileByName(p, file, seen) == file # Nothing

\* confirm_controls
SameFile(p, file, seen) == proc[p].pass = 1 \/ file = seen

\* validate_manifest
SeeManifest(p) ==
    /\ At(p, "receipt")
    /\ IF /\ manifest # Nothing
          /\ manifest.digest = proc[p].graph.content
          /\ SameFile(p, manifest, proc[p].seen.manifest)
       THEN Set(p, [proc[p] EXCEPT !.seen.manifest = manifest, !.pc = "resolver"])
       ELSE Refuse(p)
    /\ Disk

\* The second look at the configuration ends the check.
SeeConfig(p) ==
    /\ At(p, "resolver")
    /\ IF config # Nothing /\ SameFile(p, config, proc[p].seen.config)
       THEN IF proc[p].pass = 2
            THEN Goto(p, "ready")
            ELSE Set(p, [proc[p] EXCEPT !.seen.config = config,
                            !.pc = IF proc[p].lease THEN "catalogue" ELSE "open"])
       ELSE Refuse(p)
    /\ Disk

\* read_lease: open the directory, lock it, and see that it is still there.
Open(p) ==
    /\ At(p, "open")
    /\ IF vendor # 0
       THEN Set(p, [proc[p] EXCEPT !.tree = vendor, !.pc = "lease"])
       ELSE Refuse(p)
    /\ Disk

Lease(p) ==
    /\ At(p, "lease")
    /\ LET tree == proc[p].tree
       IN  IF vendor = tree /\ \A q \in Proc : tree \notin proc[q].locked
           THEN IF proc[p].kind = "use"
                THEN Set(p, [proc[p] EXCEPT !.lease = TRUE, !.graph = cargoLock,
                                            !.pc = "fence"])
                ELSE Set(p, [proc[p] EXCEPT !.lease = TRUE, !.pc = "catalogue"])
           ELSE Refuse(p)
    /\ Disk

\* Package names and versions are compared, not the files' contents.
Catalogue(p) ==
    /\ At(p, "catalogue")
    /\ IF /\ Packages[contents[proc[p].tree]] = Packages[proc[p].graph.content]
          /\ vendor = proc[p].tree
          /\ Unchanged(p)
       THEN Set(p, [proc[p] EXCEPT !.pass = 2, !.pc = "fence"])
       ELSE Refuse(p)
    /\ Disk

\* The report is returned, or the tool is done: the lease is dropped.
Ready(p) ==
    /\ At(p, "ready")
    /\ IF proc[p].run = 0 THEN End(p)
       ELSE Set(p, Released(p))
    /\ Disk

---------------------------------------------------------------------------
(* provision_with, up to the publication *)

\* Whether there is a receipt decides if a reuse is tried before the lock.
Provision(p) ==
    /\ At(p, "idle")
    /\ ~fence /\ lockFile = 0
    /\ NextOperation <= MaxOperations
    /\ \E force \in BOOLEAN :
          Set(p, [Idle(cargoLock) EXCEPT !.kind = "provision", !.force = force,
                     !.pc = IF manifest # Nothing /\ ~force THEN "fence" ELSE "clear"])
    /\ Disk

SeeNoFence(p) ==
    /\ At(p, "clear")
    /\ IF fence THEN End(p) ELSE Goto(p, "acquire")
    /\ Disk

\* Operation::acquire never takes an existing lock over.
Acquire(p) ==
    /\ At(p, "acquire")
    /\ IF lockFile = 0 /\ NextOperation <= MaxOperations
       THEN LET run == NextOperation
            IN  /\ lockFile' = run
                /\ contents' = [o \in Operations \cup {run} |->
                                   IF o = run THEN cargoLock.content ELSE contents[o]]
                /\ Set(p, [proc[p] EXCEPT !.run = run, !.pc = "acquired"])
       ELSE End(p) /\ UNCHANGED <<lockFile, contents>>
    /\ UNCHANGED <<cargoLock, public, fence, staged, committed, acts, faults>>

\* Another operation may have published since the first check.
Reuse(p) ==
    /\ At(p, "acquired") /\ Unchanged(p)
    /\ Set(p, [proc[p] EXCEPT !.pass = 1,
                  !.pc = IF manifest # Nothing /\ ~proc[p].force
                         THEN "fence" ELSE "previous"])
    /\ Disk

\* Mutant: the lock on the tree excludes other writers only.
CanLockPreviousRead(p) == \A q \in Proc \ {p} : vendor \notin proc[q].locked

CanLockPrevious(p) == Free(vendor, p)

LockPrevious(p) ==
    /\ At(p, "previous")
    /\ vendor = 0 \/ CanLockPrevious(p)
    /\ Set(p, [proc[p] EXCEPT !.previous = vendor, !.locked = {vendor} \ {0},
                              !.pc = "populate"])
    /\ Disk

\* The backend fills a private stage from the lock file; the new tree is
\* locked before anybody else can open it.
Populate(p) ==
    /\ At(p, "populate")
    /\ LET run == proc[p].run
       IN  /\ staged' = staged \cup {run}
           /\ contents' = [contents EXCEPT ![run] = cargoLock.content]
           /\ Set(p, [proc[p] EXCEPT !.locked = @ \cup {run}, !.pc = "validate"])
    /\ UNCHANGED <<cargoLock, public, fence, lockFile, committed, acts, faults>>

Intact(p) == lockFile = proc[p].run

Validate(p) ==
    /\ At(p, "validate") /\ Unchanged(p) /\ Intact(p)
    /\ Goto(p, "commit")
    /\ Disk

---------------------------------------------------------------------------
(* Publication::commit *)

Precondition(p) ==
    /\ Unchanged(p) /\ Intact(p)
    /\ proc[p].published \/ proc[p].previous = 0 \/ vendor = proc[p].previous

CheckBeforeFence(p) ==
    /\ At(p, "commit") /\ Precondition(p)
    /\ Goto(p, "mkfence")
    /\ Disk

CreateFence(p) ==
    /\ At(p, "mkfence") /\ ~fence
    /\ fence' = TRUE
    /\ Goto(p, "fenced")
    /\ UNCHANGED <<cargoLock, public, lockFile, staged, contents, committed,
                   acts, faults>>

CheckUnderFence(p) ==
    /\ At(p, "fenced") /\ Precondition(p)
    /\ Goto(p, "move")
    /\ Disk

\* Mutant: the rename is not conditional on the old tree's existence.
MoveOldAlways(p) ==
    /\ At(p, "move")
    /\ staged' = staged \cup {vendor}
    /\ vendor' = 0
    /\ Set(p, [proc[p] EXCEPT !.old = vendor, !.pc = "publish"])
    /\ UNCHANGED <<cargoLock, config, manifest, fence, lockFile, contents,
                   committed, acts, faults>>

MoveOld(p) ==
    /\ At(p, "move")
    /\ staged' = staged \cup ({vendor} \ {0})
    /\ vendor' = 0
    /\ Set(p, [proc[p] EXCEPT !.old = vendor, !.pc = "publish"])
    /\ UNCHANGED <<cargoLock, config, manifest, fence, lockFile, contents,
                   committed, acts, faults>>

\* A directory that appeared since is not replaced by the rename.
PublishTree(p) ==
    /\ At(p, "publish") /\ vendor = 0
    /\ vendor' = proc[p].run
    /\ staged' = staged \ {proc[p].run}
    /\ Set(p, [proc[p] EXCEPT !.published = TRUE, !.pc = "config"])
    /\ UNCHANGED <<cargoLock, config, manifest, fence, lockFile, contents,
                   committed, acts, faults>>

Written(p) ==
    [of |-> proc[p].run, id |-> proc[p].run, digest |-> proc[p].graph.content]

WriteConfig(p) ==
    /\ At(p, "config") /\ Unchanged(p)
    /\ config' = Written(p)
    /\ Goto(p, "manifest")
    /\ UNCHANGED <<cargoLock, vendor, manifest, fence, lockFile, staged,
                   contents, committed, acts, faults>>

WriteManifest(p) ==
    /\ At(p, "manifest") /\ Unchanged(p)
    /\ manifest' = Written(p)
    /\ Goto(p, "last")
    /\ UNCHANGED <<cargoLock, vendor, config, fence, lockFile, staged,
                   contents, committed, acts, faults>>

CheckPublished(p) ==
    /\ At(p, "last") /\ Precondition(p)
    /\ Goto(p, "uncover")
    /\ Disk

ClearFence(p) ==
    /\ At(p, "uncover")
    /\ fence' = FALSE
    /\ committed' = proc[p].run
    /\ Goto(p, "retire")
    /\ UNCHANGED <<cargoLock, public, lockFile, staged, contents, acts, faults>>

Stage(p) == {proc[p].run, proc[p].old}

\* The private stage goes, the old tree with it, then the locks on the trees.
Retire(p) ==
    /\ At(p, "retire")
    /\ staged' = staged \ Stage(p)
    /\ Set(p, Released(p))
    /\ UNCHANGED <<cargoLock, public, fence, lockFile, contents, committed,
                   acts, faults>>

\* Operation::drop removes the file only if it looks like its own.
Release(p) ==
    /\ At(p, "release")
    /\ IF Intact(p) THEN Goto(p, "unlock") ELSE End(p)
    /\ Disk

Unlock(p) ==
    /\ At(p, "unlock")
    /\ lockFile' = 0
    /\ End(p)
    /\ UNCHANGED <<cargoLock, public, fence, staged, contents, committed, acts,
                   faults>>

---------------------------------------------------------------------------
(* Failures *)

BeforeFence == {"acquired", "previous", "populate", "validate", "commit", "mkfence"}
UnderFence == {"fenced", "move", "publish", "config", "manifest", "last", "uncover"}

\* Nothing public changed yet.
Untouched(p) == proc[p].old = 0 /\ ~proc[p].published

Discard(p) == staged' = staged \ Stage(p)

\* Mutant: the stage goes with the operation, whatever it holds.
KeepNothing(p) == staged' = staged \ Stage(p)

\* Error::Publication: the stage is kept for a person to look at.
Keep(p) == UNCHANGED staged

Abort(p) ==
    /\ \/ proc[p].pc \in UnderFence /\ Untouched(p)
             /\ fence' = FALSE /\ Discard(p)
       \/ proc[p].pc \in UnderFence /\ ~Untouched(p)
             /\ UNCHANGED fence /\ Keep(p)
       \/ proc[p].pc \in BeforeFence /\ UNCHANGED fence /\ Discard(p)
    /\ Set(p, Released(p))
    /\ UNCHANGED <<cargoLock, public, lockFile, contents, committed, acts>>

\* A condition of the code does not hold.
GiveUp(p) ==
    /\ \/ At(p, "acquired") /\ ~Unchanged(p)
       \/ At(p, "previous") /\ vendor # 0 /\ ~CanLockPrevious(p)
       \/ At(p, "validate") /\ ~(Unchanged(p) /\ Intact(p))
       \/ proc[p].pc \in {"commit", "fenced", "last"} /\ ~Precondition(p)
       \/ At(p, "mkfence") /\ fence
       \/ proc[p].pc \in {"config", "manifest"} /\ ~Unchanged(p)
    /\ Abort(p)
    /\ UNCHANGED faults

\* A call fails, or the operation is cancelled.
Fail(p) ==
    /\ faults < MaxFaults /\ faults' = faults + 1
    /\ Abort(p)

\* Removing the fence fails, of an operation that changed nothing or after
\* the last step of one, where the fence is made again if it was gone already;
\* or the new fence cannot be opened, and stays without naming a stage.
FailToClear(p) ==
    /\ faults < MaxFaults /\ faults' = faults + 1
    /\ \/ proc[p].pc \in UnderFence /\ Untouched(p) /\ UNCHANGED fence /\ Keep(p)
       \/ At(p, "retire") /\ fence' \in {fence, TRUE} /\ Keep(p)
       \/ At(p, "fenced") /\ UNCHANGED fence /\ Discard(p)
    /\ Set(p, Released(p))
    /\ UNCHANGED <<cargoLock, public, lockFile, contents, committed, acts>>

\* Files stay, locks on directories do not.
Crash(p) ==
    /\ ~At(p, "idle")
    /\ faults < MaxFaults /\ faults' = faults + 1
    /\ End(p)
    /\ UNCHANGED <<cargoLock, public, fence, lockFile, staged, contents,
                   committed, acts>>

---------------------------------------------------------------------------
(* A person *)

Act == acts < MaxActs /\ acts' = acts + 1

EditLock ==
    /\ Act
    /\ \E content \in Lockfile :
          cargoLock' = [content |-> content, id |-> cargoLock.id + 1]
    /\ UNCHANGED <<public, fence, lockFile, staged, contents, proc, committed,
                   faults>>

\* The operation lock is removed as stale, rightly or not.
RemoveLock ==
    /\ Act
    /\ lockFile # 0 /\ lockFile' = 0
    /\ UNCHANGED <<cargoLock, public, fence, staged, contents, proc, committed,
                   faults>>

Restored(file) ==
    IF file.of = committed THEN file
    ELSE IF committed = 0 THEN Nothing
    ELSE [of |-> committed, id |-> MaxOperations + acts + 1,
          digest |-> contents[committed]]

\* With no command running, the last complete publication is put back from
\* the stage the fence names.
Reconcile ==
    /\ Act
    /\ fence /\ \A p \in Proc : At(p, "idle")
    /\ committed \in staged \cup {vendor, 0}
    /\ fence' = FALSE /\ lockFile' = 0
    /\ vendor' = committed /\ staged' = staged \ {committed}
    /\ config' = Restored(config) /\ manifest' = Restored(manifest)
    /\ UNCHANGED <<cargoLock, contents, proc, committed, faults>>

---------------------------------------------------------------------------
Init ==
    /\ cargoLock \in [content : Lockfile, id : {0}]
    /\ vendor = 0 /\ config = Nothing /\ manifest = Nothing
    /\ fence = FALSE /\ lockFile = 0 /\ staged = {}
    /\ contents = <<>>
    /\ proc = [p \in Proc |-> Idle(NoLock)]
    /\ committed = 0 /\ acts = 0 /\ faults = 0

Read(p) ==
    \/ Start(p) \/ SeeFence(p) \/ SeeWriter(p) \/ SeeManifest(p) \/ SeeConfig(p)
    \/ Open(p) \/ Lease(p) \/ Catalogue(p) \/ Ready(p)

Publish(p) ==
    \/ Provision(p) \/ SeeNoFence(p) \/ Acquire(p) \/ Reuse(p) \/ LockPrevious(p)
    \/ Populate(p) \/ Validate(p) \/ CheckBeforeFence(p) \/ CreateFence(p)
    \/ CheckUnderFence(p) \/ MoveOld(p) \/ PublishTree(p) \/ WriteConfig(p)
    \/ WriteManifest(p) \/ CheckPublished(p) \/ ClearFence(p) \/ Retire(p)
    \/ Release(p) \/ Unlock(p) \/ GiveUp(p)

Fault(p) == Fail(p) \/ FailToClear(p) \/ Crash(p)

Next ==
    \/ \E p \in Proc : Read(p) \/ Publish(p) \/ Fault(p)
    \/ EditLock \/ RemoveLock \/ Reconcile

Spec == Init /\ [][Next]_vars

---------------------------------------------------------------------------
ControlFile == [of : Operations, id : Nat, digest : Lockfile] \cup {Nothing}

Label ==
    {"idle", "open", "lease", "fence", "writer", "receipt", "resolver", "catalogue",
     "ready", "clear", "acquire", "retire", "release", "unlock"}
        \cup BeforeFence \cup UnderFence

Locals ==
    [pc : Label, kind : {"check", "use", "provision"},
     graph : [content : Lockfile, id : Nat] \cup {NoLock}, force : BOOLEAN,
     pass : {1, 2}, seen : [manifest : ControlFile, config : ControlFile],
     tree : Operations \cup {0}, lease : BOOLEAN, run : Operations \cup {0},
     locked : SUBSET Operations, previous : Operations \cup {0},
     old : Operations \cup {0}, published : BOOLEAN]

\* The types; a stage holds trees that some operation populated.
TypeOK ==
    /\ cargoLock \in [content : Lockfile, id : Nat]
    /\ contents \in [1 .. Cardinality(Operations) -> Lockfile]
    /\ {vendor, lockFile, committed} \subseteq Operations \cup {0}
    /\ staged \subseteq Operations
    /\ {config, manifest} \subseteq ControlFile
    /\ fence \in BOOLEAN
    /\ proc \in [Proc -> Locals]
    /\ acts \in 0 .. MaxActs /\ faults \in 0 .. MaxFaults

\* Intermediate states never look complete (DEP-REQ-PUBLICATION): whatever
\* publications, failures and clean-ups ran between the looks of check_at, a
\* project it reports ready has the tree it inspected in place, populated
\* for the lock file it read, and the configuration and the receipt it read
\* are the ones published with that tree.
ReadyIsCoherent ==
    \A p \in Proc :
        At(p, "ready") =>
            LET tree == proc[p].tree
            IN  /\ vendor = tree
                /\ contents[tree] = proc[p].graph.content
                /\ \A file \in {proc[p].seen.manifest, proc[p].seen.config} :
                       file.of = tree

\* While a reader holds a lease, the tree it reads stays where it is
\* (DEP-REQ-SHARED-AREA), even when a person removed the operation lock of a
\* running command and another command started.
LeaseKeepsTree ==
    \A p \in Proc : proc[p].lease => vendor = proc[p].tree

\* Interruption or failure retains the last published registry
\* (DEP-REQ-PUBLICATION): its tree is in place or in a stage that is kept.
RegistryRetained == committed # 0 => committed \in staged \cup {vendor}
=============================================================================
