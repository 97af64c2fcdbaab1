---------------------------- MODULE GitCheckpoint ----------------------------
(***************************************************************************)
(* The Git side of a continuous run (task_commands/checkpoint.rs): the     *)
(* component's inventory in the worktree, the branch, the index with its   *)
(* lock, and the steps that publish a prepared commit: lock the index,     *)
(* compare everything once more, advance the branch with compare-and-swap, *)
(* install the index.  A person uses Git on the same repository.           *)
(*                                                                         *)
(* A commit is the position of its object in commits.  Its tree has two    *)
(* parts: inv, the inventory a checkpoint may contain (src, tests,         *)
(* TODOS.yaml, IMPL.md, reviews), and other, the rest of the repository.   *)
(* One branch is checked out throughout.                                   *)
(***************************************************************************)
EXTENDS Naturals, Sequences, FiniteSets

CONSTANT
    NoCheckpoint  \* no pending checkpoint, no lock owner

VARIABLES
    worktree,     \* the inventory's files on disk (what capture returns)
    commits,      \* commit objects
    head,         \* the commit of the attached branch
    index,        \* what is staged
    indexLock,    \* the checkpoint whose index.lock exists
    owner         \* kvist-checkpoint-<commit>.owner files

git == <<worktree, commits, head, index, indexLock, owner>>

---------------------------------------------------------------------------
Tree(c) == [inv |-> commits[c].inv, other |-> commits[c].other]

\* c and the commits it was built on.
Ancestors(c) ==
    LET Reach[i \in 0..Len(commits)] ==
            IF i = 0 THEN {} ELSE {i} \cup Reach[commits[i].parent]
    IN  Reach[c]

\* tasks are the ones a checkpoint is made for, none for a person's commit.
NewCommit(parent, tree, tasks) ==
    [parent |-> parent, inv |-> tree.inv, other |-> tree.other, tasks |-> tasks]

\* ensure_clean: neither the worktree nor the index differs from HEAD's
\* inventory.
Clean == worktree = Tree(head).inv /\ index.inv = Tree(head).inv

---------------------------------------------------------------------------
(* Preparation: the commit object exists before anything refers to it *)

\* The commit that carries the worktree's inventory on top of HEAD.  Only
\* inventory paths are written to its isolated index.
Prepared ==
    [commit |-> Len(commits) + 1, parent |-> head, after |-> worktree]

CreatePrepared(tasks) ==
    commits' = Append(commits,
                      NewCommit(head, [Tree(head) EXCEPT !.inv = worktree], tasks))

\* prepare(expected_head, before, after): before is what expected_head holds,
\* nothing of the inventory is staged, and there is a change against HEAD.
CanPrepare(expected, before) ==
    /\ Tree(expected).inv = before
    /\ index.inv = Tree(head).inv
    /\ worktree # Tree(head).inv

\* HEAD is neither the commit of the prepared checkpoint nor its parent.
Orphaned(p) == head \notin {p.parent, p.commit}

\* Mutant: a checkpoint without changes is prepared again.
CanReprepareEmpty(p) == worktree = p.after

\* reprepare(prepared): the index is not looked at.
CanReprepare(p) ==
    /\ worktree = p.after
    /\ worktree # Tree(head).inv

---------------------------------------------------------------------------
(* Publication: the steps of finish *)

\* Mutant: an interrupted attempt's own lock is not recovered.
CanLockIndexOnce(p) ==
    ~Orphaned(p) /\ p.commit \notin DOMAIN owner /\ indexLock = NoCheckpoint

\* An owner file that is empty, or an index.lock that is not the one this
\* checkpoint's owner file names, is left for a person.
CanLockIndex(p) ==
    /\ ~Orphaned(p)
    /\ IF p.commit \in DOMAIN owner
       THEN /\ owner[p.commit] = "written"
            /\ indexLock \in {NoCheckpoint, p.commit}
       ELSE indexLock = NoCheckpoint

Forget(c) == [d \in DOMAIN owner \ {c} |-> owner[d]]

\* IndexLock::recover of an interrupted attempt, then create index.lock.
LockIndex(p) ==
    /\ CanLockIndex(p)
    /\ indexLock' = p.commit
    /\ owner' = Forget(p.commit)
    /\ UNCHANGED <<worktree, commits, head, index>>

SetOwner(p, state) ==
    /\ owner' = [d \in DOMAIN owner \cup {p.commit} |->
                    IF d = p.commit THEN state ELSE owner[d]]
    /\ UNCHANGED <<worktree, commits, head, index, indexLock>>

\* The comparisons under the index lock: what is staged of the inventory is
\* what the parent holds, or what an earlier attempt already installed, and
\* the worktree is still the prepared one.
StagedAsPrepared(p) ==
    \/ index.inv = Tree(p.parent).inv
    \/ head = p.commit /\ index.inv = p.after

CanPublish(p) ==
    /\ StagedAsPrepared(p)
    /\ worktree = p.after
    /\ ~Orphaned(p)

\* update-ref with the expected old value; skipped when an earlier attempt
\* got this far.
CanAdvance(p) == ~Orphaned(p)

Advance(p) ==
    /\ CanAdvance(p)
    /\ head' = p.commit
    /\ UNCHANGED <<worktree, commits, index, indexLock, owner>>

\* Mutant: the index is read anew from the commit.
InstallWholeTree(p) ==
    /\ head = p.commit
    /\ index' = Tree(p.commit)
    /\ indexLock' = NoCheckpoint
    /\ UNCHANGED <<worktree, commits, head, owner>>

\* Rename index.lock over the index: only the checkpoint's paths differ.
InstallIndex(p) ==
    /\ head = p.commit
    /\ index' = [index EXCEPT !.inv = p.after]
    /\ indexLock' = NoCheckpoint
    /\ UNCHANGED <<worktree, commits, head, owner>>

\* IndexLock::drop: remove the files of this attempt, if it created them.
DropLock(p) ==
    /\ indexLock' = IF indexLock = p.commit THEN NoCheckpoint ELSE indexLock
    /\ owner' = Forget(p.commit)

---------------------------------------------------------------------------
(* A person's Git commands, each refused while index.lock exists *)

Stage(tree) ==
    /\ indexLock = NoCheckpoint
    /\ index # tree
    /\ index' = tree
    /\ UNCHANGED <<worktree, commits, head, indexLock, owner>>

Commit ==
    /\ indexLock = NoCheckpoint
    /\ index # Tree(head)
    /\ commits' = Append(commits, NewCommit(head, index, {}))
    /\ head' = Len(commits) + 1
    /\ UNCHANGED <<worktree, index, indexLock, owner>>

\* A stale index.lock is removed by hand, as the error tells.
RemoveIndexLock ==
    /\ indexLock # NoCheckpoint
    /\ indexLock' = NoCheckpoint
    /\ UNCHANGED <<worktree, commits, head, index, owner>>
=============================================================================
