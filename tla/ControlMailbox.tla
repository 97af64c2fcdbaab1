--------------------------- MODULE ControlMailbox ---------------------------
(***************************************************************************)
(* The bounded mailbox through which a person steers a running prompt      *)
(* (sav/src/runtime/control.rs).  Every operation holds the mailbox's one  *)
(* mutex, so each is a single step here.  A message is its identity and    *)
(* which of its texts it carries: 0 as submitted, 1 as edited.  Byte       *)
(* limits are left out; the message limit is Capacity.                     *)
(***************************************************************************)
EXTENDS Naturals, Sequences, SequencesExt

CONSTANTS
    Capacity,       \* the code's CAPACITY: most messages pending or claimed
    MaxMessages     \* bound: identities handed out in a behaviour

ASSUME MailboxAssumption == Capacity \in Nat \ {0} /\ MaxMessages \in Nat

VARIABLE mailbox

Id == 1..MaxMessages

Guidance == [id : Id, text : {0, 1}]

State == [sequence : 0..MaxMessages, active : BOOLEAN, owned : BOOLEAN,
          closed : BOOLEAN, tasks : Seq(Guidance), guidance : Seq(Guidance),
          claimed : Seq([id : Id, delivered : BOOLEAN]),
          withdrawn : Seq(Id), dropped : Seq(Id)]

EmptyMailbox == [sequence |-> 0, active |-> FALSE, owned |-> FALSE,
                 closed |-> FALSE, tasks |-> << >>, guidance |-> << >>,
                 claimed |-> << >>, withdrawn |-> << >>, dropped |-> << >>]

IdsOf(messages) == [i \in DOMAIN messages |-> messages[i].id]

PositionOf(id) == CHOOSE i \in DOMAIN mailbox.guidance :
                      mailbox.guidance[i].id = id

Pending(id) == ~mailbox.closed /\ id \in Range(IdsOf(mailbox.guidance))

HasPending == ~mailbox.closed /\ mailbox.guidance # << >>

IsShutdown == mailbox.closed

-----------------------------------------------------------------------------
(* What a person's side calls.                                             *)

CanEnqueue ==
    /\ ~mailbox.closed
    /\ Len(mailbox.guidance) + Len(mailbox.tasks) + Len(mailbox.claimed)
           < Capacity
    /\ mailbox.sequence < MaxMessages

\* Whether the new message is guidance or a task is decided under the lock.
Enqueue ==
    LET id == mailbox.sequence + 1
        message == [id |-> id, text |-> 0]
    IN  mailbox' = IF mailbox.active
                   THEN [mailbox EXCEPT !.sequence = id,
                                        !.guidance = Append(@, message)]
                   ELSE [mailbox EXCEPT !.sequence = id,
                                        !.tasks = Append(@, message)]

EditPending(id) ==
    /\ Pending(id)
    /\ mailbox' = [mailbox EXCEPT !.guidance[PositionOf(id)].text = 1]

WithdrawPending(id) ==
    /\ Pending(id)
    /\ Len(mailbox.withdrawn) < Capacity
    /\ mailbox' = [mailbox EXCEPT !.guidance = RemoveAt(@, PositionOf(id)),
                                  !.withdrawn = Append(@, id)]

Shutdown ==
    mailbox' = [mailbox EXCEPT !.closed = TRUE, !.tasks = << >>,
                               !.guidance = << >>, !.withdrawn = << >>,
                               !.dropped = @ \o IdsOf(mailbox.guidance)]

\* Mutant: an idle owner is cancelled too.
MayCancelAnyRun == TRUE

MayCancel == mailbox.active /\ ~mailbox.closed

-----------------------------------------------------------------------------
(* What the owner of the run calls.                                        *)

CanTakeTask == ~mailbox.closed /\ ~mailbox.active /\ mailbox.tasks # << >>

NextTask == mailbox' = [mailbox EXCEPT !.tasks = Tail(@), !.active = TRUE]

BeginRun == mailbox' = [mailbox EXCEPT !.active = TRUE, !.owned = TRUE]

\* Mutant: pending guidance does not hold a dispatch back.
DispatchAnyway == mailbox.active /\ ~mailbox.closed

DispatchReady == mailbox.active /\ ~mailbox.closed /\ mailbox.guidance = << >>

FinishIfIdle == mailbox' = [mailbox EXCEPT !.active = FALSE]

Claimable == IF mailbox.closed THEN << >> ELSE mailbox.guidance

Claim ==
    mailbox' = [mailbox EXCEPT
                  !.guidance = IF mailbox.closed THEN @ ELSE << >>,
                  !.claimed = @ \o [i \in DOMAIN Claimable |->
                      [id |-> Claimable[i].id, delivered |-> FALSE]]]

ClaimOf(id) == CHOOSE i \in DOMAIN mailbox.claimed : mailbox.claimed[i].id = id

\* Mutant: the claim does not say that its text reached the context.
MarkNothing(id) == UNCHANGED mailbox

\* mark_delivered without complete_claim, for a notice that then fails.
MarkDelivered(id) ==
    mailbox' = [mailbox EXCEPT !.claimed[ClaimOf(id)].delivered = TRUE]

CompleteClaim(id) ==
    mailbox' = [mailbox EXCEPT !.claimed = RemoveAt(@, ClaimOf(id))]

DrainWithdrawals == mailbox' = [mailbox EXCEPT !.withdrawn = << >>]

\* withdrawals and finish_claims: the two drains that precede end_run.
DrainClaims == mailbox' = [mailbox EXCEPT !.withdrawn = << >>,
                                          !.claimed = << >>]

EndRun == mailbox' = [mailbox EXCEPT !.active = FALSE, !.owned = FALSE,
                                     !.withdrawn = << >>, !.guidance = << >>,
                                     !.dropped = << >>, !.claimed = << >>]

\* The identities end_run returns.
EndedWithout ==
    Range(mailbox.dropped) \cup Range(IdsOf(mailbox.guidance))
      \cup {entry.id : entry \in {e \in Range(mailbox.claimed) : ~e.delivered}}
=============================================================================
