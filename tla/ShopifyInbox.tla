---------------------------- MODULE ShopifyInbox ----------------------------
(***************************************************************************)
(* One order of the Shopify shop on its way into the ERP.  Every change in *)
(* the shop is delivered as a webhook, at least once and in any order; it  *)
(* is logged, applied by a job right after, and by the minute's retry job  *)
(* when that failed or the server died.  Until a reviewer approves it the  *)
(* order is only a row of the inbox; then it is an ERP order, which        *)
(* Accounts, Sales and Production change while hooks keep arriving.        *)
(*                                                                         *)
(* A job applies a hook in one transaction under an advisory lock of the   *)
(* order, which approve() takes too and reject() does not.  Its reads are  *)
(* the step that takes the lock and its writes the step that commits.      *)
(* Once there is an ERP order the job updates that row first, so what it   *)
(* reads after is what it writes on, and the commit is a single step.      *)
(*                                                                         *)
(* Abstracted: a version of the shop's order is a number, its update time  *)
(* (no two versions have the same), with what the mapper makes of it; a    *)
(* hook's age is whether the 2 and the 10 minutes of the retry job have    *)
(* passed.  Customers, products, specs, tracking numbers, carts and the    *)
(* reviewer's choices are left out.  A hook delivered again finds its id   *)
(* taken and changes nothing.  APPROVED stands for every status after it.  *)
(* What the rest of the ERP does to order and receipts is one step each;   *)
(* receipts entered by hand, the shop's reference typed onto another one,  *)
(* and the deletion of the whole order are left out.                       *)
(* Sources: shopify/shopify.service.ts; the moves of Accounts, Sales and   *)
(* Production are those of accounts.service.ts and orders.service.ts.      *)
(***************************************************************************)
EXTENDS Integers, Sequences

CONSTANTS
  NumHooks,     \* webhooks of this order, in order of arrival: a bound
  Versions,     \* update times of the order in the shop
  Histories,    \* what the order may be at each version
  Lines,        \* Lines[c]: how many lines content c has
  Reviewers,    \* people of Admin and Accounts
  Cron,         \* the minute's retry job
  Free,         \* nobody holds the order's advisory lock
  MaxAttempts,  \* MAX_ATTEMPTS, 5 in the code
  MaxCrashes,   \* bound on restarts of the server
  MaxPayments,  \* bound on Payment rows, for the references Accounts types
  Typed,        \* amounts Accounts types over a receipt's own
  Scenes        \* Scenes[h]: whose moves go with history h, and whether restarts do: a bound

Hooks == 1..NumHooks
Jobs == Hooks \cup {Cron}      \* the job receive() starts for a hook, and the retry job
NoHook == 0

ASSUME ShopifyAssumption ==
  /\ NumHooks \in Nat \ {0} /\ MaxAttempts \in Nat \ {0} /\ MaxCrashes \in Nat
  /\ MaxPayments \in Nat \ {0} /\ Typed \subseteq Nat \ {0}
  /\ Versions \subseteq Nat \ {0} /\ Versions # {}
  /\ Cron \notin Hooks /\ Free \notin Jobs \cup Reviewers
  /\ Reviewers \cap Jobs = {}

(* paid is what paymentToRecord makes of the order, 0 for null; content    *)
(* is the contentHash.  A cancelled order stays cancelled.                 *)
Snapshots == [cancelled : BOOLEAN, paid : Nat, content : DOMAIN Lines]

ASSUME HistoryAssumption ==
  /\ Histories \subseteq [Versions -> Snapshots]
  /\ \A h \in Histories : \A v, w \in Versions :
       v <= w /\ h[v].cancelled => h[w].cancelled
  /\ 0 \notin DOMAIN Lines
  /\ Scenes \in [Histories -> SUBSET {"approval", "order", "press", "cancellation",
                                     "receipts", "restart"}]

VARIABLES
  shop,     \* the shop's order at each version, chosen at first
  log,      \* the ShopifyWebhookLog row of each hook
  job,      \* what each job is doing
  batch,    \* what the retry job has read and not yet run: ids and statuses
  lock,     \* who holds the advisory lock
  inbox,    \* the ShopifyInboxOrder row
  erp,      \* the Order row with shopifyData, and its Payment rows
  review,   \* what each reviewer has on screen
  crashes   \* restarts so far

vars == <<shop, log, job, batch, lock, inbox, erp, review, crashes>>

LogStatuses == {"NONE", "RECEIVED", "PROCESSING", "PROCESSED", "FAILED", "IGNORED"}
Logs == [status : LogStatuses, attempts : 0..MaxAttempts, ver : Versions, age : 0..2]

InboxStatuses == {"NONE", "NEW", "CANCELLED", "REJECTED", "APPROVED"}
Rows == [status : InboxStatuses, ver : Versions]

Pcs == {"idle", "queued", "claimed", "tx", "ok", "err"}
JobStates == [pc : Pcs, hook : Hooks \cup {NoHook}, seen : Rows]

(* tagged: its reference is the shop's, SHOPIFY-<id>.                      *)
Payments == [amount : Nat, status : {"PENDING_VERIFICATION", "VERIFIED", "REJECTED"},
             tagged : BOOLEAN]

(* The items: all NOT_PRINTED and none cancelled; some past NOT_PRINTED;   *)
(* or some cancelled or handed to Dispatch, which stays so.  The order can *)
(* be cancelled as a whole only in the first.                              *)
Stages == {"open", "printed", "closed"}
Orders ==
  [status    : {"NONE", "PENDING_APPROVAL", "APPROVED", "CANCELLED"},
   stage     : Stages,
   from      : Versions,                       \* the version approved
   ver       : Versions,                       \* shopifyData.updatedAt and contentHash
   flagged   : DOMAIN Lines \cup {0},          \* shopifyData.editFlaggedHash
   handled   : BOOLEAN,                        \* shopifyData.cancelHandledAt
   request   : {"none", "hand", "items", "Shopify"},
                                               \* by hand, of the whole or of some items
   pays      : Seq(Payments),
   flags     : SUBSET Nat]                     \* the paid amounts flagged in the notes

Screens == [pc : {"idle", "open", "tx"}, seen : Rows]

TypeOK ==
  /\ shop \in Histories
  /\ log \in [Hooks -> Logs]
  /\ job \in [Jobs -> JobStates]
  /\ batch \subseteq Hooks \X LogStatuses
  /\ lock \in Jobs \cup Reviewers \cup {Free}
  /\ inbox \in Rows
  /\ erp \in Orders
  /\ review \in [Reviewers -> Screens]
  /\ crashes \in 0..MaxCrashes

AnyVersion == CHOOSE v \in Versions : TRUE
Row(s, v) == [status |-> s, ver |-> v]
NoRow == Row("NONE", AnyVersion)
Idle == [pc |-> "idle", hook |-> NoHook, seen |-> NoRow]
NoScreen == [pc |-> "idle", seen |-> NoRow]

NewOrder(v) ==
  [status |-> "PENDING_APPROVAL", stage |-> "open", from |-> v, ver |-> v, flagged |-> 0,
   handled |-> FALSE, request |-> "none", pays |-> <<>>, flags |-> {}]
NoOrder == [NewOrder(AnyVersion) EXCEPT !.status = "NONE"]
Exists == erp.status # "NONE"

Init ==
  /\ shop \in Histories
  /\ log = [w \in Hooks |-> [status |-> "NONE", attempts |-> 0, ver |-> AnyVersion, age |-> 0]]
  /\ job = [j \in Jobs |-> Idle]
  /\ batch = {}
  /\ lock = Free
  /\ inbox = NoRow
  /\ erp = NoOrder
  /\ review = [u \in Reviewers |-> NoScreen]
  /\ crashes = 0

-----------------------------------------------------------------------------
(* The intake of hooks, and the jobs that apply them.                      *)

Arrives(w, s, v) ==
  /\ log[w].status = "NONE"
  /\ w > 1 => log[w - 1].status # "NONE"
  /\ log' = [log EXCEPT ![w].status = s, ![w].ver = v]

(* receive(): logged, and a job started that nobody waits for.             *)
Receive(w, v) ==
  /\ Arrives(w, "RECEIVED", v)
  /\ job' = [job EXCEPT ![w] = [Idle EXCEPT !.pc = "queued", !.hook = w]]
  /\ UNCHANGED <<shop, batch, lock, inbox, erp, review, crashes>>

(* A topic that /shopify/orders does not handle.                           *)
Ignore(w) ==
  /\ Arrives(w, "IGNORED", AnyVersion)
  /\ UNCHANGED <<shop, job, batch, lock, inbox, erp, review, crashes>>

(* The first claim of processLog: the row must be in a status it names.    *)
(* Mutated form: the row is taken whatever became of it.                   *)
Claim_Any(j, w, from) ==
  /\ log' = [log EXCEPT ![w].status = "PROCESSING", ![w].attempts = @ + 1]
  /\ job' = [job EXCEPT ![j] = [Idle EXCEPT !.pc = "claimed", !.hook = w]]
Claim(j, w, from) ==
  IF log[w].status = from
  THEN /\ log' = [log EXCEPT ![w].status = "PROCESSING", ![w].attempts = @ + 1]
       /\ job' = [job EXCEPT ![j] = [Idle EXCEPT !.pc = "claimed", !.hook = w]]
  ELSE /\ job' = [job EXCEPT ![j] = Idle]
       /\ UNCHANGED log

ProcessNow(w) ==
  /\ job[w].pc = "queued"
  /\ Claim(w, w, "RECEIVED")
  /\ UNCHANGED <<shop, batch, lock, inbox, erp, review, crashes>>

(* Mutated form: only what failed is tried again.                          *)
Due_FailedOnly(w) == log[w].attempts < MaxAttempts /\ log[w].status = "FAILED"
(* Mutated form: tried for ever.                                           *)
Due_NoLimit(w) ==
  \/ log[w].status = "FAILED"
  \/ log[w].status = "RECEIVED" /\ log[w].age >= 1
  \/ log[w].status = "PROCESSING" /\ log[w].age = 2
Due(w) ==
  /\ log[w].attempts < MaxAttempts
  /\ \/ log[w].status = "FAILED"
     \/ log[w].status = "RECEIVED" /\ log[w].age >= 1
     \/ log[w].status = "PROCESSING" /\ log[w].age = 2

(* retryFailed(): not while the last minute's run is still at work.        *)
RetryStart ==
  /\ job[Cron].pc = "idle" /\ batch = {}
  /\ batch' = {<<w, log[w].status>> : w \in {h \in Hooks : Due(h)}}
  /\ batch' # {}
  /\ UNCHANGED <<shop, log, job, lock, inbox, erp, review, crashes>>

(* The oldest first, each after the one before is done.                    *)
RetryNext ==
  /\ job[Cron].pc = "idle"
  /\ \E e \in batch :
       /\ \A f \in batch : e[1] <= f[1]
       /\ Claim(Cron, e[1], e[2])
       /\ batch' = batch \ {e}
  /\ UNCHANGED <<shop, lock, inbox, erp, review, crashes>>

TxBegin(j) ==
  /\ job[j].pc = "claimed" /\ lock = Free
  /\ lock' = j
  /\ job' = [job EXCEPT ![j].pc = "tx", ![j].seen = inbox]
  /\ UNCHANGED <<shop, log, batch, inbox, erp, review, crashes>>

Standing(v) == IF shop[v].cancelled THEN "CANCELLED" ELSE "NEW"

(* upsertInbox: what it writes over the row it read.                       *)
After(row, v) ==
  IF row.status \in {"REJECTED", "APPROVED"} THEN Row(row.status, v) ELSE Row(Standing(v), v)
(* Mutated form: an older version is written too.                          *)
Upserted_Older(row, v) == After(row, v)
Upserted(row, v) ==
  IF row.status # "NONE" /\ v < row.ver THEN inbox ELSE After(row, v)

(* updateOrder: items and amounts stay, an edit is only flagged.           *)
(* Mutated form: compared after it is stored.                              *)
FlagEdit_StoredFirst(o, v) ==
  LET stored == [o EXCEPT !.ver = v]
  IN  [stored EXCEPT !.flagged = IF shop[v].content \notin {shop[stored.ver].content, @}
                                 THEN shop[v].content ELSE @]
FlagEdit(o, v) ==
  [o EXCEPT !.ver = v,
            !.flagged = IF shop[v].content \notin {shop[o.ver].content, @}
                        THEN shop[v].content ELSE @]

Tagged(o) == {i \in DOMAIN o.pays : o.pays[i].tagged}

(* recordPayment: found by the reference SHOPIFY-<id>, and no other way.   *)
(* Mutated form: a changed amount is not flagged.                          *)
RecordPayment_NoFlag(o, v) ==
  LET amount == shop[v].paid
      i == CHOOSE k \in Tagged(o) : TRUE
  IN CASE amount = 0 -> o
       [] amount > 0 /\ Tagged(o) = {} ->
            [o EXCEPT !.pays = Append(@, [amount |-> amount, tagged |-> TRUE,
                                          status |-> "PENDING_VERIFICATION"])]
       [] OTHER -> IF o.status = "PENDING_APPROVAL" /\ o.pays[i].status = "PENDING_VERIFICATION"
                   THEN [o EXCEPT !.pays[i].amount = amount] ELSE o
RecordPayment(o, v) ==
  LET amount == shop[v].paid
      i == CHOOSE k \in Tagged(o) : TRUE
  IN CASE amount = 0 -> o
       [] amount > 0 /\ Tagged(o) = {} ->
            [o EXCEPT !.pays = Append(@, [amount |-> amount, tagged |-> TRUE,
                                          status |-> "PENDING_VERIFICATION"])]
       [] OTHER ->
            IF o.pays[i].amount = amount THEN o
            ELSE IF o.status = "PENDING_APPROVAL" /\ o.pays[i].status = "PENDING_VERIFICATION"
                 THEN [o EXCEPT !.pays[i].amount = amount]
                 ELSE [o EXCEPT !.flags = @ \cup {amount}]

(* applyCancellation: asks Accounts, or flags an order already in print.   *)
(* Mutated form: not once something was printed.                           *)
ApplyCancellation_Unprinted(o, v) ==
  IF shop[v].cancelled /\ ~o.handled /\ o.status # "CANCELLED" /\ o.request = "none" /\ o.stage = "open"
  THEN [o EXCEPT !.handled = TRUE, !.request = "Shopify"] ELSE o
ApplyCancellation(o, v) ==
  IF shop[v].cancelled /\ ~o.handled /\ o.status # "CANCELLED" /\ o.request = "none"
  THEN [o EXCEPT !.handled = TRUE, !.request = IF o.stage = "open" THEN "Shopify" ELSE "none"]
  ELSE o

Leave(j, pc) ==
  /\ lock' = Free
  /\ job' = [job EXCEPT ![j].pc = pc, ![j].seen = NoRow]

(* syncOrder of an order that is still in the inbox only.                  *)
SaveToInbox(j) ==
  /\ job[j].pc = "tx" /\ ~Exists
  /\ inbox' = Upserted(job[j].seen, log[job[j].hook].ver)
  /\ Leave(j, "ok")
  /\ UNCHANGED <<shop, log, batch, erp, review, crashes>>

(* syncOrder of an approved one.  An older version changes nothing.        *)
SaveToOrder(j) ==
  /\ job[j].pc = "tx" /\ Exists
  /\ LET v == log[job[j].hook].ver
     IN IF v < erp.ver THEN UNCHANGED <<inbox, erp>>
        ELSE /\ erp' = ApplyCancellation(RecordPayment(FlagEdit(erp, v), v), v)
             /\ inbox' = IF inbox.status = "APPROVED" THEN Row("APPROVED", v) ELSE inbox
  /\ Leave(j, "ok")
  /\ UNCHANGED <<shop, log, batch, review, crashes>>

(* The transaction rolls back, or gets no connection or no lock in time.   *)
TxFail(j) ==
  /\ job[j].pc \in {"claimed", "tx"}
  /\ lock' = IF lock = j THEN Free ELSE lock
  /\ job' = [job EXCEPT ![j].pc = "err", ![j].seen = NoRow]
  /\ UNCHANGED <<shop, log, batch, inbox, erp, review, crashes>>

(* The second update of processLog, whatever the row's status is by now.   *)
Finish(j) ==
  /\ job[j].pc \in {"ok", "err"}
  /\ log' = [log EXCEPT ![job[j].hook].status =
                IF job[j].pc = "ok" THEN "PROCESSED" ELSE "FAILED"]
  /\ job' = [job EXCEPT ![j] = Idle]
  /\ UNCHANGED <<shop, batch, lock, inbox, erp, review, crashes>>

(* Time passes.  The first run of a hook, at most 45 s of waiting and      *)
(* writing, is over before its 10 minutes are.                             *)
Tick(w) ==
  /\ log[w].status # "NONE" /\ log[w].age < 2
  /\ log[w].age = 1 => job[w].pc = "idle"
  /\ log' = [log EXCEPT ![w].age = @ + 1]
  /\ UNCHANGED <<shop, job, batch, lock, inbox, erp, review, crashes>>

(* The server restarts: what was in memory is gone, what was uncommitted   *)
(* is rolled back, and the locks with it.                                  *)
Crash ==
  /\ crashes < MaxCrashes /\ "restart" \in Scenes[shop]
  /\ crashes' = crashes + 1
  /\ job' = [j \in Jobs |-> Idle]
  /\ batch' = {}
  /\ lock' = Free
  /\ review' = [u \in Reviewers |-> IF review[u].pc = "tx" THEN NoScreen ELSE review[u]]
  /\ UNCHANGED <<shop, log, inbox, erp>>

-----------------------------------------------------------------------------
(* The reviewers.                                                          *)

OpenRow(u) ==
  /\ review[u].pc = "idle" /\ inbox.status # "NONE"
  /\ review' = [review EXCEPT ![u] = [pc |-> "open", seen |-> inbox]]
  /\ UNCHANGED <<shop, log, job, batch, lock, inbox, erp, crashes>>

(* approve(): the lines come from the screen, the row is read again once   *)
(* it has the lock.                                                        *)
(* Mutated form: it does not wait for the lock.                            *)
ApproveBegin_NoLock(u) ==
  /\ review[u].pc = "open"
  /\ lock' = u
  /\ review' = [review EXCEPT ![u].pc = "tx"]
  /\ UNCHANGED <<shop, log, job, batch, inbox, erp, crashes>>
ApproveBegin(u) ==
  /\ review[u].pc = "open" /\ lock = Free
  /\ Lines[shop[review[u].seen.ver].content] = Lines[shop[inbox.ver].content]
  /\ lock' = u
  /\ review' = [review EXCEPT ![u] = [pc |-> "tx", seen |-> inbox]]
  /\ UNCHANGED <<shop, log, job, batch, inbox, erp, crashes>>

ApproveCommit(u) ==
  /\ review[u].pc = "tx" /\ review[u].seen.status = "NEW" /\ ~Exists
  /\ erp' = RecordPayment(NewOrder(review[u].seen.ver), review[u].seen.ver)
  /\ inbox' = [inbox EXCEPT !.status = "APPROVED"]
  /\ lock' = Free
  /\ review' = [review EXCEPT ![u] = NoScreen]
  /\ UNCHANGED <<shop, log, job, batch, crashes>>

(* The screen is closed, or the approval refused: the row is not NEW any   *)
(* more, its lines changed, a product or a customer is gone.               *)
CloseRow(u) ==
  /\ review[u].pc \in {"open", "tx"}
  /\ lock' = IF review[u].pc = "tx" THEN Free ELSE lock
  /\ review' = [review EXCEPT ![u] = NoScreen]
  /\ UNCHANGED <<shop, log, job, batch, inbox, erp, crashes>>

(* reject(): one guarded update, no lock.                                  *)
Reject ==
  /\ inbox.status \in {"NEW", "CANCELLED"}
  /\ inbox' = [inbox EXCEPT !.status = "REJECTED"]
  /\ UNCHANGED <<shop, log, job, batch, lock, erp, review, crashes>>

-----------------------------------------------------------------------------
(* What the rest of the ERP does to the order.                             *)

ErpMove(desk, o) ==
  /\ desk \in Scenes[shop]
  /\ erp' = o
  /\ UNCHANGED <<shop, log, job, batch, lock, inbox, review, crashes>>

ApproveOrder ==
  /\ erp.status = "PENDING_APPROVAL"
  /\ ErpMove("approval", [erp EXCEPT !.status = "APPROVED"])

(* From APPROVED or IN_PRODUCTION, or by an edit of its items.             *)
ReturnToAccounts ==
  /\ erp.status = "APPROVED"
  /\ ErpMove("order", [erp EXCEPT !.status = "PENDING_APPROVAL"])

(* Whatever its status, and with a cancellation request left as it is.     *)
RejectOrder ==
  /\ Exists
  /\ ErpMove("order", [erp EXCEPT !.status = "CANCELLED"])

(* A sheet is printed, or taken back to be set again.                      *)
GoToPress ==
  /\ erp.status = "APPROVED" /\ erp.stage = "open"
  /\ ErpMove("press", [erp EXCEPT !.stage = "printed"])
BackFromPress ==
  /\ erp.stage = "printed"
  /\ ErpMove("press", [erp EXCEPT !.stage = "open"])

(* returnToQueue() and the dispatch by hand ask for no status: the order   *)
(* goes on with Dispatch, a cancelled one too.                             *)
HandToDispatch ==
  /\ Exists
  /\ ErpMove("order", [erp EXCEPT !.status = "APPROVED", !.stage = "closed"])

(* The whole order only while all its items are open; of some items, which *)
(* are open themselves, whatever became of the others.                     *)
RequestCancellation(request) ==
  /\ erp.status \in {"PENDING_APPROVAL", "APPROVED"} /\ erp.request = "none"
  /\ request = "hand" => erp.stage = "open"
  /\ ErpMove("cancellation", [erp EXCEPT !.request = request])

(* The items asked for are checked again: what was printed meanwhile       *)
(* stays.  Once items are cancelled, the order as a whole goes on.         *)
ApproveCancellation ==
  /\ erp.request # "none"
  /\ erp.request # "items" => erp.stage = "open"
  /\ ErpMove("cancellation",
             [erp EXCEPT !.request = "none", !.stage = "closed",
                         !.status = IF erp.request = "items" THEN @ ELSE "CANCELLED"])

RejectCancellation ==
  /\ erp.request # "none"
  /\ ErpMove("cancellation", [erp EXCEPT !.request = "none"])

(* Accounts may type a reference of their own as they verify a receipt.    *)
VerifyPayment(i, keep) ==
  /\ erp.pays[i].status = "PENDING_VERIFICATION"
  /\ keep \/ Len(erp.pays) < MaxPayments
  /\ ErpMove("receipts", [erp EXCEPT !.pays[i].status = "VERIFIED",
                                     !.pays[i].tagged = @ /\ keep])

(* updatePendingPayment(): amount and reference are Accounts' to type.     *)
EditPayment(i, amount, keep) ==
  /\ erp.pays[i].status = "PENDING_VERIFICATION"
  /\ keep \/ Len(erp.pays) < MaxPayments
  /\ ErpMove("receipts", [erp EXCEPT !.pays[i].amount = amount,
                                     !.pays[i].tagged = @ /\ keep])

(* A receipt is rejected or deleted whatever its status.                   *)
RejectPayment(i) ==
  ErpMove("receipts", [erp EXCEPT !.pays[i].status = "REJECTED"])

DeletePayment(i) ==
  ErpMove("receipts",
          [erp EXCEPT !.pays = [k \in 1..Len(@) - 1 |-> IF k < i THEN @[k] ELSE @[k + 1]]])

-----------------------------------------------------------------------------
Server(j) == SaveToInbox(j) \/ SaveToOrder(j) \/ TxFail(j) \/ Finish(j)

MoveOfReceipt(i) ==
  \/ \E keep \in BOOLEAN : VerifyPayment(i, keep)
  \/ \E amount \in Typed \cup {erp.pays[i].amount}, keep \in BOOLEAN :
       EditPayment(i, amount, keep)
  \/ RejectPayment(i)
  \/ DeletePayment(i)

Next ==
  \/ \E w \in Hooks : \/ \E v \in Versions : Receive(w, v)
                      \/ Ignore(w) \/ ProcessNow(w) \/ Tick(w)
  \/ RetryStart \/ RetryNext
  \/ \E j \in Jobs : TxBegin(j) \/ SaveToInbox(j) \/ SaveToOrder(j) \/ TxFail(j) \/ Finish(j)
  \/ Crash
  \/ \E u \in Reviewers : OpenRow(u) \/ ApproveBegin(u) \/ ApproveCommit(u) \/ CloseRow(u)
  \/ Reject
  \/ ApproveOrder \/ ReturnToAccounts \/ RejectOrder
  \/ GoToPress \/ BackFromPress \/ HandToDispatch
  \/ \E request \in {"hand", "items"} : RequestCancellation(request)
  \/ ApproveCancellation \/ RejectCancellation
  \/ \E i \in DOMAIN erp.pays : MoveOfReceipt(i)

Spec == Init /\ [][Next]_vars

(* The server's own steps go on; a transaction ends within its 30 s; the   *)
(* lock is given in turn; cron runs each minute.  Nothing is asked of      *)
(* people, of the shop or of the database's luck.                          *)
Fairness ==
  /\ \A w \in Hooks : WF_vars(ProcessNow(w)) /\ WF_vars(Tick(w))
  /\ WF_vars(RetryStart) /\ WF_vars(RetryNext)
  /\ \A j \in Jobs : SF_vars(TxBegin(j)) /\ WF_vars(Server(j))
  /\ \A u \in Reviewers : WF_vars(review[u].pc = "tx" /\ (ApproveCommit(u) \/ CloseRow(u)))

FairSpec == Spec /\ Fairness

-----------------------------------------------------------------------------
(* Two jobs never run one hook: neither the first run and the retry job,   *)
(* nor what a restart left behind ("Claim the row so the immediate run and *)
(* the retry job never both run it").                                      *)
AtWork(j) == job[j].pc \in {"claimed", "tx", "ok", "err"}
OneRun ==
  \A i, j \in Jobs : i # j /\ AtWork(i) /\ AtWork(j) => job[i].hook # job[j].hook

(* However hooks overtake each other, are retried or run again after a     *)
(* restart, what is kept is never older than a hook marked PROCESSED.      *)
KeptVersion == IF Exists THEN erp.ver ELSE inbox.ver
NewestWins ==
  \A w \in Hooks : log[w].status = "PROCESSED" =>
    inbox.status # "NONE" /\ log[w].ver <= KeptVersion

(* An ERP order whose shop order is not what was approved says so: its     *)
(* latest content is flagged for review.                                   *)
EditsFlagged ==
  Exists /\ shop[erp.ver].content # shop[erp.from].content =>
    erp.flagged = shop[erp.ver].content

(* What Shopify says was paid is on a receipt, be it a rejected one, or    *)
(* flagged in the notes: every hook that brings a version brings its       *)
(* payment on record, whatever Accounts did to order and receipts before.  *)
(* Only Accounts' own edit of a pending receipt, or the deletion of one,   *)
(* takes it off the record again.                                          *)
PaidOnRecord ==
  Exists /\ shop[erp.ver].paid > 0 =>
    \/ \E i \in DOMAIN erp.pays : erp.pays[i].amount = shop[erp.ver].paid
    \/ shop[erp.ver].paid \in erp.flags
ReceiptEdited ==
  \E i \in DOMAIN erp.pays \cap DOMAIN erp'.pays :
    erp.pays[i].status = "PENDING_VERIFICATION" /\ erp'.pays[i].amount # erp.pays[i].amount
ReceiptDeleted == Len(erp'.pays) < Len(erp.pays)
PaidIsKnown ==
  [][PaidOnRecord' \/ (erp'.ver = erp.ver /\ (~PaidOnRecord \/ ReceiptEdited \/ ReceiptDeleted))]_vars

(* A cancellation that a processed hook brought is answered: a request     *)
(* waits, the order is cancelled, or it was noted on the order or refused. *)
(* It is forgotten only where a request someone had raised by hand before  *)
(* the shop's cancellation arrived is declined, or is about some items and *)
(* is approved; or where Dispatch goes on with an order that was cancelled *)
(* here first.                                                             *)
Answered ==
  Exists /\ shop[erp.ver].cancelled =>
    erp.handled \/ erp.request # "none" \/ erp.status = "CANCELLED"
CancellationAnswered ==
  [][Answered /\ ~Answered' =>
       \/ erp.request \in {"hand", "items"} /\ erp'.request = "none"
       \/ erp.status = "CANCELLED" /\ erp'.status = "APPROVED"]_vars

(* The inbox implements ShopSale.                                          *)
StandingOf(row) ==
  CASE row.status = "NONE"      -> "unseen"
    [] row.status = "NEW"       -> "waiting"
    [] row.status = "CANCELLED" -> "withdrawn"
    [] row.status = "REJECTED"  -> "declined"
    [] row.status = "APPROVED"  -> "ordered"
SeenBy(l) == IF l \in Jobs THEN job[l].seen ELSE review[l].seen

SaleBar == IF Exists THEN "ordered" ELSE StandingOf(inbox)
FoundBar ==
  CASE lock = Free -> "nobody"
    [] lock # Free -> IF Exists THEN "ordered" ELSE StandingOf(SeenBy(lock))

Sale == INSTANCE ShopSale WITH sale <- SaleBar, found <- FoundBar

SaleRefined == Sale!Spec

(* Every hook that is received ends up processed, unless it used up its    *)
(* attempts, across failed transactions and restarts.                      *)
Settled(w) == log[w].status = "PROCESSED" \/ log[w].attempts = MaxAttempts
Settles == \A w \in Hooks : log[w].status = "RECEIVED" ~> Settled(w)

(* "Pending-verification Payment for an online/manual paid order, once per *)
(* order (referenceNumber SHOPIFY-<id>)".                                  *)
PaymentOnce == Len(erp.pays) <= 1
=============================================================================
