------------------------- MODULE ShopifyInbox_proof -------------------------
(***************************************************************************)
(* Proofs about ShopifyInbox, for any number of hooks, versions, reviewers *)
(* and restarts: its types, that no hook is run by two jobs at once, what  *)
(* an approved order keeps of later hooks, and that the inbox implements   *)
(* ShopSale.                                                               *)
(***************************************************************************)
EXTENDS ShopifyInbox, TLAPS, SequenceTheorems

(* What a version of the shop's order is.                                  *)
LEMMA SnapTypes ==
  ASSUME shop \in Histories, NEW v \in Versions
  PROVE  /\ shop[v].cancelled \in BOOLEAN /\ shop[v].paid \in Nat
         /\ shop[v].content \in DOMAIN Lines /\ shop[v].content # 0
<1>1. shop[v] \in Snapshots
  BY HistoryAssumption
<1>2. QED
  BY <1>1, HistoryAssumption DEF Snapshots

LEMMA Constants ==
  /\ AnyVersion \in Versions /\ Versions \subseteq Nat
  /\ NoRow \in Rows /\ Idle \in JobStates /\ NoScreen \in Screens
  /\ NoHook \notin Hooks /\ Cron \in Jobs /\ Hooks \subseteq Jobs /\ Hooks \subseteq Nat
<1>1. AnyVersion \in Versions /\ Versions \subseteq Nat
  BY ShopifyAssumption DEF AnyVersion
<1>2. NoRow \in Rows
  BY <1>1 DEF NoRow, Row, Rows, InboxStatuses
<1>3. Idle \in JobStates /\ NoScreen \in Screens
  BY <1>2 DEF Idle, NoScreen, JobStates, Screens, Pcs
<1>4. NoHook \notin Hooks /\ Cron \in Jobs /\ Hooks \subseteq Jobs /\ Hooks \subseteq Nat
  BY ShopifyAssumption DEF NoHook, Hooks, Jobs
<1>5. QED
  BY <1>1, <1>2, <1>3, <1>4

LEMMA RowType ==
  ASSUME NEW s \in InboxStatuses, NEW v \in Versions
  PROVE  Row(s, v) \in Rows
BY DEF Row, Rows

LEMMA UpsertedType ==
  ASSUME shop \in Histories, inbox \in Rows, NEW row \in Rows, NEW v \in Versions
  PROVE  Upserted(row, v) \in Rows
<1>1. row.status \in InboxStatuses
  BY DEF Rows
<1>2. Standing(v) \in InboxStatuses
  BY DEF Standing, InboxStatuses
<1>3. Row(row.status, v) \in Rows /\ Row(Standing(v), v) \in Rows
  BY <1>1, <1>2, RowType
<1>4. QED
  BY <1>3 DEF Upserted, After

-----------------------------------------------------------------------------
(* An ERP order stays one under what a hook does to it.                    *)
LEMMA NewOrderType ==
  ASSUME NEW v \in Versions
  PROVE  NewOrder(v) \in Orders
<1>1. <<>> \in Seq(Payments)
  BY EmptySeq
<1>2. QED
  BY <1>1 DEF NewOrder, Orders, Stages

LEMMA OrderFields ==
  ASSUME NEW o \in Orders
  PROVE  /\ o.status \in {"NONE", "PENDING_APPROVAL", "APPROVED", "CANCELLED"}
         /\ o.stage \in Stages /\ o.from \in Versions /\ o.ver \in Versions
         /\ o.flagged \in DOMAIN Lines \cup {0} /\ o.handled \in BOOLEAN
         /\ o.request \in {"none", "hand", "items", "Shopify"}
         /\ o.pays \in Seq(Payments) /\ o.flags \subseteq Nat
BY DEF Orders

LEMMA FlagEditType ==
  ASSUME shop \in Histories, NEW o \in Orders, NEW v \in Versions
  PROVE  /\ FlagEdit(o, v) \in Orders
         /\ FlagEdit(o, v).status = o.status /\ FlagEdit(o, v).from = o.from
         /\ FlagEdit(o, v).ver = v
         /\ FlagEdit(o, v).flagged = IF shop[v].content \notin {shop[o.ver].content, o.flagged}
                                     THEN shop[v].content ELSE o.flagged
         /\ FlagEdit(o, v).request = o.request /\ FlagEdit(o, v).handled = o.handled
<1>1. shop[v].content \in DOMAIN Lines
  BY SnapTypes
<1>2. QED
  BY <1>1 DEF FlagEdit, Orders

(* Replacing and adding a receipt.                                         *)
LEMMA ReplacePay ==
  ASSUME NEW s \in Seq(Payments), NEW i \in DOMAIN s, NEW p \in Payments
  PROVE  [s EXCEPT ![i] = p] \in Seq(Payments)
BY ExceptSeq

LEMMA RecordPaymentType ==
  ASSUME shop \in Histories, NEW o \in Orders, NEW v \in Versions
  PROVE  /\ RecordPayment(o, v) \in Orders
         /\ RecordPayment(o, v).status = o.status /\ RecordPayment(o, v).from = o.from
         /\ RecordPayment(o, v).ver = o.ver /\ RecordPayment(o, v).flagged = o.flagged
         /\ RecordPayment(o, v).request = o.request
         /\ RecordPayment(o, v).handled = o.handled
         /\ shop[v].paid > 0 =>
              \/ \E i \in DOMAIN RecordPayment(o, v).pays :
                   RecordPayment(o, v).pays[i].amount = shop[v].paid
              \/ shop[v].paid \in RecordPayment(o, v).flags
<1> DEFINE amount == shop[v].paid
           i == CHOOSE k \in Tagged(o) : TRUE
           p == [amount |-> amount, tagged |-> TRUE, status |-> "PENDING_VERIFICATION"]
<1>1. amount \in Nat
  BY SnapTypes
<1>2. o.pays \in Seq(Payments)
  BY OrderFields
<1>3. p \in Payments
  BY <1>1 DEF Payments
<1>4. CASE amount = 0
  BY <1>1, <1>4 DEF RecordPayment
<1>5. CASE amount > 0 /\ Tagged(o) = {}
  <2>1. RecordPayment(o, v) = [o EXCEPT !.pays = Append(o.pays, p)]
    BY <1>1, <1>5 DEF RecordPayment
  <2>2. /\ Append(o.pays, p) \in Seq(Payments)
        /\ Len(o.pays) + 1 \in DOMAIN Append(o.pays, p)
        /\ Append(o.pays, p)[Len(o.pays) + 1] = p
    BY <1>2, <1>3, AppendProperties, LenProperties
  <2>3. [o EXCEPT !.pays = Append(o.pays, p)].pays = Append(o.pays, p)
    BY DEF Orders
  <2>4. p.amount = amount
    OBVIOUS
  <2>5. \E k \in DOMAIN RecordPayment(o, v).pays : RecordPayment(o, v).pays[k].amount = amount
    BY <2>1, <2>2, <2>3, <2>4
  <2>6. [o EXCEPT !.pays = Append(o.pays, p)] \in Orders
    BY <2>2 DEF Orders
  <2>7. QED
    BY <2>1, <2>5, <2>6 DEF Orders
<1>6. CASE amount > 0 /\ Tagged(o) # {}
  <2>1. i \in DOMAIN o.pays
    BY <1>6 DEF Tagged
  <2>2. o.pays[i] \in Payments
    BY <1>2, <2>1, ElementOfSeq, LenProperties
  <2>3. CASE o.pays[i].amount = amount
    <3>1. RecordPayment(o, v) = o
      BY <1>1, <1>6, <2>3 DEF RecordPayment
    <3>2. QED
      BY <3>1, <2>1, <2>3
  <2>4. CASE /\ o.pays[i].amount # amount
             /\ o.status = "PENDING_APPROVAL" /\ o.pays[i].status = "PENDING_VERIFICATION"
    <3> DEFINE q == [o.pays[i] EXCEPT !.amount = amount]
    <3>1. RecordPayment(o, v) = [o EXCEPT !.pays[i].amount = amount]
      BY <1>1, <1>6, <2>4 DEF RecordPayment
    <3>2. q \in Payments /\ q.amount = amount
      BY <1>1, <2>2 DEF Payments
    <3>3. [o.pays EXCEPT ![i] = q] \in Seq(Payments)
      BY <1>2, <2>1, <3>2, ReplacePay
    <3>4. RecordPayment(o, v) = [o EXCEPT !.pays = [o.pays EXCEPT ![i] = q]]
      BY <3>1
    <3>5. RecordPayment(o, v) \in Orders
      BY <3>3, <3>4 DEF Orders
    <3>6. /\ RecordPayment(o, v).pays = [o.pays EXCEPT ![i] = q]
          /\ [o.pays EXCEPT ![i] = q][i] = q
          /\ i \in DOMAIN [o.pays EXCEPT ![i] = q]
      BY <2>1, <3>4 DEF Orders
    <3>7. \E k \in DOMAIN RecordPayment(o, v).pays : RecordPayment(o, v).pays[k].amount = amount
      BY <3>2, <3>6
    <3>8. QED
      BY <3>4, <3>5, <3>7 DEF Orders
  <2>5. CASE /\ o.pays[i].amount # amount
             /\ ~ (o.status = "PENDING_APPROVAL" /\ o.pays[i].status = "PENDING_VERIFICATION")
    <3>1. RecordPayment(o, v) = [o EXCEPT !.flags = @ \cup {amount}]
      BY <1>1, <1>6, <2>5 DEF RecordPayment
    <3>2. QED
      BY <1>1, <3>1 DEF Orders
  <2>6. QED
    BY <2>3, <2>4, <2>5
<1>7. QED
  BY <1>1, <1>4, <1>5, <1>6

LEMMA ApplyCancellationType ==
  ASSUME NEW o \in Orders, NEW v \in Versions
  PROVE  /\ ApplyCancellation(o, v) \in Orders
         /\ ApplyCancellation(o, v).status = o.status /\ ApplyCancellation(o, v).from = o.from
         /\ ApplyCancellation(o, v).ver = o.ver /\ ApplyCancellation(o, v).flagged = o.flagged
         /\ ApplyCancellation(o, v).pays = o.pays /\ ApplyCancellation(o, v).flags = o.flags
         /\ shop[v].cancelled =>
              \/ ApplyCancellation(o, v).handled
              \/ ApplyCancellation(o, v).request # "none"
              \/ ApplyCancellation(o, v).status = "CANCELLED"
         /\ (o.request = "Shopify" => o.handled) =>
              (ApplyCancellation(o, v).request = "Shopify" => ApplyCancellation(o, v).handled)
BY DEF ApplyCancellation, Orders

(* What a hook makes of an approved order.                                 *)
Updated(v) == ApplyCancellation(RecordPayment(FlagEdit(erp, v), v), v)

LEMMA UpdatedType ==
  ASSUME shop \in Histories, erp \in Orders, NEW v \in Versions
  PROVE  /\ Updated(v) \in Orders
         /\ Updated(v).status = erp.status /\ Updated(v).from = erp.from /\ Updated(v).ver = v
         /\ Updated(v).flagged = FlagEdit(erp, v).flagged
         /\ shop[v].paid > 0 =>
              \/ \E i \in DOMAIN Updated(v).pays : Updated(v).pays[i].amount = shop[v].paid
              \/ shop[v].paid \in Updated(v).flags
         /\ shop[v].cancelled =>
              Updated(v).handled \/ Updated(v).request # "none" \/ Updated(v).status = "CANCELLED"
         /\ (erp.request = "Shopify" => erp.handled) =>
              (Updated(v).request = "Shopify" => Updated(v).handled)
<1> DEFINE o1 == FlagEdit(erp, v)
           o2 == RecordPayment(o1, v)
<1>1. /\ o1 \in Orders /\ o1.status = erp.status /\ o1.from = erp.from /\ o1.ver = v
      /\ o1.request = erp.request /\ o1.handled = erp.handled
  BY FlagEditType
<1> HIDE DEF o1
<1>2. /\ o2 \in Orders /\ o2.status = o1.status /\ o2.from = o1.from /\ o2.ver = o1.ver
      /\ o2.flagged = o1.flagged /\ o2.request = o1.request /\ o2.handled = o1.handled
      /\ shop[v].paid > 0 => \/ \E i \in DOMAIN o2.pays : o2.pays[i].amount = shop[v].paid
                             \/ shop[v].paid \in o2.flags
  BY <1>1, RecordPaymentType
<1> HIDE DEF o2
<1>3. Updated(v) = ApplyCancellation(o2, v) /\ o1 = FlagEdit(erp, v)
  BY DEF Updated, o1, o2
<1>4. QED
  BY <1>1, <1>2, <1>3, ApplyCancellationType

-----------------------------------------------------------------------------
(* The invariant of the jobs.  A job at work has its hook's row claimed,   *)
(* and what the retry job has read is nobody's: the first run of a hook is *)
(* over before its 10 minutes are.                                         *)
Claims ==
  /\ \A w \in Hooks : job[w].pc # "idle" => job[w].hook = w
  /\ job[Cron].pc # "queued"
  /\ \A j \in Jobs : AtWork(j) => /\ job[j].hook \in Hooks
                                  /\ log[job[j].hook].status = "PROCESSING"
  /\ \A w \in Hooks : log[w].age = 2 => job[w].pc = "idle"
  /\ \A w \in Hooks : log[w].status = "NONE" =>
       job[w].pc = "idle" /\ log[w].age = 0 /\ log[w].attempts = 0
  /\ \A w \in Hooks : log[w].status = "RECEIVED" => log[w].attempts = 0

Batched ==
  /\ \A e, f \in batch : e[1] = f[1] => e = f
  /\ \A e \in batch : AtWork(Cron) => job[Cron].hook # e[1]
  /\ \A e \in batch : e[2] # "RECEIVED" =>
       /\ log[e[1]].status = e[2] /\ log[e[1]].attempts < MaxAttempts
       /\ e[2] = "FAILED" \/ (e[2] = "PROCESSING" /\ log[e[1]].age = 2)

JobInv == Claims /\ OneRun /\ Batched

LEMMA JobTypes ==
  ASSUME TypeOK, NEW j \in Jobs
  PROVE  /\ job[j].pc \in Pcs /\ job[j].hook \in Hooks \cup {NoHook} /\ job[j].seen \in Rows
         /\ job[j].seen.status \in InboxStatuses /\ job[j].seen.ver \in Versions
BY DEF TypeOK, JobStates, Rows

LEMMA LogTypes ==
  ASSUME TypeOK, NEW w \in Hooks
  PROVE  /\ log[w].status \in LogStatuses /\ log[w].attempts \in 0..MaxAttempts
         /\ log[w].ver \in Versions /\ log[w].age \in 0..2
BY DEF TypeOK, Logs

LEMMA InitInv == Init => TypeOK /\ JobInv
<1> SUFFICES ASSUME Init PROVE TypeOK /\ JobInv
  OBVIOUS
<1>1. log \in [Hooks -> Logs]
  BY Constants, ShopifyAssumption DEF Init, Logs, LogStatuses
<1>2. erp \in Orders
  <2>1. NewOrder(AnyVersion) \in Orders
    BY Constants, NewOrderType
  <2>2. QED
    BY <2>1 DEF Init, NoOrder, Orders
<1>3. TypeOK
  BY <1>1, <1>2, Constants, ShopifyAssumption DEF Init, TypeOK
<1>4. \A j \in Jobs : job[j].pc = "idle"
  BY DEF Init, Idle
<1>5. JobInv
  BY <1>4, Constants DEF Init, JobInv, Claims, OneRun, Batched, AtWork
<1>6. QED
  BY <1>3, <1>5

(* Claiming a row that may be claimed.                                     *)
LEMMA ClaimInv ==
  ASSUME TypeOK, Claims, OneRun, NEW j \in Jobs, NEW w \in Hooks,
         NEW from \in LogStatuses \ {"NONE"}, Claim(j, w, from),
         j = w \/ j = Cron,
         ~ AtWork(j),
         log[w].status = from =>
           /\ log[w].attempts < MaxAttempts
           /\ \A i \in Jobs : i # j /\ AtWork(i) => job[i].hook # w,
         j = w => log[w].age # 2
  PROVE  log' \in [Hooks -> Logs] /\ job' \in [Jobs -> JobStates] /\ Claims' /\ OneRun'
<1>1. CASE log[w].status = from
  <2>1. /\ log' = [log EXCEPT ![w].status = "PROCESSING", ![w].attempts = @ + 1]
        /\ job' = [job EXCEPT ![j] = [Idle EXCEPT !.pc = "claimed", !.hook = w]]
    BY <1>1 DEF Claim
  <2>2. log[w].attempts + 1 \in 0..MaxAttempts
    BY <1>1, LogTypes, ShopifyAssumption
  <2>3. log' \in [Hooks -> Logs]
    BY <2>1, <2>2 DEF TypeOK, Logs, LogStatuses
  <2>4. [Idle EXCEPT !.pc = "claimed", !.hook = w] \in JobStates
    BY Constants DEF JobStates, Pcs, Idle
  <2>5. job' \in [Jobs -> JobStates]
    BY <2>1, <2>4 DEF TypeOK
  <2>6. /\ job'[j].pc = "claimed" /\ job'[j].hook = w
        /\ \A i \in Jobs : i # j => job'[i] = job[i]
    BY <2>1 DEF TypeOK, Idle
  <2>7. /\ log'[w].status = "PROCESSING" /\ log'[w].age = log[w].age /\ log[w].status # "NONE"
        /\ \A x \in Hooks : x # w => log'[x] = log[x]
    BY <1>1, <2>1 DEF TypeOK, Logs
  <2>8. Claims'
    <3>1. \A x \in Hooks : job'[x].pc # "idle" => job'[x].hook = x
      BY <2>6, Constants, ShopifyAssumption DEF Claims
    <3>2. job'[Cron].pc # "queued"
      BY <2>6, Constants DEF Claims
    <3>3. \A i \in Jobs : AtWork(i)' => job'[i].hook \in Hooks /\ log'[job'[i].hook].status = "PROCESSING"
      BY <2>6, <2>7 DEF Claims, AtWork
    <3>4. \A x \in Hooks : log'[x].age = 2 => job'[x].pc = "idle"
      BY <2>6, <2>7, Constants, ShopifyAssumption DEF Claims
    <3>5. \A x \in Hooks : log'[x].status = "NONE" =>
            job'[x].pc = "idle" /\ log'[x].age = 0 /\ log'[x].attempts = 0
      BY <2>6, <2>7, Constants, ShopifyAssumption DEF Claims
    <3>6. \A x \in Hooks : log'[x].status = "RECEIVED" => log'[x].attempts = 0
      BY <2>7 DEF Claims
    <3>7. QED
      BY <3>1, <3>2, <3>3, <3>4, <3>5, <3>6 DEF Claims
  <2>9. OneRun'
    BY <1>1, <2>6 DEF OneRun, AtWork
  <2>10. QED
    BY <2>3, <2>5, <2>8, <2>9
<1>2. CASE log[w].status # from
  <2>1. job' = [job EXCEPT ![j] = Idle] /\ log' = log
    BY <1>2 DEF Claim
  <2>2. job' \in [Jobs -> JobStates] /\ log' \in [Hooks -> Logs]
    BY <2>1, Constants DEF TypeOK
  <2>3. job'[j].pc = "idle" /\ \A i \in Jobs : i # j => job'[i] = job[i]
    BY <2>1 DEF TypeOK, Idle
  <2>4. Claims' /\ OneRun'
    BY <2>1, <2>3, Constants DEF Claims, OneRun, AtWork
  <2>5. QED
    BY <2>2, <2>4
<1>3. QED
  BY <1>1, <1>2

LEMMA ArrivesInv ==
  ASSUME TypeOK, JobInv, NEW w \in Hooks, NEW v \in Versions,
         Receive(w, v) \/ Ignore(w)
  PROVE  TypeOK' /\ JobInv'
<1>1. PICK s \in {"RECEIVED", "IGNORED"}, x \in Versions :
        /\ Arrives(w, s, x) /\ (s = "RECEIVED" => Receive(w, v)) /\ (s = "IGNORED" => Ignore(w))
  BY Constants DEF Receive, Ignore
<1>2. /\ log[w].status = "NONE" /\ job[w].pc = "idle" /\ log[w].age = 0 /\ log[w].attempts = 0
  BY <1>1 DEF Arrives, JobInv, Claims
<1>3. /\ log' \in [Hooks -> Logs]
      /\ log'[w].status = s /\ log'[w].age = 0 /\ log'[w].attempts = 0
      /\ \A y \in Hooks : y # w => log'[y] = log[y]
  BY <1>1, <1>2 DEF Arrives, TypeOK, Logs, LogStatuses
<1>4. \A e \in batch : (e[1] \in Hooks /\ e[1] # w) \/ e[2] = "RECEIVED"
  BY <1>2 DEF JobInv, Batched, TypeOK
<1>5. \A j \in Jobs : AtWork(j) => job[j].hook # w
  BY <1>2 DEF JobInv, Claims
<1>6. /\ job' \in [Jobs -> JobStates]
      /\ \A j \in Jobs : j # w => job'[j] = job[j]
      /\ job'[w].pc \in {"idle", "queued"} /\ (job'[w].pc # "idle" => job'[w].hook = w)
      /\ s = "IGNORED" => job'[w].pc = "idle"
  <2>1. CASE s = "RECEIVED"
    <3>1. job' = [job EXCEPT ![w] = [Idle EXCEPT !.pc = "queued", !.hook = w]]
      BY <1>1, <2>1 DEF Receive
    <3>2. [Idle EXCEPT !.pc = "queued", !.hook = w] \in JobStates
      BY Constants DEF Idle, JobStates, Pcs
    <3>3. QED
      BY <2>1, <3>1, <3>2, Constants DEF TypeOK, Idle
  <2>2. CASE s = "IGNORED"
    BY <1>1, <1>2, <2>2 DEF Ignore, TypeOK
  <2>3. QED
    BY <2>1, <2>2
<1>7. TypeOK'
  BY <1>1, <1>3, <1>6 DEF TypeOK, Receive, Ignore
<1>8. Claims'
  <2>0. w \in Jobs /\ w # Cron /\ ~ AtWork(w)'
    BY <1>6, Constants, ShopifyAssumption DEF AtWork
  <2>1. \A h \in Hooks : job'[h].pc # "idle" => job'[h].hook = h
    BY <1>6, Constants DEF JobInv, Claims
  <2>2. job'[Cron].pc # "queued"
    BY <2>0, <1>6, Constants DEF JobInv, Claims
  <2>3. \A i \in Jobs : AtWork(i)' => job'[i].hook \in Hooks /\ log'[job'[i].hook].status = "PROCESSING"
    BY <2>0, <1>3, <1>5, <1>6 DEF JobInv, Claims, AtWork
  <2>4. \A h \in Hooks : log'[h].age = 2 => job'[h].pc = "idle"
    BY <1>3, <1>6, Constants DEF JobInv, Claims
  <2>5. \A h \in Hooks : log'[h].status = "NONE" =>
          job'[h].pc = "idle" /\ log'[h].age = 0 /\ log'[h].attempts = 0
    BY <1>3, <1>6, Constants DEF JobInv, Claims
  <2>6. \A h \in Hooks : log'[h].status = "RECEIVED" => log'[h].attempts = 0
    BY <1>3 DEF JobInv, Claims
  <2>7. QED
    BY <2>1, <2>2, <2>3, <2>4, <2>5, <2>6 DEF Claims
<1>9. OneRun'
  BY <1>6 DEF JobInv, OneRun, AtWork
<1>10. Batched'
  <2>1. batch' = batch /\ job'[Cron] = job[Cron]
    BY <1>1, <1>6, ShopifyAssumption DEF Receive, Ignore, Jobs
  <2>2. QED
    BY <1>3, <1>4, <2>1 DEF JobInv, Batched, AtWork
<1>11. QED
  BY <1>7, <1>8, <1>9, <1>10 DEF JobInv

LEMMA ProcessNowInv ==
  ASSUME TypeOK, JobInv, NEW w \in Hooks, ProcessNow(w)
  PROVE  TypeOK' /\ JobInv'
<1>1. w \in Jobs /\ w # Cron /\ job[w].pc = "queued" /\ log[w].age # 2
  BY Constants, ShopifyAssumption DEF ProcessNow, JobInv, Claims
<1>2. ~ AtWork(w)
  BY <1>1 DEF AtWork
<1>3. Claim(w, w, "RECEIVED")
  BY DEF ProcessNow
<1>4. log[w].status = "RECEIVED" =>
        /\ log[w].attempts < MaxAttempts
        /\ \A i \in Jobs : i # w /\ AtWork(i) => job[i].hook # w
  BY ShopifyAssumption DEF JobInv, Claims
<1>5. log' \in [Hooks -> Logs] /\ job' \in [Jobs -> JobStates] /\ Claims' /\ OneRun'
  BY <1>1, <1>2, <1>3, <1>4, ClaimInv DEF JobInv, LogStatuses
<1>6. TypeOK'
  BY <1>5 DEF TypeOK, ProcessNow
<1>7. job'[Cron] = job[Cron] /\ batch' = batch
  <2>1. PICK n : job' = [job EXCEPT ![w] = n]
    BY <1>3 DEF Claim
  <2>2. job'[Cron] = job[Cron]
    BY <1>1, <2>1, Constants DEF TypeOK
  <2>3. QED
    BY <2>2 DEF ProcessNow
<1>8. log' = log \/ (log[w].status = "RECEIVED" /\ \A x \in Hooks : x # w => log'[x] = log[x])
  BY <1>3 DEF Claim, TypeOK
<1>9. Batched'
  BY <1>7, <1>8 DEF JobInv, Batched, AtWork, TypeOK
<1>10. QED
  BY <1>5, <1>6, <1>9 DEF JobInv

LEMMA RetryStartInv ==
  ASSUME TypeOK, JobInv, RetryStart
  PROVE  TypeOK' /\ JobInv'
<1>1. batch' = {<<w, log[w].status>> : w \in {h \in Hooks : Due(h)}}
  BY DEF RetryStart
<1>2. batch' \subseteq Hooks \X LogStatuses
  BY <1>1, LogTypes
<1>3. TypeOK'
  BY <1>2 DEF TypeOK, RetryStart
<1>4. Batched'
  <2>1. \A e \in batch' : /\ e[1] \in Hooks /\ e[2] = log[e[1]].status /\ e = <<e[1], log[e[1]].status>>
                          /\ Due(e[1])
    BY <1>1
  <2>2. log' = log /\ job' = job /\ ~ AtWork(Cron)
    BY DEF RetryStart, AtWork
  <2>3. QED
    <3>1. ASSUME NEW e \in batch', NEW f \in batch', e[1] = f[1]  PROVE e = f
      <4>1. e = <<e[1], log[e[1]].status>> /\ f = <<f[1], log[f[1]].status>>
        BY <2>1
      <4>2. <<e[1], log[e[1]].status>> = <<f[1], log[f[1]].status>>
        BY <3>1
      <4>3. QED
        BY <4>1, <4>2, Zenon
    <3>2. \A e \in batch' : e[2] # "RECEIVED" =>
            /\ log[e[1]].status = e[2] /\ log[e[1]].attempts < MaxAttempts
            /\ e[2] = "FAILED" \/ (e[2] = "PROCESSING" /\ log[e[1]].age = 2)
      BY <2>1 DEF Due
    <3>3. ~ AtWork(Cron)'
      BY <2>2 DEF AtWork
    <3>4. QED
      BY <2>2, <3>1, <3>2, <3>3 DEF Batched
<1>5. Claims' /\ OneRun'
  BY DEF RetryStart, JobInv, Claims, OneRun, AtWork
<1>6. QED
  BY <1>3, <1>4, <1>5 DEF JobInv

LEMMA RetryNextInv ==
  ASSUME TypeOK, JobInv, RetryNext
  PROVE  TypeOK' /\ JobInv'
<1>1. PICK e \in batch : Claim(Cron, e[1], e[2]) /\ batch' = batch \ {e}
  BY DEF RetryNext
<1> DEFINE w == e[1]
<1>2. w \in Hooks /\ e[2] \in LogStatuses \ {"NONE"} /\ Cron \in Jobs /\ Cron # w /\ ~ AtWork(Cron)
  BY Constants, ShopifyAssumption DEF TypeOK, RetryNext, AtWork, JobInv, Batched
<1>3. log[w].status = e[2] =>
        /\ log[w].attempts < MaxAttempts
        /\ \A i \in Jobs : i # Cron /\ AtWork(i) => job[i].hook # w
  <2>1. CASE e[2] = "RECEIVED"
    BY <1>2, <2>1, ShopifyAssumption DEF JobInv, Claims
  <2>2. CASE e[2] = "FAILED"
    BY <1>2, <2>2 DEF JobInv, Claims, Batched
  <2>3. CASE e[2] = "PROCESSING" /\ log[w].age = 2
    <3>1. job[w].pc = "idle"
      BY <1>2, <2>3 DEF JobInv, Claims
    <3>2. \A i \in Jobs : i # Cron /\ AtWork(i) => job[i].hook # w
      BY <1>2, <3>1 DEF JobInv, Claims, AtWork, Jobs
    <3>3. QED
      BY <2>3, <3>2 DEF JobInv, Batched
  <2>4. QED
    BY <2>1, <2>2, <2>3 DEF JobInv, Batched
<1>4. log' \in [Hooks -> Logs] /\ job' \in [Jobs -> JobStates] /\ Claims' /\ OneRun'
  BY <1>1, <1>2, <1>3, ClaimInv DEF JobInv
<1>5. TypeOK'
  BY <1>1, <1>4 DEF TypeOK, RetryNext
<1>6. \A f \in batch' : f[1] # w
  BY <1>1 DEF JobInv, Batched
<1>7. AtWork(Cron)' => job'[Cron].hook = w
  <2>1. CASE log[w].status = e[2]
    <3>1. job' = [job EXCEPT ![Cron] = [Idle EXCEPT !.pc = "claimed", !.hook = w]]
      BY <1>1, <2>1 DEF Claim
    <3>2. QED
      BY <1>2, <3>1 DEF TypeOK, Idle
  <2>2. CASE log[w].status # e[2]
    <3>1. job' = [job EXCEPT ![Cron] = Idle]
      BY <1>1, <2>2 DEF Claim
    <3>2. job'[Cron].pc = "idle"
      BY <1>2, <3>1 DEF TypeOK, Idle
    <3>3. QED
      BY <3>2 DEF AtWork
  <2>3. QED
    BY <2>1, <2>2
<1>8. \A x \in Hooks : x # w => log'[x] = log[x]
  BY <1>1, <1>2 DEF Claim, TypeOK
<1>9. Batched'
  <2>1. \A f \in batch' : f \in batch /\ f[1] \in Hooks /\ f[1] # w
    BY <1>1, <1>6 DEF TypeOK
  <2>2. QED
    BY <1>7, <1>8, <2>1 DEF JobInv, Batched
<1>10. QED
  BY <1>4, <1>5, <1>9 DEF JobInv

(* A job at work goes on with its hook.                                    *)
LEMMA MoveOn ==
  ASSUME TypeOK, JobInv, NEW j \in Jobs, AtWork(j), NEW n \in JobStates,
         n.hook = job[j].hook, n.pc \in {"claimed", "tx", "ok", "err"},
         job' = [job EXCEPT ![j] = n], log' = log, batch' = batch
  PROVE  job' \in [Jobs -> JobStates] /\ JobInv'
<1>1. /\ job' \in [Jobs -> JobStates]
      /\ job'[j] = n /\ \A i \in Jobs : i # j => job'[i] = job[i]
  BY DEF TypeOK
<1>2. \A i \in Jobs : /\ job'[i].hook = job[i].hook
                      /\ AtWork(i)' <=> AtWork(i)
                      /\ job'[i].pc = "idle" <=> job[i].pc = "idle"
                      /\ job'[i].pc = "queued" <=> job[i].pc = "queued"
  BY <1>1 DEF AtWork
<1>3. Claims'
  BY <1>2, Constants DEF JobInv, Claims
<1>4. OneRun'
  BY <1>2 DEF JobInv, OneRun
<1>5. Batched'
  BY <1>2, Constants DEF JobInv, Batched
<1>6. QED
  BY <1>1, <1>3, <1>4, <1>5 DEF JobInv

LEMMA TxBeginInv ==
  ASSUME TypeOK, JobInv, NEW j \in Jobs, TxBegin(j)
  PROVE  TypeOK' /\ JobInv'
<1> DEFINE n == [job[j] EXCEPT !.pc = "tx", !.seen = inbox]
<1>1. /\ n \in JobStates /\ n.hook = job[j].hook /\ n.pc = "tx" /\ AtWork(j)
      /\ job' = [job EXCEPT ![j] = n]
  BY DEF TxBegin, TypeOK, JobStates, Pcs, AtWork
<1>2. job' \in [Jobs -> JobStates] /\ JobInv'
  BY <1>1, MoveOn DEF TxBegin
<1>3. QED
  BY <1>2 DEF TypeOK, TxBegin

LEMMA LeaveInv ==
  ASSUME TypeOK, JobInv, NEW j \in Jobs, NEW pc \in {"ok", "err"},
         job[j].pc \in {"claimed", "tx"},
         job' = [job EXCEPT ![j].pc = pc, ![j].seen = NoRow],
         log' = log, batch' = batch
  PROVE  job' \in [Jobs -> JobStates] /\ JobInv'
<1> DEFINE n == [job[j] EXCEPT !.pc = pc, !.seen = NoRow]
<1>1. n \in JobStates /\ n.hook = job[j].hook /\ n.pc = pc /\ AtWork(j)
  BY Constants DEF TypeOK, JobStates, Pcs, AtWork
<1>2. job' = [job EXCEPT ![j] = n]
  OBVIOUS
<1>3. QED
  BY <1>1, <1>2, MoveOn

LEMMA SaveToInboxInv ==
  ASSUME TypeOK, JobInv, NEW j \in Jobs, SaveToInbox(j)
  PROVE  TypeOK' /\ JobInv'
<1>1. job' \in [Jobs -> JobStates] /\ JobInv'
  BY LeaveInv DEF SaveToInbox, Leave
<1>2. job[j].hook \in Hooks /\ log[job[j].hook].ver \in Versions
  BY LogTypes DEF SaveToInbox, JobInv, Claims, AtWork
<1>3. inbox' \in Rows
  BY <1>2, JobTypes, UpsertedType DEF SaveToInbox, TypeOK
<1>4. QED
  BY <1>1, <1>3 DEF TypeOK, SaveToInbox, Leave

LEMMA SaveToOrderInv ==
  ASSUME TypeOK, JobInv, NEW j \in Jobs, SaveToOrder(j)
  PROVE  TypeOK' /\ JobInv'
<1> DEFINE v == log[job[j].hook].ver
<1>1. job' \in [Jobs -> JobStates] /\ JobInv'
  BY LeaveInv DEF SaveToOrder, Leave
<1>2. v \in Versions
  BY LogTypes DEF SaveToOrder, JobInv, Claims, AtWork
<1>3. erp' = erp \/ erp' = Updated(v)
  BY DEF SaveToOrder, Updated
<1>4. erp' \in Orders
  BY <1>2, <1>3, UpdatedType DEF TypeOK
<1>5. Row("APPROVED", v) \in Rows
  BY <1>2, RowType DEF InboxStatuses
<1>6. inbox' \in Rows
  BY <1>5 DEF SaveToOrder, TypeOK
<1>7. QED
  BY <1>1, <1>4, <1>6 DEF TypeOK, SaveToOrder, Leave

LEMMA TxFailInv ==
  ASSUME TypeOK, JobInv, NEW j \in Jobs, TxFail(j)
  PROVE  TypeOK' /\ JobInv'
<1>1. job' \in [Jobs -> JobStates] /\ JobInv'
  BY LeaveInv DEF TxFail
<1>2. QED
  BY <1>1 DEF TypeOK, TxFail

LEMMA FinishInv ==
  ASSUME TypeOK, JobInv, NEW j \in Jobs, Finish(j)
  PROVE  TypeOK' /\ JobInv'
<1> DEFINE w == job[j].hook
           s == IF job[j].pc = "ok" THEN "PROCESSED" ELSE "FAILED"
<1>1. AtWork(j) /\ w \in Hooks /\ log[w].status = "PROCESSING"
  BY DEF Finish, AtWork, JobInv, Claims
<1>2. /\ job' \in [Jobs -> JobStates] /\ job'[j].pc = "idle"
      /\ \A i \in Jobs : i # j => job'[i] = job[i]
  BY Constants DEF Finish, TypeOK, Idle
<1>3. s \in LogStatuses
  BY DEF LogStatuses
<1>4. log' = [log EXCEPT ![w].status = s]
  BY DEF Finish
<1>5. /\ log' \in [Hooks -> Logs] /\ log'[w].status = s
      /\ log'[w].age = log[w].age /\ log'[w].attempts = log[w].attempts
      /\ \A x \in Hooks : x # w => log'[x] = log[x]
  BY <1>1, <1>3, <1>4 DEF TypeOK, Logs
<1>6. TypeOK'
  BY <1>2, <1>5 DEF TypeOK, Finish
<1>7. \A i \in Jobs : i # j /\ AtWork(i) => job[i].hook # w
  BY <1>1 DEF JobInv, OneRun
<1>8. \A i \in Jobs : AtWork(i)' => i # j /\ AtWork(i) /\ job'[i] = job[i]
  BY <1>2 DEF AtWork
<1>9. Claims'
  <2>1. \A x \in Hooks : job'[x].pc # "idle" => job'[x].hook = x
    BY <1>2, Constants DEF JobInv, Claims
  <2>2. job'[Cron].pc # "queued"
    BY <1>2, Constants DEF JobInv, Claims
  <2>3. \A i \in Jobs : AtWork(i)' => job'[i].hook \in Hooks /\ log'[job'[i].hook].status = "PROCESSING"
    BY <1>5, <1>7, <1>8 DEF JobInv, Claims
  <2>4. \A x \in Hooks : log'[x].age = 2 => job'[x].pc = "idle"
    BY <1>2, <1>5, Constants DEF JobInv, Claims
  <2>5. \A x \in Hooks : log'[x].status = "NONE" =>
          job'[x].pc = "idle" /\ log'[x].age = 0 /\ log'[x].attempts = 0
    BY <1>2, <1>5, Constants DEF JobInv, Claims
  <2>6. \A x \in Hooks : log'[x].status = "RECEIVED" => log'[x].attempts = 0
    BY <1>5 DEF JobInv, Claims
  <2>7. QED
    BY <2>1, <2>2, <2>3, <2>4, <2>5, <2>6 DEF Claims
<1>10. OneRun'
  BY <1>8 DEF JobInv, OneRun
<1>11. Batched'
  <2>1. batch' = batch
    BY DEF Finish
  <2>2. ASSUME NEW e \in batch, e[2] # "RECEIVED" PROVE e[1] \in Hooks /\ e[1] # w
    <3>1. CASE j = Cron
      BY <1>1, <3>1 DEF JobInv, Batched, TypeOK
    <3>2. CASE j \in Hooks
      BY <1>1, <2>2, <3>2 DEF JobInv, Batched, Claims, TypeOK, AtWork
    <3>3. QED
      BY <3>1, <3>2 DEF Jobs
  <2>3. QED
    BY <1>5, <1>8, <2>1, <2>2, Constants DEF JobInv, Batched
<1>12. QED
  BY <1>6, <1>9, <1>10, <1>11 DEF JobInv

LEMMA TickInv ==
  ASSUME TypeOK, JobInv, NEW w \in Hooks, Tick(w)
  PROVE  TypeOK' /\ JobInv'
<1>1. log[w].age + 1 \in 0..2 /\ log[w].status # "NONE" /\ (log[w].age + 1 = 2 => job[w].pc = "idle")
  BY LogTypes DEF Tick
<1>2. /\ log' \in [Hooks -> Logs] /\ log'[w].age = log[w].age + 1
      /\ log'[w].status = log[w].status /\ log'[w].attempts = log[w].attempts
      /\ \A x \in Hooks : x # w => log'[x] = log[x]
  BY <1>1 DEF Tick, TypeOK, Logs
<1>3. job' = job /\ batch' = batch
  BY DEF Tick
<1>4. TypeOK'
  BY <1>2 DEF TypeOK, Tick
<1>5. Claims'
  BY <1>1, <1>2, <1>3 DEF JobInv, Claims, AtWork
<1>6. OneRun'
  BY <1>3 DEF JobInv, OneRun, AtWork
<1>7. Batched'
  <2>1. \A e \in batch : e[1] \in Hooks
    BY DEF TypeOK
  <2>2. log[w].age < 2
    BY DEF Tick
  <2>3. QED
    BY <1>2, <1>3, <2>1, <2>2 DEF JobInv, Batched, AtWork
<1>8. QED
  BY <1>4, <1>5, <1>6, <1>7 DEF JobInv

LEMMA CrashInv ==
  ASSUME TypeOK, JobInv, Crash
  PROVE  TypeOK' /\ JobInv'
<1>1. \A j \in Jobs : job'[j].pc = "idle"
  BY DEF Crash, Idle
<1>2. /\ job' \in [Jobs -> JobStates] /\ review' \in [Reviewers -> Screens]
      /\ crashes' \in 0..MaxCrashes
  BY Constants, ShopifyAssumption DEF Crash, TypeOK
<1>3. TypeOK'
  BY <1>2 DEF TypeOK, Crash
<1>4. Claims' /\ OneRun' /\ Batched'
  BY <1>1, Constants DEF Crash, JobInv, Claims, OneRun, Batched, AtWork
<1>5. QED
  BY <1>3, <1>4 DEF JobInv

(* The reviewers and the rest of the ERP touch no job.                     *)
LEMMA SameJobs ==
  ASSUME JobInv, log' = log, job' = job, batch' = batch
  PROVE  JobInv'
BY DEF JobInv, Claims, OneRun, Batched, AtWork

LEMMA ReviewInv ==
  ASSUME TypeOK, JobInv, NEW u \in Reviewers,
         OpenRow(u) \/ ApproveBegin(u) \/ ApproveCommit(u) \/ CloseRow(u)
  PROVE  TypeOK' /\ JobInv'
<1>1. JobInv'
  BY SameJobs DEF OpenRow, ApproveBegin, ApproveCommit, CloseRow
<1>2. review[u] \in Screens /\ review[u].seen.ver \in Versions
  BY DEF TypeOK, Screens, Rows
<1>3. CASE OpenRow(u)
  <2>1. [pc |-> "open", seen |-> inbox] \in Screens
    BY DEF TypeOK, Screens
  <2>2. review' \in [Reviewers -> Screens]
    BY <1>3, <2>1 DEF TypeOK, OpenRow
  <2>3. QED
    BY <1>1, <1>3, <2>2 DEF TypeOK, OpenRow
<1>4. CASE ApproveBegin(u)
  <2>1. [pc |-> "tx", seen |-> inbox] \in Screens
    BY DEF TypeOK, Screens
  <2>2. review' \in [Reviewers -> Screens] /\ lock' = u
    BY <1>4, <2>1 DEF TypeOK, ApproveBegin
  <2>3. QED
    BY <1>1, <1>4, <2>2 DEF TypeOK, ApproveBegin
<1>5. CASE ApproveCommit(u)
  <2>1. erp' \in Orders
    BY <1>2, <1>5, NewOrderType, RecordPaymentType DEF ApproveCommit, TypeOK
  <2>2. [inbox EXCEPT !.status = "APPROVED"] \in Rows
    BY DEF TypeOK, Rows, InboxStatuses
  <2>3. review' \in [Reviewers -> Screens] /\ lock' = Free
    BY <1>5, Constants DEF TypeOK, ApproveCommit
  <2>4. QED
    BY <1>1, <1>5, <2>1, <2>2, <2>3 DEF TypeOK, ApproveCommit
<1>6. CASE CloseRow(u)
  <2>1. review' \in [Reviewers -> Screens] /\ lock' \in {Free, lock}
    BY <1>6, Constants DEF TypeOK, CloseRow
  <2>2. QED
    BY <1>1, <1>6, <2>1 DEF TypeOK, CloseRow
<1>7. QED
  BY <1>1, <1>3, <1>4, <1>5, <1>6

LEMMA RejectInv ==
  ASSUME TypeOK, JobInv, Reject
  PROVE  TypeOK' /\ JobInv'
<1>1. JobInv'
  BY SameJobs DEF Reject
<1>2. [inbox EXCEPT !.status = "REJECTED"] \in Rows
  BY DEF TypeOK, Rows, InboxStatuses
<1>3. QED
  BY <1>1, <1>2 DEF TypeOK, Reject

MoveOfOrder ==
  \/ ApproveOrder \/ ReturnToAccounts \/ RejectOrder
  \/ GoToPress \/ BackFromPress \/ HandToDispatch
  \/ \E request \in {"hand", "items"} : RequestCancellation(request)
  \/ ApproveCancellation \/ RejectCancellation

MoveOfErp == MoveOfOrder \/ \E i \in DOMAIN erp.pays : MoveOfReceipt(i)

(* Receipts of the same amounts.                                           *)
SameAmounts(s, t) ==
  DOMAIN s = DOMAIN t /\ \A k \in DOMAIN s : s[k].amount = t[k].amount

(* Deleting one of a sequence.                                             *)
LEMMA DeletePay ==
  ASSUME NEW s \in Seq(Payments), NEW i \in DOMAIN s
  PROVE  /\ [k \in 1..Len(s) - 1 |-> IF k < i THEN s[k] ELSE s[k + 1]] \in Seq(Payments)
         /\ Len([k \in 1..Len(s) - 1 |-> IF k < i THEN s[k] ELSE s[k + 1]]) < Len(s)
<1> DEFINE n == Len(s) - 1
           t == [k \in 1..n |-> IF k < i THEN s[k] ELSE s[k + 1]]
<1>1. /\ Len(s) \in Nat /\ i \in 1..Len(s) /\ n \in Nat
      /\ \A k \in 1..Len(s) : s[k] \in Payments
  BY LenProperties, ElementOfSeq
<1>2. \A k \in 1..n : k \in 1..Len(s) /\ k + 1 \in 1..Len(s)
  BY <1>1
<1>3. t \in [1..n -> Payments]
  BY <1>1, <1>2
<1> HIDE DEF t
<1>4. t \in Seq(Payments)
  BY <1>1, <1>3, SeqDef
<1>5. Len(t) \in Nat /\ 1..Len(t) = 1..n
  BY <1>3, <1>4, LenProperties
<1>6. Len(t) = n
  BY <1>1, <1>5
<1>7. QED
  BY <1>1, <1>4, <1>6 DEF t

(* What no move of a receipt changes.                                      *)
LEMMA ReceiptFacts ==
  ASSUME TypeOK, NEW i \in DOMAIN erp.pays, MoveOfReceipt(i)
  PROVE  /\ erp'.pays \in Seq(Payments) /\ erp' = [erp EXCEPT !.pays = erp'.pays]
         /\ SameAmounts(erp'.pays, erp.pays) \/ ReceiptEdited \/ ReceiptDeleted
         /\ UNCHANGED <<shop, log, job, batch, lock, inbox, review, crashes>>
<1>1. erp \in Orders /\ erp.pays \in Seq(Payments)
  BY OrderFields DEF TypeOK
<1>2. erp.pays[i] \in Payments
  BY <1>1, ElementOfSeq, LenProperties
<1>3. ASSUME NEW q \in Payments, erp' = [erp EXCEPT !.pays = [@ EXCEPT ![i] = q]],
             \/ q.amount = erp.pays[i].amount
             \/ erp.pays[i].status = "PENDING_VERIFICATION"
      PROVE  /\ erp'.pays \in Seq(Payments) /\ erp' = [erp EXCEPT !.pays = erp'.pays]
             /\ SameAmounts(erp'.pays, erp.pays) \/ ReceiptEdited
  <2>1. [erp.pays EXCEPT ![i] = q] \in Seq(Payments)
    BY <1>1, ReplacePay
  <2>2. erp'.pays = [erp.pays EXCEPT ![i] = q]
    BY <1>1, <1>3 DEF Orders
  <2>3. DOMAIN erp'.pays = DOMAIN erp.pays /\ erp'.pays[i] = q
        /\ \A k \in DOMAIN erp.pays : k # i => erp'.pays[k] = erp.pays[k]
    BY <2>2
  <2>4. SameAmounts(erp'.pays, erp.pays) \/ ReceiptEdited
    BY <1>3, <2>3 DEF SameAmounts, ReceiptEdited
  <2>5. QED
    BY <1>1, <1>3, <2>1, <2>2, <2>4 DEF Orders
<1>4. ASSUME NEW keep \in BOOLEAN, VerifyPayment(i, keep)
      PROVE  \E q \in Payments : /\ erp' = [erp EXCEPT !.pays = [@ EXCEPT ![i] = q]]
                                 /\ q.amount = erp.pays[i].amount
  <2> DEFINE q == [erp.pays[i] EXCEPT !.status = "VERIFIED", !.tagged = @ /\ keep]
  <2>1. q \in Payments /\ q.amount = erp.pays[i].amount
    BY <1>2 DEF Payments
  <2>2. erp' = [erp EXCEPT !.pays = [@ EXCEPT ![i] = q]]
    BY <1>4 DEF VerifyPayment, ErpMove
  <2>3. QED
    BY <2>1, <2>2
<1>5. ASSUME NEW amount \in Typed \cup {erp.pays[i].amount}, NEW keep \in BOOLEAN,
             EditPayment(i, amount, keep)
      PROVE  \E q \in Payments : /\ erp' = [erp EXCEPT !.pays = [@ EXCEPT ![i] = q]]
                                 /\ erp.pays[i].status = "PENDING_VERIFICATION"
  <2> DEFINE q == [erp.pays[i] EXCEPT !.amount = amount, !.tagged = @ /\ keep]
  <2>1. q \in Payments
    BY <1>2, ShopifyAssumption DEF Payments
  <2>2. erp' = [erp EXCEPT !.pays = [@ EXCEPT ![i] = q]]
    BY <1>5 DEF EditPayment, ErpMove
  <2>3. QED
    BY <1>5, <2>1, <2>2 DEF EditPayment
<1>6. ASSUME RejectPayment(i)
      PROVE  \E q \in Payments : /\ erp' = [erp EXCEPT !.pays = [@ EXCEPT ![i] = q]]
                                 /\ q.amount = erp.pays[i].amount
  <2> DEFINE q == [erp.pays[i] EXCEPT !.status = "REJECTED"]
  <2>1. q \in Payments /\ q.amount = erp.pays[i].amount
    BY <1>2 DEF Payments
  <2>2. erp' = [erp EXCEPT !.pays = [@ EXCEPT ![i] = q]]
    BY <1>6 DEF RejectPayment, ErpMove
  <2>3. QED
    BY <2>1, <2>2
<1>7. ASSUME DeletePayment(i)
      PROVE  /\ erp'.pays \in Seq(Payments) /\ erp' = [erp EXCEPT !.pays = erp'.pays]
             /\ ReceiptDeleted
  <2> DEFINE t == [k \in 1..Len(erp.pays) - 1 |->
                     IF k < i THEN erp.pays[k] ELSE erp.pays[k + 1]]
  <2>1. t \in Seq(Payments) /\ Len(t) < Len(erp.pays)
    BY <1>1, DeletePay
  <2>2. erp' = [erp EXCEPT !.pays = t]
    BY <1>7 DEF DeletePayment, ErpMove
  <2> HIDE DEF t
  <2>3. erp'.pays = t
    BY <1>1, <2>2 DEF Orders
  <2>4. QED
    BY <2>1, <2>2, <2>3 DEF ReceiptDeleted
<1>8. UNCHANGED <<shop, log, job, batch, lock, inbox, review, crashes>>
  BY DEF MoveOfReceipt, VerifyPayment, EditPayment, RejectPayment, DeletePayment, ErpMove
<1>9. QED
  BY <1>3, <1>4, <1>5, <1>6, <1>7, <1>8 DEF MoveOfReceipt

(* What no move of the ERP changes.                                        *)
LEMMA ErpMoveFacts ==
  ASSUME TypeOK, MoveOfErp
  PROVE  /\ erp' \in Orders
         /\ erp'.from = erp.from /\ erp'.ver = erp.ver /\ erp'.flagged = erp.flagged
         /\ erp'.handled = erp.handled /\ erp'.flags = erp.flags
         /\ erp.status # "NONE" => erp'.status # "NONE"
         /\ erp.status = "NONE" /\ erp.request = "none" =>
              erp'.status = "NONE" /\ erp'.request = "none"
         /\ erp'.request \in {erp.request, "none", "hand", "items"}
         /\ SameAmounts(erp'.pays, erp.pays) \/ ReceiptEdited \/ ReceiptDeleted
         /\ UNCHANGED <<shop, log, job, batch, lock, inbox, review, crashes>>
<1>1. erp \in Orders
  BY DEF TypeOK
<1>2. CASE MoveOfOrder
  <2>1. erp' \in Orders /\ erp'.pays = erp.pays
    BY <1>1, <1>2 DEF MoveOfOrder, ApproveOrder, ReturnToAccounts, RejectOrder, GoToPress,
                      BackFromPress, HandToDispatch, RequestCancellation, ApproveCancellation,
                      RejectCancellation, ErpMove, Orders, Stages
  <2>2. SameAmounts(erp'.pays, erp.pays)
    BY <2>1 DEF SameAmounts
  <2>3. QED
    BY <1>1, <1>2, <2>1, <2>2
    DEF MoveOfOrder, ApproveOrder, ReturnToAccounts, RejectOrder, GoToPress,
        BackFromPress, HandToDispatch, RequestCancellation, ApproveCancellation,
        RejectCancellation, ErpMove, Orders, Exists
<1>3. ASSUME NEW i \in DOMAIN erp.pays, MoveOfReceipt(i)
      PROVE  /\ erp'.pays \in Seq(Payments) /\ erp' = [erp EXCEPT !.pays = erp'.pays]
             /\ SameAmounts(erp'.pays, erp.pays) \/ ReceiptEdited \/ ReceiptDeleted
             /\ UNCHANGED <<shop, log, job, batch, lock, inbox, review, crashes>>
  BY <1>3, ReceiptFacts
<1>4. QED
  BY <1>1, <1>2, <1>3 DEF MoveOfErp, Orders

LEMMA ErpMoveInv ==
  ASSUME TypeOK, JobInv, MoveOfErp
  PROVE  TypeOK' /\ JobInv'
BY ErpMoveFacts, SameJobs DEF TypeOK

-----------------------------------------------------------------------------
(* Every step keeps the types and the jobs apart.                          *)
LEMMA StepInv == TypeOK /\ JobInv /\ [Next]_vars => TypeOK' /\ JobInv'
<1> SUFFICES ASSUME TypeOK, JobInv, [Next]_vars PROVE TypeOK' /\ JobInv'
  OBVIOUS
<1>1. ASSUME NEW w \in Hooks, NEW v \in Versions, Receive(w, v) \/ Ignore(w)
      PROVE TypeOK' /\ JobInv'
  BY <1>1, ArrivesInv
<1>2. ASSUME NEW w \in Hooks, ProcessNow(w) PROVE TypeOK' /\ JobInv'
  BY <1>2, ProcessNowInv
<1>3. ASSUME NEW w \in Hooks, Tick(w) PROVE TypeOK' /\ JobInv'
  BY <1>3, TickInv
<1>4. CASE RetryStart
  BY <1>4, RetryStartInv
<1>5. CASE RetryNext
  BY <1>5, RetryNextInv
<1>6. ASSUME NEW j \in Jobs,
             TxBegin(j) \/ SaveToInbox(j) \/ SaveToOrder(j) \/ TxFail(j) \/ Finish(j)
      PROVE TypeOK' /\ JobInv'
  BY <1>6, TxBeginInv, SaveToInboxInv, SaveToOrderInv, TxFailInv, FinishInv
<1>7. CASE Crash
  BY <1>7, CrashInv
<1>8. ASSUME NEW u \in Reviewers,
             OpenRow(u) \/ ApproveBegin(u) \/ ApproveCommit(u) \/ CloseRow(u)
      PROVE TypeOK' /\ JobInv'
  BY <1>8, ReviewInv
<1>9. CASE Reject
  BY <1>9, RejectInv
<1>10. CASE MoveOfErp
  BY <1>10, ErpMoveInv
<1>11. CASE UNCHANGED vars
  <2>1. TypeOK'
    BY <1>11 DEF TypeOK, vars
  <2>2. QED
    BY <1>11, <2>1, SameJobs DEF vars
<1>12. QED
  BY <1>1, <1>2, <1>3, <1>4, <1>5, <1>6, <1>7, <1>8, <1>9, <1>10, <1>11, Constants
  DEF Next, MoveOfErp, MoveOfOrder

(* Every variable stays of its type: no hook is tried more often than the  *)
(* limit, however its first run, the retry job and restarts interleave.    *)
THEOREM TypeCorrect == Spec => []TypeOK
<1>1. Init => TypeOK /\ JobInv
  BY InitInv
<1>2. QED
  BY <1>1, StepInv, PTL DEF Spec

(* No hook is ever run by two jobs at once.                                *)
THEOREM HooksRunOnce == Spec => []OneRun
<1>1. Init => TypeOK /\ JobInv
  BY InitInv
<1>2. JobInv => OneRun
  BY DEF JobInv
<1>3. QED
  BY <1>1, <1>2, StepInv, PTL DEF Spec

-----------------------------------------------------------------------------
(* Who holds the lock is in a transaction, and found the row as it is,     *)
(* but for a refusal.  What waits in the inbox is not cancelled in the     *)
(* shop, and the row is APPROVED once there is an ERP order, of its        *)
(* version.                                                                *)
Locked ==
  /\ \A j \in Jobs : job[j].pc = "tx" <=> lock = j
  /\ \A u \in Reviewers : review[u].pc = "tx" <=> lock = u

Matches(row) ==
  /\ row.status = "NEW" => ~ shop[row.ver].cancelled
  /\ row.status = "CANCELLED" => shop[row.ver].cancelled

Kept ==
  /\ inbox.status = "APPROVED" <=> Exists
  /\ Exists => erp.ver = inbox.ver
  /\ ~ Exists => erp.request = "none"
  /\ erp.request = "Shopify" => erp.handled
  /\ Matches(inbox)

FoundRow(row) ==
  /\ row.ver = inbox.ver /\ row.status # "APPROVED" /\ Matches(row)
  /\ row.status = "NONE" <=> inbox.status = "NONE"

Found == lock # Free /\ ~ Exists => FoundRow(SeenBy(lock))

SaleInv == Locked /\ Kept /\ Found

LEMMA HolderTypes ==
  ASSUME TypeOK
  PROVE  /\ \A j \in Jobs : j # Free /\ j \notin Reviewers
         /\ \A u \in Reviewers : u # Free /\ u \notin Jobs
         /\ lock # Free => lock \in Jobs \/ lock \in Reviewers
BY ShopifyAssumption DEF TypeOK

LEMMA SeenTypes ==
  ASSUME TypeOK, NEW l \in Jobs \cup Reviewers
  PROVE  SeenBy(l) \in Rows /\ SeenBy(l).status \in InboxStatuses /\ SeenBy(l).ver \in Versions
<1>1. SeenBy(l) \in Rows
  BY DEF SeenBy, TypeOK, JobStates, Screens
<1>2. QED
  BY <1>1 DEF Rows

LEMMA StandingTypes ==
  ASSUME NEW row, row.status \in InboxStatuses
  PROVE  StandingOf(row) \in {"unseen", "waiting", "withdrawn", "declined", "ordered"}
BY DEF StandingOf, InboxStatuses

(* Steps of those who do not hold the lock.                                *)
LEMMA Quiet ==
  ASSUME TypeOK, SaleInv, UNCHANGED <<shop, lock, inbox, erp>>,
         \A j \in Jobs : /\ job'[j].pc = "tx" <=> job[j].pc = "tx"
                         /\ job[j].pc = "tx" => job'[j].seen = job[j].seen,
         \A u \in Reviewers : /\ review'[u].pc = "tx" <=> review[u].pc = "tx"
                              /\ review[u].pc = "tx" => review'[u].seen = review[u].seen
  PROVE  SaleInv' /\ UNCHANGED Sale!vars
<1>1. Locked'
  BY DEF SaleInv, Locked
<1>2. lock # Free => SeenBy(lock)' = SeenBy(lock)
  BY HolderTypes DEF SaleInv, Locked, SeenBy
<1>3. Exists' = Exists
  BY DEF Exists
<1>4. Kept'
  BY <1>3 DEF SaleInv, Kept, Matches
<1>5. Found'
  BY <1>2, <1>3 DEF SaleInv, Found, FoundRow, Matches
<1>6. SaleBar' = SaleBar
  BY <1>3 DEF SaleBar, StandingOf
<1>7. FoundBar' = FoundBar
  BY <1>2, <1>3 DEF FoundBar, StandingOf
<1>8. QED
  BY <1>1, <1>4, <1>5, <1>6, <1>7 DEF SaleInv, Sale!vars

(* Taking the lock.                                                        *)
LEMMA Takes ==
  ASSUME TypeOK, SaleInv, UNCHANGED <<shop, inbox, erp>>, lock = Free,
         NEW l \in Jobs \cup Reviewers, lock' = l, Locked', SeenBy(l)' = inbox
  PROVE  SaleInv' /\ Sale!Begin
<1>1. Exists' = Exists /\ l # Free
  BY HolderTypes DEF Exists
<1>2. Kept'
  BY <1>1 DEF SaleInv, Kept, Matches
<1>3. Found'
  BY <1>1 DEF SaleInv, Found, Kept, FoundRow, Matches
<1>4. SaleBar' = SaleBar
  BY <1>1 DEF SaleBar, StandingOf
<1>5. FoundBar = "nobody" /\ FoundBar' = SaleBar
  <2>1. SeenBy(lock)' = inbox
    BY DEF SeenBy
  <2>2. QED
    BY <1>1, <2>1 DEF FoundBar, SaleBar
<1>6. QED
  BY <1>2, <1>3, <1>4, <1>5 DEF SaleInv, Sale!Begin

LEMMA TxBeginSale ==
  ASSUME TypeOK, SaleInv, NEW j \in Jobs, TxBegin(j)
  PROVE  SaleInv' /\ Sale!Begin
<1>1. /\ job'[j].pc = "tx" /\ job'[j].seen = inbox /\ \A i \in Jobs : i # j => job'[i] = job[i]
      /\ lock = Free /\ lock' = j /\ review' = review
  BY DEF TxBegin, TypeOK, JobStates
<1>2. Locked'
  BY <1>1, HolderTypes DEF SaleInv, Locked
<1>3. SeenBy(j)' = inbox
  BY <1>1 DEF SeenBy
<1>4. QED
  BY <1>1, <1>2, <1>3, Takes DEF TxBegin

LEMMA ApproveBeginSale ==
  ASSUME TypeOK, SaleInv, NEW u \in Reviewers, ApproveBegin(u)
  PROVE  SaleInv' /\ Sale!Begin
<1>1. /\ review'[u].pc = "tx" /\ review'[u].seen = inbox
      /\ \A x \in Reviewers : x # u => review'[x] = review[x]
      /\ lock = Free /\ lock' = u /\ job' = job
  BY DEF ApproveBegin, TypeOK
<1>2. Locked'
  BY <1>1, HolderTypes DEF SaleInv, Locked
<1>3. SeenBy(u)' = inbox
  BY <1>1, HolderTypes DEF SeenBy
<1>4. QED
  BY <1>1, <1>2, <1>3, Takes DEF ApproveBegin

(* Giving the lock up.                                                     *)
LEMMA Frees ==
  ASSUME TypeOK, Locked, NEW l \in Jobs \cup Reviewers, lock = l, lock' = Free,
         \A j \in Jobs : IF j = l THEN job'[j].pc # "tx" ELSE job'[j].pc = job[j].pc,
         \A u \in Reviewers : IF u = l THEN review'[u].pc # "tx"
                                       ELSE review'[u].pc = review[u].pc
  PROVE  Locked' /\ FoundBar # "nobody" /\ FoundBar' = "nobody" /\ Found'
<1>1. Locked'
  BY HolderTypes DEF Locked
<1>2. FoundBar # "nobody" /\ FoundBar' = "nobody"
  <2>1. StandingOf(SeenBy(lock)) # "nobody"
    BY SeenTypes, StandingTypes
  <2>2. QED
    BY <2>1, HolderTypes DEF FoundBar
<1>3. Found'
  BY DEF Found
<1>4. QED
  BY <1>1, <1>2, <1>3

LEMMA LeaveFrees ==
  ASSUME TypeOK, SaleInv, NEW j \in Jobs, NEW pc \in {"ok", "err"}, job[j].pc = "tx",
         job' = [job EXCEPT ![j].pc = pc, ![j].seen = NoRow], lock' = Free, review' = review
  PROVE  Locked' /\ FoundBar # "nobody" /\ FoundBar' = "nobody" /\ Found'
<1>1. lock = j /\ Locked /\ \A u \in Reviewers : u # j
  BY HolderTypes DEF SaleInv, Locked
<1>2. job'[j].pc = pc /\ \A i \in Jobs : i # j => job'[i] = job[i]
  BY DEF TypeOK, JobStates
<1>3. QED
  BY <1>1, <1>2, Frees

(* A rolled back transaction leaves all as it was.                         *)
LEMMA GivesUp ==
  ASSUME SaleInv, UNCHANGED <<shop, inbox, erp>>, Locked', Found',
         FoundBar # "nobody", FoundBar' = "nobody"
  PROVE  SaleInv' /\ Sale!GiveUp
<1>1. Exists' = Exists
  BY DEF Exists
<1>2. Kept' /\ SaleBar' = SaleBar
  BY <1>1 DEF SaleInv, Kept, Matches, SaleBar, StandingOf
<1>3. QED
  BY <1>2 DEF SaleInv, Sale!GiveUp

LEMMA TxFailSale ==
  ASSUME TypeOK, SaleInv, NEW j \in Jobs, TxFail(j)
  PROVE  SaleInv' /\ [Sale!Next]_Sale!vars
<1>1. CASE job[j].pc = "tx"
  <2>1. lock' = Free
    BY <1>1 DEF TxFail, SaleInv, Locked
  <2>2. Locked' /\ FoundBar # "nobody" /\ FoundBar' = "nobody" /\ Found'
    BY <1>1, <2>1, LeaveFrees DEF TxFail
  <2>3. SaleInv' /\ Sale!GiveUp
    BY <2>2, GivesUp DEF TxFail
  <2>4. QED
    BY <2>3 DEF Sale!Next
<1>2. CASE job[j].pc = "claimed"
  <2>1. lock' = lock
    BY <1>2 DEF TxFail, SaleInv, Locked
  <2>2. \A i \in Jobs : /\ job'[i].pc = "tx" <=> job[i].pc = "tx"
                        /\ job[i].pc = "tx" => job'[i].seen = job[i].seen
    BY <1>2 DEF TxFail, TypeOK, JobStates
  <2>3. SaleInv' /\ UNCHANGED Sale!vars
    BY <2>1, <2>2, Quiet DEF TxFail
  <2>4. QED
    BY <2>3
<1>3. QED
  BY <1>1, <1>2 DEF TxFail

LEMMA CloseRowSale ==
  ASSUME TypeOK, SaleInv, NEW u \in Reviewers, CloseRow(u)
  PROVE  SaleInv' /\ [Sale!Next]_Sale!vars
<1>1. review'[u].pc = "idle" /\ \A x \in Reviewers : x # u => review'[x] = review[x]
  BY DEF CloseRow, TypeOK, NoScreen
<1>2. CASE review[u].pc = "tx"
  <2>1. lock = u /\ lock' = Free /\ job' = job /\ \A j \in Jobs : j # u
    BY <1>2, HolderTypes DEF CloseRow, SaleInv, Locked
  <2>2. Locked' /\ FoundBar # "nobody" /\ FoundBar' = "nobody" /\ Found'
    BY <1>1, <2>1, Frees DEF SaleInv
  <2>3. SaleInv' /\ Sale!GiveUp
    BY <2>2, GivesUp DEF CloseRow
  <2>4. QED
    BY <2>3 DEF Sale!Next
<1>3. CASE review[u].pc = "open"
  <2>1. SaleInv' /\ UNCHANGED Sale!vars
    BY <1>1, <1>3, Quiet DEF CloseRow
  <2>2. QED
    BY <2>1
<1>4. QED
  BY <1>2, <1>3 DEF CloseRow

LEMMA CrashSale ==
  ASSUME TypeOK, SaleInv, Crash
  PROVE  SaleInv' /\ [Sale!Next]_Sale!vars
<1>1. /\ \A j \in Jobs : job'[j].pc = "idle"
      /\ \A u \in Reviewers : review'[u].pc # "tx"
      /\ \A u \in Reviewers : review[u].pc # "tx" => review'[u] = review[u]
  BY DEF Crash, Idle, NoScreen
<1>2. CASE lock = Free
  <2>1. /\ \A j \in Jobs : job[j].pc # "tx"
        /\ \A u \in Reviewers : review[u].pc # "tx"
    BY <1>2, HolderTypes DEF SaleInv, Locked
  <2>2. SaleInv' /\ UNCHANGED Sale!vars
    BY <1>1, <1>2, <2>1, Quiet DEF Crash
  <2>3. QED
    BY <2>2
<1>3. CASE lock # Free
  <2>1. Locked' /\ Found'
    BY <1>1, HolderTypes DEF Crash, Locked, Found
  <2>2. FoundBar # "nobody"
    <3>1. StandingOf(SeenBy(lock)) # "nobody"
      BY <1>3, HolderTypes, SeenTypes, StandingTypes
    <3>2. QED
      BY <1>3, <3>1 DEF FoundBar
  <2>3. FoundBar' = "nobody"
    BY DEF Crash, FoundBar
  <2>4. SaleInv' /\ Sale!GiveUp
    BY <2>1, <2>2, <2>3, GivesUp DEF Crash
  <2>5. QED
    BY <2>4 DEF Sale!Next
<1>4. QED
  BY <1>2, <1>3

(* A refusal, which takes no lock.                                         *)
LEMMA RejectSale ==
  ASSUME TypeOK, SaleInv, Reject
  PROVE  SaleInv' /\ Sale!Refuse
<1>1. inbox.status \in {"NEW", "CANCELLED"} /\ inbox'.status = "REJECTED" /\ inbox'.ver = inbox.ver
  BY DEF Reject, TypeOK, Rows
<1>2. ~ Exists /\ ~ Exists'
  BY <1>1 DEF SaleInv, Kept, Reject, Exists
<1>3. SeenBy(lock)' = SeenBy(lock) /\ lock' = lock
  BY DEF Reject, SeenBy
<1>4. Locked'
  BY DEF Reject, SaleInv, Locked
<1>5. Kept'
  BY <1>1, <1>2 DEF Reject, SaleInv, Kept, Matches
<1>6. Found'
  BY <1>1, <1>2, <1>3 DEF Reject, SaleInv, Found, FoundRow, Matches
<1>7. SaleBar \in {"waiting", "withdrawn"} /\ SaleBar' = "declined"
  BY <1>1, <1>2 DEF SaleBar, StandingOf
<1>8. FoundBar' = FoundBar
  BY <1>2, <1>3 DEF FoundBar, StandingOf
<1>9. QED
  BY <1>4, <1>5, <1>6, <1>7, <1>8 DEF SaleInv, Sale!Refuse

(* A hook applied to the inbox.                                            *)
LEMMA UpsertedFacts ==
  ASSUME TypeOK, SaleInv, NEW row \in Rows, FoundRow(row), NEW v \in Versions, ~ Exists
  PROVE  LET new == Upserted(row, v)
         IN
         /\ new.status # "APPROVED" /\ Matches(new) /\ new.ver \in Versions
         /\ new.status # "NONE" /\ v <= new.ver
         /\ inbox.status # "NONE" => inbox.ver <= new.ver
         /\ \/ new = inbox
            \/ row.status = "REJECTED" /\ new.status = "REJECTED"
            \/ row.status \in {"NONE", "NEW"} /\ new.status \in {"NEW", "CANCELLED"}
            \/ row.status = "CANCELLED" /\ new.status = "CANCELLED"
<1> DEFINE new == Upserted(row, v)
<1>1. /\ row.status \in InboxStatuses /\ row.ver \in Nat /\ v \in Nat /\ inbox.ver \in Nat
      /\ inbox.ver \in Versions /\ row.ver \in Versions /\ inbox.status \in InboxStatuses
  BY Constants DEF Rows, TypeOK
<1>2. CASE row.status # "NONE" /\ v < row.ver
  <2>1. new = inbox
    BY <1>2 DEF Upserted
  <2>2. QED
    BY <1>1, <1>2, <2>1 DEF FoundRow, SaleInv, Kept
<1>3. CASE ~ (row.status # "NONE" /\ v < row.ver) /\ row.status = "REJECTED"
  <2>1. new = Row("REJECTED", v)
    BY <1>3 DEF Upserted, After
  <2>2. QED
    BY <1>1, <1>3, <2>1 DEF FoundRow, Row, Matches
<1>4. CASE ~ (row.status # "NONE" /\ v < row.ver) /\ row.status # "REJECTED"
  <2>1. new = Row(Standing(v), v)
    BY <1>4 DEF Upserted, After, FoundRow
  <2>2. row.status = "CANCELLED" => shop[v].cancelled
    <3>1. row.status = "CANCELLED" => shop[row.ver].cancelled /\ row.ver <= v
      BY <1>1, <1>4 DEF FoundRow, Matches
    <3>2. QED
      BY <1>1, <3>1, HistoryAssumption DEF TypeOK
  <2>3. new.ver = v /\ new.status = IF shop[v].cancelled THEN "CANCELLED" ELSE "NEW"
    BY <2>1 DEF Row, Standing
  <2>4. v <= new.ver /\ (inbox.status # "NONE" => inbox.ver <= new.ver)
    BY <1>1, <1>4, <2>3 DEF FoundRow
  <2>5. Matches(new) /\ new.status \in {"NEW", "CANCELLED"}
    BY <2>3 DEF Matches
  <2>6. QED
    BY <1>1, <1>4, <2>2, <2>3, <2>4, <2>5 DEF InboxStatuses, FoundRow
<1>5. QED
  BY <1>2, <1>3, <1>4

LEMMA SaveToInboxSale ==
  ASSUME TypeOK, JobInv, SaleInv, NEW j \in Jobs, SaveToInbox(j)
  PROVE  SaleInv' /\ [Sale!Next]_Sale!vars
<1> DEFINE row == job[j].seen
           v == log[job[j].hook].ver
<1>1. /\ lock = j /\ lock # Free /\ SeenBy(lock) = row /\ ~ Exists /\ ~ Exists'
      /\ row \in Rows /\ FoundRow(row) /\ v \in Versions
  BY HolderTypes, JobTypes, LogTypes
  DEF SaveToInbox, SaleInv, Locked, Found, SeenBy, Exists, JobInv, Claims, AtWork
<1>2. inbox' = Upserted(row, v)
  BY DEF SaveToInbox
<1> HIDE DEF row, v
<1>3. /\ inbox'.status # "APPROVED" /\ Matches(inbox')
      /\ \/ inbox' = inbox
         \/ row.status = "REJECTED" /\ inbox'.status = "REJECTED"
         \/ row.status \in {"NONE", "NEW"} /\ inbox'.status \in {"NEW", "CANCELLED"}
         \/ row.status = "CANCELLED" /\ inbox'.status = "CANCELLED"
  BY <1>1, <1>2, UpsertedFacts
<1>4. Locked' /\ FoundBar # "nobody" /\ FoundBar' = "nobody" /\ Found'
  BY LeaveFrees DEF SaveToInbox, Leave
<1>5. Kept'
  BY <1>1, <1>3 DEF SaveToInbox, SaleInv, Kept, Matches
<1>0. SaleInv'
  BY <1>4, <1>5 DEF SaleInv
<1>6. FoundBar = StandingOf(row) /\ SaleBar = StandingOf(inbox) /\ SaleBar' = StandingOf(inbox')
  BY <1>1 DEF FoundBar, SaleBar, StandingOf
<1>7. CASE inbox' = inbox
  <2>1. SaleBar' = SaleBar
    BY <1>6, <1>7
  <2>2. QED
    BY <1>0, <1>4, <2>1 DEF Sale!Next, Sale!GiveUp
<1>8. CASE inbox' # inbox
  <2>1. CASE row.status = "REJECTED" /\ inbox'.status = "REJECTED"
    <3>1. FoundBar = "declined" /\ SaleBar' = "declined"
      BY <1>6, <2>1 DEF StandingOf
    <3>2. QED
      BY <1>0, <1>4, <3>1 DEF Sale!Next, Sale!Finish, Sale!MayLeave, Sale!Standings
  <2>2. CASE row.status \in {"NONE", "NEW"} /\ inbox'.status \in {"NEW", "CANCELLED"}
    <3>1. FoundBar \in {"unseen", "waiting"} /\ SaleBar' \in {"waiting", "withdrawn"}
      BY <1>6, <2>2 DEF StandingOf
    <3>2. QED
      BY <1>0, <1>4, <3>1 DEF Sale!Next, Sale!Finish, Sale!MayLeave, Sale!Standings
  <2>3. CASE row.status = "CANCELLED" /\ inbox'.status = "CANCELLED"
    <3>1. FoundBar = "withdrawn" /\ SaleBar' = "withdrawn"
      BY <1>6, <2>3 DEF StandingOf
    <3>2. QED
      BY <1>0, <1>4, <3>1 DEF Sale!Next, Sale!Finish, Sale!MayLeave, Sale!Standings
  <2>4. QED
    BY <1>3, <1>8, <2>1, <2>2, <2>3
<1>9. QED
  BY <1>7, <1>8

(* A hook applied to an approved order: the order is one as it was.        *)
LEMMA SaveToOrderSale ==
  ASSUME TypeOK, JobInv, SaleInv, NEW j \in Jobs, SaveToOrder(j)
  PROVE  SaleInv' /\ [Sale!Next]_Sale!vars
<1> DEFINE v == log[job[j].hook].ver
<1>1. v \in Versions /\ Exists /\ erp \in Orders /\ shop \in Histories /\ inbox.status = "APPROVED"
  BY LogTypes DEF SaveToOrder, JobInv, Claims, AtWork, TypeOK, SaleInv, Kept
<1>2. \/ UNCHANGED <<inbox, erp>>
      \/ erp' = Updated(v) /\ inbox' = Row("APPROVED", v)
  BY <1>1 DEF SaveToOrder, Updated
<1> HIDE DEF v
<1>3. /\ Exists' /\ inbox'.status = "APPROVED" /\ erp'.ver = inbox'.ver
      /\ erp'.request = "Shopify" => erp'.handled
  <2>1. CASE UNCHANGED <<inbox, erp>>
    BY <1>1, <2>1 DEF Exists, SaleInv, Kept
  <2>2. CASE erp' = Updated(v) /\ inbox' = Row("APPROVED", v)
    BY <1>1, <2>2, UpdatedType DEF Exists, SaleInv, Kept, Row
  <2>3. QED
    BY <1>2, <2>1, <2>2
<1>4. Locked' /\ FoundBar # "nobody" /\ FoundBar' = "nobody" /\ Found'
  BY LeaveFrees DEF SaveToOrder, Leave
<1>5. Kept'
  BY <1>3 DEF Kept, Matches
<1>6. SaleBar = "ordered" /\ SaleBar' = "ordered"
  BY <1>1, <1>3 DEF SaleBar
<1>7. QED
  BY <1>4, <1>5, <1>6 DEF SaleInv, Sale!Next, Sale!GiveUp

LEMMA ApproveCommitFacts ==
  ASSUME TypeOK, SaleInv, NEW u \in Reviewers, ApproveCommit(u)
  PROVE  LET row == review[u].seen
         IN  /\ row.status = "NEW" /\ row \in Rows /\ FoundRow(row) /\ ~ Exists
             /\ row.ver \in Versions /\ ~ shop[row.ver].cancelled
             /\ lock = u /\ SeenBy(lock) = row
             /\ erp' \in Orders /\ erp'.status = "PENDING_APPROVAL" /\ erp'.request = "none"
             /\ erp'.ver = row.ver /\ erp'.from = row.ver
             /\ inbox'.status = "APPROVED" /\ inbox'.ver = inbox.ver
             /\ shop[row.ver].paid > 0 =>
                  \/ \E i \in DOMAIN erp'.pays : erp'.pays[i].amount = shop[row.ver].paid
                  \/ shop[row.ver].paid \in erp'.flags
<1> DEFINE row == review[u].seen
<1>1. row.status = "NEW" /\ row \in Rows /\ row.ver \in Versions /\ ~ Exists
  BY DEF ApproveCommit, TypeOK, Screens, Rows
<1>2. lock = u /\ SeenBy(lock) = row /\ lock # Free
  BY HolderTypes DEF ApproveCommit, SaleInv, Locked, SeenBy
<1>3. FoundRow(row)
  BY <1>1, <1>2 DEF SaleInv, Found
<1>4. NewOrder(row.ver) \in Orders /\ erp' = RecordPayment(NewOrder(row.ver), row.ver)
  BY <1>1, NewOrderType DEF ApproveCommit
<1>5. /\ NewOrder(row.ver).status = "PENDING_APPROVAL" /\ NewOrder(row.ver).request = "none"
      /\ NewOrder(row.ver).ver = row.ver /\ NewOrder(row.ver).from = row.ver
  BY DEF NewOrder
<1>6. shop \in Histories
  BY DEF TypeOK
<1> HIDE DEF row
<1>7. /\ erp' \in Orders /\ erp'.status = "PENDING_APPROVAL" /\ erp'.request = "none"
      /\ erp'.ver = row.ver /\ erp'.from = row.ver
      /\ shop[row.ver].paid > 0 =>
           \/ \E i \in DOMAIN erp'.pays : erp'.pays[i].amount = shop[row.ver].paid
           \/ shop[row.ver].paid \in erp'.flags
  BY <1>1, <1>4, <1>5, <1>6, RecordPaymentType
<1>8. inbox'.status = "APPROVED" /\ inbox'.ver = inbox.ver
  BY DEF ApproveCommit, TypeOK, Rows
<1>9. ~ shop[row.ver].cancelled
  BY <1>1, <1>3 DEF FoundRow, Matches
<1>10. QED
  BY <1>1, <1>2, <1>3, <1>7, <1>8, <1>9 DEF row

LEMMA ApproveCommitSale ==
  ASSUME TypeOK, SaleInv, NEW u \in Reviewers, ApproveCommit(u)
  PROVE  SaleInv' /\ [Sale!Next]_Sale!vars
<1> DEFINE row == review[u].seen
<1>1. /\ row.status = "NEW" /\ FoundRow(row) /\ ~ Exists /\ lock = u /\ SeenBy(lock) = row
      /\ erp'.status = "PENDING_APPROVAL" /\ erp'.request = "none" /\ erp'.ver = row.ver
      /\ inbox'.status = "APPROVED" /\ inbox'.ver = inbox.ver
  BY ApproveCommitFacts
<1> HIDE DEF row
<1>2. /\ review'[u].pc = "idle" /\ \A x \in Reviewers : x # u => review'[x] = review[x]
      /\ job' = job /\ lock' = Free /\ \A j \in Jobs : j # u
  BY HolderTypes DEF ApproveCommit, TypeOK, NoScreen
<1>3. Locked' /\ FoundBar # "nobody" /\ FoundBar' = "nobody" /\ Found'
  BY <1>1, <1>2, Frees DEF SaleInv
<1>4. Exists'
  BY <1>1 DEF Exists
<1>5. Kept'
  BY <1>1, <1>4 DEF Kept, FoundRow, Matches
<1>6. FoundBar = "waiting" /\ SaleBar' = "ordered"
  BY <1>1, <1>4, HolderTypes DEF FoundBar, SaleBar, StandingOf
<1>7. "ordered" \in Sale!MayLeave["waiting"]
  BY DEF Sale!MayLeave, Sale!Standings
<1>8. QED
  BY <1>3, <1>5, <1>6, <1>7 DEF SaleInv, Sale!Next, Sale!Finish

LEMMA ErpMoveSale ==
  ASSUME TypeOK, SaleInv, MoveOfErp
  PROVE  SaleInv' /\ UNCHANGED Sale!vars
<1>1. Exists' = Exists
  BY ErpMoveFacts DEF Exists, SaleInv, Kept
<1>2. /\ UNCHANGED <<shop, lock, inbox, job, review>>
      /\ erp'.ver = erp.ver /\ erp'.handled = erp.handled
      /\ ~ Exists => erp'.request = "none"
  BY ErpMoveFacts DEF Exists, SaleInv, Kept
<1>3. erp'.request = "Shopify" => erp.request = "Shopify"
  BY ErpMoveFacts
<1>4. Locked' /\ SeenBy(lock)' = SeenBy(lock)
  BY <1>2 DEF SaleInv, Locked, SeenBy
<1>5. Kept'
  BY <1>1, <1>2, <1>3 DEF SaleInv, Kept, Matches
<1>6. Found'
  BY <1>1, <1>2, <1>4 DEF SaleInv, Found, FoundRow, Matches
<1>7. SaleBar' = SaleBar /\ FoundBar' = FoundBar
  BY <1>1, <1>2, <1>4 DEF SaleBar, FoundBar, StandingOf
<1>8. QED
  BY <1>4, <1>5, <1>6, <1>7 DEF SaleInv, Sale!vars

(* The jobs' steps outside their transactions.                             *)
LEMMA OtherJobSale ==
  ASSUME TypeOK, JobInv, SaleInv, NEW j \in Jobs, NEW n \in JobStates,
         job[j].pc # "tx", n.pc # "tx", job' = [job EXCEPT ![j] = n] \/ job' = job,
         UNCHANGED <<shop, lock, inbox, erp, review>>
  PROVE  SaleInv' /\ UNCHANGED Sale!vars
<1>1. \A i \in Jobs : /\ job'[i].pc = "tx" <=> job[i].pc = "tx"
                      /\ job[i].pc = "tx" => job'[i].seen = job[i].seen
  BY DEF TypeOK
<1>2. QED
  BY <1>1, Quiet

LEMMA ClaimSale ==
  ASSUME TypeOK, JobInv, SaleInv, NEW j \in Jobs, NEW w \in Hooks, NEW from, Claim(j, w, from),
         job[j].pc # "tx", UNCHANGED <<shop, lock, inbox, erp, review>>
  PROVE  SaleInv' /\ UNCHANGED Sale!vars
<1>1. PICK n \in {Idle, [Idle EXCEPT !.pc = "claimed", !.hook = w]} : job' = [job EXCEPT ![j] = n]
  BY DEF Claim
<1>2. n \in JobStates /\ n.pc # "tx"
  BY Constants DEF Idle, JobStates, Pcs
<1>3. QED
  BY <1>1, <1>2, OtherJobSale

LEMMA HookSale ==
  ASSUME TypeOK, JobInv, SaleInv, NEW w \in Hooks, NEW v \in Versions,
         Receive(w, v) \/ Ignore(w) \/ ProcessNow(w) \/ Tick(w)
  PROVE  SaleInv' /\ UNCHANGED Sale!vars
<1>1. w \in Jobs
  BY Constants
<1>2. CASE Receive(w, v)
  <2>1. job[w].pc = "idle"
    BY <1>2 DEF Receive, Arrives, JobInv, Claims
  <2>2. /\ [Idle EXCEPT !.pc = "queued", !.hook = w] \in JobStates
        /\ [Idle EXCEPT !.pc = "queued", !.hook = w].pc # "tx"
    BY Constants DEF Idle, JobStates, Pcs
  <2>3. QED
    BY <1>1, <1>2, <2>1, <2>2, OtherJobSale DEF Receive
<1>3. CASE Ignore(w) \/ Tick(w)
  BY <1>3, Quiet DEF Ignore, Tick
<1>4. CASE ProcessNow(w)
  BY <1>1, <1>4, ClaimSale DEF ProcessNow
<1>5. QED
  BY <1>2, <1>3, <1>4

LEMMA RetrySale ==
  ASSUME TypeOK, JobInv, SaleInv, RetryStart \/ RetryNext
  PROVE  SaleInv' /\ UNCHANGED Sale!vars
<1>1. CASE RetryStart
  BY <1>1, Quiet DEF RetryStart
<1>2. CASE RetryNext
  <2>1. PICK e \in batch : Claim(Cron, e[1], e[2])
    BY <1>2 DEF RetryNext
  <2>2. e[1] \in Hooks /\ Cron \in Jobs
    BY Constants DEF TypeOK
  <2>3. QED
    BY <1>2, <2>1, <2>2, ClaimSale DEF RetryNext
<1>3. QED
  BY <1>1, <1>2

LEMMA FinishSale ==
  ASSUME TypeOK, JobInv, SaleInv, NEW j \in Jobs, Finish(j)
  PROVE  SaleInv' /\ UNCHANGED Sale!vars
<1>1. Idle \in JobStates /\ Idle.pc # "tx"
  BY Constants DEF Idle
<1>2. QED
  BY <1>1, OtherJobSale DEF Finish

LEMMA OpenRowSale ==
  ASSUME TypeOK, SaleInv, NEW u \in Reviewers, OpenRow(u)
  PROVE  SaleInv' /\ UNCHANGED Sale!vars
<1>1. \A x \in Reviewers : /\ review'[x].pc = "tx" <=> review[x].pc = "tx"
                           /\ review[x].pc = "tx" => review'[x].seen = review[x].seen
  BY DEF OpenRow, TypeOK
<1>2. QED
  BY <1>1, Quiet DEF OpenRow

LEMMA InitSale == Init => SaleInv /\ Sale!Init
<1> SUFFICES ASSUME Init PROVE SaleInv /\ Sale!Init
  OBVIOUS
<1>1. /\ \A j \in Jobs : job[j].pc = "idle" /\ j # Free
      /\ \A u \in Reviewers : review[u].pc = "idle" /\ u # Free
      /\ lock = Free
  BY ShopifyAssumption DEF Init, Idle, NoScreen
<1>2. /\ ~ Exists /\ erp.request = "none"
      /\ inbox.status = "NONE"
  BY DEF Init, NoOrder, NewOrder, Exists, NoRow, Row
<1>3. SaleInv
  BY <1>1, <1>2 DEF SaleInv, Locked, Kept, Matches, Found
<1>4. SaleBar = "unseen" /\ FoundBar = "nobody"
  BY <1>1, <1>2 DEF SaleBar, FoundBar, StandingOf
<1>5. QED
  BY <1>3, <1>4 DEF Sale!Init

LEMMA StepSale ==
  TypeOK /\ JobInv /\ SaleInv /\ [Next]_vars => SaleInv' /\ [Sale!Next]_Sale!vars
<1> SUFFICES ASSUME TypeOK, JobInv, SaleInv, [Next]_vars
             PROVE  SaleInv' /\ [Sale!Next]_Sale!vars
  OBVIOUS
<1>1. ASSUME NEW w \in Hooks, NEW v \in Versions,
             Receive(w, v) \/ Ignore(w) \/ ProcessNow(w) \/ Tick(w)
      PROVE SaleInv' /\ [Sale!Next]_Sale!vars
  BY <1>1, HookSale
<1>2. CASE RetryStart \/ RetryNext
  BY <1>2, RetrySale
<1>3. ASSUME NEW j \in Jobs,
             TxBegin(j) \/ SaveToInbox(j) \/ SaveToOrder(j) \/ TxFail(j) \/ Finish(j)
      PROVE SaleInv' /\ [Sale!Next]_Sale!vars
  <2>1. CASE TxBegin(j)
    BY <2>1, TxBeginSale DEF Sale!Next
  <2>2. QED
    BY <1>3, <2>1, SaveToInboxSale, SaveToOrderSale, TxFailSale, FinishSale
<1>4. CASE Crash
  BY <1>4, CrashSale
<1>5. ASSUME NEW u \in Reviewers,
             OpenRow(u) \/ ApproveBegin(u) \/ ApproveCommit(u) \/ CloseRow(u)
      PROVE SaleInv' /\ [Sale!Next]_Sale!vars
  <2>1. CASE ApproveBegin(u)
    BY <2>1, ApproveBeginSale DEF Sale!Next
  <2>2. QED
    BY <1>5, <2>1, OpenRowSale, ApproveCommitSale, CloseRowSale
<1>6. CASE Reject
  BY <1>6, RejectSale DEF Sale!Next
<1>7. CASE MoveOfErp
  BY <1>7, ErpMoveSale
<1>8. CASE UNCHANGED vars
  BY <1>8, Quiet DEF vars
<1>9. QED
  BY <1>1, <1>2, <1>3, <1>4, <1>5, <1>6, <1>7, <1>8, Constants DEF Next, MoveOfErp, MoveOfOrder

(* The inbox implements ShopSale: one handler at a time works on an order, *)
(* an ERP order comes only from one that waits and is for good, what was   *)
(* cancelled in the shop never waits again, a refusal is undone only by a  *)
(* handler that had begun before it.                                       *)
THEOREM InboxImplementsSale == Spec => SaleRefined
<1>1. Init => TypeOK /\ JobInv
  BY InitInv
<1>2. QED
  BY <1>1, StepInv, InitSale, StepSale, PTL DEF Spec, SaleRefined, Sale!Spec

-----------------------------------------------------------------------------
(* What becomes of an approved order.  Only a hook, the approval and the   *)
(* moves of the ERP change it.                                             *)
LEMMA OrderChanges ==
  ASSUME TypeOK, [Next]_vars
  PROVE  /\ shop' = shop
         /\ \/ erp' = erp
            \/ \E j \in Jobs : SaveToOrder(j)
            \/ \E u \in Reviewers : ApproveCommit(u)
            \/ MoveOfErp
<1>1. ASSUME NEW w \in Hooks, NEW v \in Versions,
             Receive(w, v) \/ Ignore(w) \/ ProcessNow(w) \/ Tick(w)
      PROVE shop' = shop /\ erp' = erp
  BY <1>1 DEF Receive, Ignore, ProcessNow, Tick
<1>2. CASE RetryStart \/ RetryNext \/ Crash \/ Reject \/ UNCHANGED vars
  BY <1>2 DEF RetryStart, RetryNext, Crash, Reject, vars
<1>3. ASSUME NEW j \in Jobs, TxBegin(j) \/ SaveToInbox(j) \/ TxFail(j) \/ Finish(j)
      PROVE shop' = shop /\ erp' = erp
  BY <1>3 DEF TxBegin, SaveToInbox, TxFail, Finish
<1>4. ASSUME NEW u \in Reviewers, OpenRow(u) \/ ApproveBegin(u) \/ CloseRow(u)
      PROVE shop' = shop /\ erp' = erp
  BY <1>4 DEF OpenRow, ApproveBegin, CloseRow
<1>5. ASSUME NEW j \in Jobs, SaveToOrder(j) PROVE shop' = shop
  BY <1>5 DEF SaveToOrder
<1>6. ASSUME NEW u \in Reviewers, ApproveCommit(u) PROVE shop' = shop
  BY <1>6 DEF ApproveCommit
<1>7. CASE MoveOfErp
  BY <1>7, ErpMoveFacts
<1>8. QED
  BY <1>1, <1>2, <1>3, <1>4, <1>5, <1>6, <1>7, Constants DEF Next, MoveOfErp, MoveOfOrder

(* What a hook leaves of an order.                                         *)
LEMMA SaveToOrderFacts ==
  ASSUME TypeOK, JobInv, SaleInv, NEW j \in Jobs, SaveToOrder(j)
  PROVE  LET v == log[job[j].hook].ver
         IN  /\ v \in Versions /\ Exists /\ Exists' /\ inbox'.status = "APPROVED"
             /\ \/ v < erp.ver /\ erp' = erp
                \/ ~ (v < erp.ver) /\ erp' = Updated(v)
<1> DEFINE v == log[job[j].hook].ver
<1>1. v \in Versions /\ Exists /\ erp \in Orders /\ shop \in Histories /\ inbox.status = "APPROVED"
  BY LogTypes DEF SaveToOrder, JobInv, Claims, AtWork, TypeOK, SaleInv, Kept
<1>2. \/ v < erp.ver /\ UNCHANGED <<inbox, erp>>
      \/ ~ (v < erp.ver) /\ erp' = Updated(v) /\ inbox' = Row("APPROVED", v)
  BY <1>1 DEF SaveToOrder, Updated
<1> HIDE DEF v
<1>3. Exists' /\ inbox'.status = "APPROVED"
  BY <1>1, <1>2, UpdatedType DEF Exists, Row
<1>4. QED
  BY <1>1, <1>2, <1>3 DEF v

LEMMA StepEdits ==
  ASSUME TypeOK, JobInv, SaleInv, EditsFlagged, [Next]_vars
  PROVE  EditsFlagged'
<1>1. CASE erp' = erp
  BY <1>1, OrderChanges DEF EditsFlagged, Exists
<1>2. ASSUME NEW j \in Jobs, SaveToOrder(j) PROVE EditsFlagged'
  <2> DEFINE v == log[job[j].hook].ver
  <2>1. /\ v \in Versions /\ Exists /\ shop' = shop
        /\ erp' = erp \/ erp' = Updated(v)
    BY <1>2, SaveToOrderFacts, OrderChanges
  <2> HIDE DEF v
  <2>2. CASE erp' = Updated(v)
    <3>1. erp'.from = erp.from /\ erp'.ver = v /\ erp'.flagged = FlagEdit(erp, v).flagged
      BY <2>1, <2>2, UpdatedType DEF TypeOK
    <3>2. erp'.flagged = IF shop[v].content \notin {shop[erp.ver].content, erp.flagged}
                         THEN shop[v].content ELSE erp.flagged
      BY <2>1, <3>1, FlagEditType DEF TypeOK
    <3>3. QED
      BY <2>1, <3>1, <3>2 DEF EditsFlagged
  <2>3. QED
    BY <1>1, <2>1, <2>2
<1>3. ASSUME NEW u \in Reviewers, ApproveCommit(u) PROVE EditsFlagged'
  <2>1. erp'.ver = erp'.from
    BY <1>3, ApproveCommitFacts
  <2>2. QED
    BY <2>1 DEF EditsFlagged
<1>4. CASE MoveOfErp
  BY <1>4, OrderChanges, ErpMoveFacts DEF EditsFlagged, Exists, SaleInv, Kept
<1>5. QED
  BY <1>1, <1>2, <1>3, <1>4, OrderChanges

LEMMA StepPaid ==
  ASSUME TypeOK, JobInv, SaleInv, [Next]_vars
  PROVE  \/ PaidOnRecord'
         \/ erp'.ver = erp.ver /\ (~ PaidOnRecord \/ ReceiptEdited \/ ReceiptDeleted)
<1> DEFINE Goal == \/ PaidOnRecord'
                   \/ erp'.ver = erp.ver /\ (~ PaidOnRecord \/ ReceiptEdited \/ ReceiptDeleted)
<1>1. CASE erp' = erp
  BY <1>1, OrderChanges DEF PaidOnRecord, Exists
<1>2. ASSUME NEW j \in Jobs, SaveToOrder(j) PROVE Goal
  <2> DEFINE v == log[job[j].hook].ver
  <2>1. /\ v \in Versions /\ shop' = shop
        /\ erp' = erp \/ erp' = Updated(v)
    BY <1>2, SaveToOrderFacts, OrderChanges
  <2> HIDE DEF v
  <2>2. CASE erp' = Updated(v)
    BY <2>1, <2>2, UpdatedType DEF TypeOK, PaidOnRecord
  <2>3. QED
    BY <1>1, <2>1, <2>2
<1>3. ASSUME NEW u \in Reviewers, ApproveCommit(u) PROVE Goal
  BY <1>3, ApproveCommitFacts, OrderChanges DEF PaidOnRecord
<1>4. CASE MoveOfErp
  <2>1. /\ shop' = shop /\ (Exists' => Exists)
        /\ erp'.ver = erp.ver /\ erp'.flags = erp.flags
        /\ SameAmounts(erp'.pays, erp.pays) \/ ReceiptEdited \/ ReceiptDeleted
    BY <1>4, ErpMoveFacts DEF Exists, SaleInv, Kept
  <2>2. CASE SameAmounts(erp'.pays, erp.pays) /\ PaidOnRecord
    <3> DEFINE paid == shop[erp.ver].paid
    <3>1. shop'[erp'.ver].paid = paid
      BY <2>1
    <3>2. SUFFICES ASSUME Exists', paid > 0
                 PROVE  \/ \E i \in DOMAIN erp'.pays : erp'.pays[i].amount = paid
                        \/ paid \in erp'.flags
      BY <3>1 DEF PaidOnRecord
    <3>3. \/ \E i \in DOMAIN erp.pays : erp.pays[i].amount = paid
          \/ paid \in erp.flags
      BY <2>1, <2>2, <3>2 DEF PaidOnRecord
    <3> HIDE DEF paid
    <3>4. QED
      BY <2>1, <2>2, <3>3 DEF SameAmounts
  <2>3. QED
    BY <2>1, <2>2
<1>5. QED
  BY <1>1, <1>2, <1>3, <1>4, OrderChanges

LEMMA StepAnswered ==
  ASSUME TypeOK, JobInv, SaleInv, [Next]_vars, Answered, ~ Answered'
  PROVE  \/ erp.request \in {"hand", "items"} /\ erp'.request = "none"
         \/ erp.status = "CANCELLED" /\ erp'.status = "APPROVED"
<1>1. erp' # erp
  BY OrderChanges DEF Answered, Exists
<1>2. ASSUME NEW j \in Jobs, SaveToOrder(j) PROVE FALSE
  <2> DEFINE v == log[job[j].hook].ver
  <2>1. v \in Versions /\ shop' = shop /\ erp' = Updated(v)
    BY <1>1, <1>2, SaveToOrderFacts, OrderChanges
  <2> HIDE DEF v
  <2>2. QED
    BY <2>1, UpdatedType DEF TypeOK, Answered
<1>3. ASSUME NEW u \in Reviewers, ApproveCommit(u) PROVE FALSE
  BY <1>3, ApproveCommitFacts, OrderChanges DEF Answered
<1>4. CASE MoveOfErp
  <2>1. /\ shop' = shop /\ (Exists' => Exists)
        /\ erp'.ver = erp.ver /\ erp'.handled = erp.handled
    BY <1>4, ErpMoveFacts DEF Exists, SaleInv, Kept
  <2>2. /\ ~ erp.handled
        /\ erp.request # "none" \/ erp.status = "CANCELLED"
        /\ erp'.request = "none" /\ erp'.status # "CANCELLED"
    <3>1. /\ Exists' /\ shop'[erp'.ver].cancelled
          /\ ~ erp'.handled /\ erp'.request = "none" /\ erp'.status # "CANCELLED"
      BY DEF Answered
    <3>2. Exists /\ shop[erp.ver].cancelled /\ ~ erp.handled
      BY <2>1, <3>1
    <3>3. QED
      BY <3>1, <3>2 DEF Answered
  <2>3. erp.request \in {"none", "hand", "items", "Shopify"} /\ erp.request # "Shopify"
    BY <2>2 DEF TypeOK, Orders, SaleInv, Kept
  <2>4. \/ erp'.status = erp.status \/ erp.status # "CANCELLED"
        \/ erp'.status = "APPROVED"
    <3>1. CASE MoveOfOrder
      BY <3>1 DEF MoveOfOrder, ApproveOrder, ReturnToAccounts, RejectOrder, GoToPress,
                  BackFromPress, HandToDispatch, RequestCancellation, ApproveCancellation,
                  RejectCancellation, ErpMove, TypeOK, Orders
    <3>2. ASSUME NEW i \in DOMAIN erp.pays, MoveOfReceipt(i) PROVE erp'.status = erp.status
      BY <3>2, ReceiptFacts DEF TypeOK, Orders
    <3>3. QED
      BY <1>4, <3>1, <3>2 DEF MoveOfErp
  <2>5. QED
    BY <2>2, <2>3, <2>4
<1>5. QED
  BY <1>1, <1>2, <1>3, <1>4, OrderChanges

-----------------------------------------------------------------------------
(* The version kept never goes back, and a job that has committed has      *)
(* brought its hook's.                                                     *)
Brought(w) == inbox.status # "NONE" /\ log[w].ver <= KeptVersion
NewestInv ==
  /\ NewestWins
  /\ \A j \in Jobs : job[j].pc = "ok" => Brought(job[j].hook)

LEMMA KeptTypes ==
  ASSUME TypeOK
  PROVE  /\ KeptVersion \in Versions /\ KeptVersion \in Nat
         /\ \A w \in Hooks : log[w].ver \in Nat
BY Constants DEF KeptVersion, TypeOK, Orders, Rows, Logs

LEMMA SameKept ==
  ASSUME UNCHANGED <<inbox, erp>>
  PROVE  KeptVersion' = KeptVersion /\ inbox' = inbox
BY DEF KeptVersion, Exists

(* What a commit brings.                                                   *)
LEMMA SaveBrings ==
  ASSUME TypeOK, JobInv, SaleInv, NEW j \in Jobs, SaveToInbox(j) \/ SaveToOrder(j)
  PROVE  /\ inbox'.status # "NONE"
         /\ inbox.status # "NONE" => KeptVersion <= KeptVersion'
         /\ log[job[j].hook].ver <= KeptVersion'
<1> DEFINE row == job[j].seen
           v == log[job[j].hook].ver
<1>1. v \in Versions /\ v \in Nat
  BY Constants, LogTypes DEF SaveToInbox, SaveToOrder, JobInv, Claims, AtWork
<1>2. CASE SaveToInbox(j)
  <2>1. /\ lock = j /\ lock # Free /\ SeenBy(lock) = row /\ ~ Exists /\ ~ Exists'
        /\ row \in Rows /\ FoundRow(row) /\ inbox' = Upserted(row, v)
    BY <1>2, HolderTypes, JobTypes
    DEF SaveToInbox, SaleInv, Locked, Found, SeenBy, Exists
  <2> HIDE DEF row, v
  <2>2. /\ inbox'.status # "NONE" /\ v <= inbox'.ver
        /\ inbox.status # "NONE" => inbox.ver <= inbox'.ver
    BY <1>1, <2>1, UpsertedFacts
  <2>3. QED
    BY <2>1, <2>2 DEF KeptVersion, v
<1>3. CASE SaveToOrder(j)
  <2>1. /\ Exists /\ Exists' /\ inbox'.status = "APPROVED"
        /\ \/ v < erp.ver /\ erp' = erp
           \/ ~ (v < erp.ver) /\ erp' = Updated(v)
    BY <1>3, SaveToOrderFacts
  <2> HIDE DEF v
  <2>2. erp' = Updated(v) => erp'.ver = v
    BY <1>1, UpdatedType DEF TypeOK
  <2>3. KeptVersion = erp.ver /\ KeptVersion' = erp'.ver /\ erp.ver \in Nat
    BY <2>1, KeptTypes DEF KeptVersion
  <2>4. QED
    BY <1>1, <2>1, <2>2, <2>3 DEF v
<1>4. QED
  BY <1>2, <1>3

(* The steps of reviewers and of the ERP keep the version.                 *)
LEMMA OthersKeep ==
  ASSUME TypeOK, JobInv, SaleInv,
         \/ \E u \in Reviewers : ApproveCommit(u)
         \/ Reject \/ MoveOfErp
  PROVE  /\ KeptVersion' = KeptVersion
         /\ inbox.status # "NONE" => inbox'.status # "NONE"
         /\ log' = log /\ job' = job
<1>1. ASSUME NEW u \in Reviewers, ApproveCommit(u)
      PROVE  /\ KeptVersion' = KeptVersion /\ inbox'.status # "NONE"
             /\ log' = log /\ job' = job
  <2>1. /\ ~ Exists /\ erp'.status = "PENDING_APPROVAL" /\ inbox'.status = "APPROVED"
        /\ erp'.ver = inbox.ver
    BY <1>1, ApproveCommitFacts DEF FoundRow
  <2>2. QED
    BY <1>1, <2>1 DEF KeptVersion, Exists, ApproveCommit
<1>2. CASE Reject
  BY <1>2 DEF Reject, KeptVersion, Exists, TypeOK, Rows
<1>3. CASE MoveOfErp
  BY <1>3, ErpMoveFacts DEF KeptVersion, Exists, SaleInv, Kept
<1>4. QED
  BY <1>1, <1>2, <1>3

(* A step that grows the version kept, and neither ends a job nor brings   *)
(* a hook.                                                                 *)
LEMMA Grows ==
  ASSUME TypeOK, TypeOK', NewestInv, KeptVersion <= KeptVersion' \/ inbox.status = "NONE",
         inbox.status # "NONE" => inbox'.status # "NONE",
         \A w \in Hooks : log'[w].status = "PROCESSED" =>
            log[w].status = "PROCESSED" /\ log'[w].ver = log[w].ver,
         \A j \in Jobs : job'[j].pc = "ok" =>
            \/ /\ job[j].pc = "ok" /\ job'[j].hook = job[j].hook /\ job[j].hook \in Hooks
               /\ log'[job[j].hook].ver = log[job[j].hook].ver
            \/ Brought(job[j].hook)'
  PROVE  NewestInv'
<1>0. KeptVersion' \in Nat
  BY Constants DEF KeptVersion, TypeOK, Orders, Rows
<1>1. ASSUME NEW w \in Hooks, Brought(w), log'[w].ver = log[w].ver PROVE Brought(w)'
  BY <1>0, <1>1, KeptTypes DEF Brought
<1>2. NewestWins'
  BY <1>1 DEF NewestInv, NewestWins, Brought
<1>3. ASSUME NEW j \in Jobs, job'[j].pc = "ok" PROVE Brought(job[j].hook)'
  BY <1>1, <1>3 DEF NewestInv
<1>4. QED
  BY <1>2, <1>3 DEF NewestInv

LEMMA ClaimKeeps ==
  ASSUME TypeOK, NEW j \in Jobs, NEW w, NEW from, Claim(j, w, from)
  PROVE  \A i \in Jobs : job'[i].pc = "ok" => job[i].pc = "ok" /\ job'[i].hook = job[i].hook
<1>1. PICK n \in {Idle, [Idle EXCEPT !.pc = "claimed", !.hook = w]} : job' = [job EXCEPT ![j] = n]
  BY DEF Claim
<1>2. n.pc # "ok"
  <2>1. Idle.pc = "idle" /\ [Idle EXCEPT !.pc = "claimed", !.hook = w].pc = "claimed"
    BY DEF Idle
  <2>2. QED
    BY <2>1
<1>3. job'[j] = n /\ \A i \in Jobs : i # j => job'[i] = job[i]
  BY <1>1 DEF TypeOK
<1>4. QED
  BY <1>2, <1>3

LEMMA StepNewest ==
  ASSUME TypeOK, JobInv, SaleInv, NewestInv, [Next]_vars
  PROVE  NewestInv'
<1>1. TypeOK' /\ JobInv'
  BY StepInv
<1>2. \A j \in Jobs : AtWork(j) => job[j].hook \in Hooks /\ log[job[j].hook].status = "PROCESSING"
  BY DEF JobInv, Claims
<1>3. UNCHANGED <<inbox, erp>> => KeptVersion <= KeptVersion'
  BY SameKept, KeptTypes
<1>4. ASSUME NEW w \in Hooks, NEW v \in Versions,
             Receive(w, v) \/ Ignore(w) \/ ProcessNow(w) \/ Tick(w)
      PROVE  NewestInv'
  <2>1. CASE Receive(w, v) \/ Ignore(w)
    <3>1. \E s \in {"RECEIVED", "IGNORED"}, x \in Versions :
            log' = [log EXCEPT ![w].status = s, ![w].ver = x]
      BY <2>1, Constants DEF Receive, Ignore, Arrives
    <3>2. /\ log'[w].status # "PROCESSED" /\ \A x \in Hooks : x # w => log'[x] = log[x]
          /\ log[w].status = "NONE" /\ UNCHANGED <<inbox, erp>>
      BY <2>1, <3>1 DEF Receive, Ignore, Arrives, TypeOK, Logs
    <3>3. \A j \in Jobs : job'[j].pc = "ok" =>
            job[j].pc = "ok" /\ job'[j].hook = job[j].hook
      BY <2>1 DEF Receive, Ignore, TypeOK, Idle
    <3>4. QED
      BY <1>1, <1>2, <1>3, <3>2, <3>3, Grows DEF AtWork
  <2>2. CASE ProcessNow(w)
    <3>1. /\ \A x \in Hooks : log'[x].status = "PROCESSED" => log'[x] = log[x]
          /\ \A x \in Hooks : log'[x].ver = log[x].ver
      BY <2>2 DEF ProcessNow, Claim, TypeOK, Logs
    <3>2. \A j \in Jobs : job'[j].pc = "ok" =>
            job[j].pc = "ok" /\ job'[j].hook = job[j].hook
      BY <2>2, ClaimKeeps, Constants DEF ProcessNow
    <3>3. UNCHANGED <<inbox, erp>>
      BY <2>2 DEF ProcessNow
    <3>4. QED
      BY <1>1, <1>2, <1>3, <3>1, <3>2, <3>3, Grows DEF AtWork
  <2>3. CASE Tick(w)
    <3>1. /\ \A x \in Hooks : log'[x].status = log[x].status /\ log'[x].ver = log[x].ver
          /\ job' = job /\ UNCHANGED <<inbox, erp>>
      BY <2>3 DEF Tick, TypeOK, Logs
    <3>2. QED
      BY <1>1, <1>2, <1>3, <3>1, Grows DEF AtWork
  <2>4. QED
    BY <1>4, <2>1, <2>2, <2>3
<1>5. CASE RetryStart
  BY <1>1, <1>2, <1>3, <1>5, Grows DEF RetryStart, AtWork
<1>6. CASE RetryNext
  <2>1. PICK e \in batch : Claim(Cron, e[1], e[2])
    BY <1>6 DEF RetryNext
  <2>2. /\ \A x \in Hooks : log'[x].status = "PROCESSED" => log'[x] = log[x]
        /\ \A x \in Hooks : log'[x].ver = log[x].ver
    BY <2>1 DEF Claim, TypeOK, Logs
  <2>3. \A j \in Jobs : job'[j].pc = "ok" =>
          job[j].pc = "ok" /\ job'[j].hook = job[j].hook
    BY <2>1, ClaimKeeps, Constants
  <2>4. UNCHANGED <<inbox, erp>>
    BY <1>6 DEF RetryNext
  <2>5. QED
    BY <1>1, <1>2, <1>3, <2>2, <2>3, <2>4, Grows DEF AtWork
<1>7. ASSUME NEW j \in Jobs,
             TxBegin(j) \/ SaveToInbox(j) \/ SaveToOrder(j) \/ TxFail(j) \/ Finish(j)
      PROVE  NewestInv'
  <2>1. CASE TxBegin(j) \/ TxFail(j)
    <3>1. /\ \A i \in Jobs : job'[i].pc = "ok" => job[i].pc = "ok" /\ job'[i].hook = job[i].hook
          /\ log' = log /\ UNCHANGED <<inbox, erp>>
      BY <2>1 DEF TxBegin, TxFail, TypeOK, JobStates
    <3>2. QED
      BY <1>1, <1>2, <1>3, <3>1, Grows DEF AtWork
  <2>2. CASE SaveToInbox(j) \/ SaveToOrder(j)
    <3>1. /\ \A i \in Jobs : i # j => job'[i] = job[i]
          /\ job'[j].hook = job[j].hook /\ log' = log
      BY <2>2 DEF SaveToInbox, SaveToOrder, Leave, TypeOK, JobStates
    <3>2. /\ inbox'.status # "NONE"
          /\ inbox.status # "NONE" => KeptVersion <= KeptVersion'
          /\ log[job[j].hook].ver <= KeptVersion'
      BY <2>2, SaveBrings
    <3>3. Brought(job[j].hook)'
      BY <3>1, <3>2 DEF Brought
    <3>4. QED
      BY <1>1, <1>2, <3>1, <3>2, <3>3, Grows DEF AtWork
  <2>3. CASE Finish(j)
    <3> DEFINE w == job[j].hook
    <3>1. w \in Hooks
      BY <1>2, <2>3 DEF Finish, AtWork
    <3>2. /\ \A x \in Hooks : x # w => log'[x] = log[x]
          /\ log'[w].status = "PROCESSED" => job[j].pc = "ok"
          /\ log'[w].ver = log[w].ver
          /\ UNCHANGED <<inbox, erp>>
      BY <2>3, <3>1 DEF Finish, TypeOK, Logs
    <3>3. \A i \in Jobs : job'[i].pc = "ok" => job[i].pc = "ok" /\ job'[i].hook = job[i].hook
      BY <2>3 DEF Finish, TypeOK, Idle
    <3>4. \A x \in Hooks : Brought(x) => Brought(x)'
      BY <3>2, SameKept DEF Brought
    <3>5. NewestWins'
      BY <3>2, <3>4 DEF NewestInv, NewestWins, Brought
    <3>6. \A i \in Jobs : job'[i].pc = "ok" => Brought(job[i].hook)'
      BY <1>2, <3>3, <3>4 DEF NewestInv, AtWork, Brought
    <3>7. QED
      BY <3>5, <3>6 DEF NewestInv
  <2>4. QED
    BY <1>7, <2>1, <2>2, <2>3
<1>8. CASE Crash
  BY <1>1, <1>3, <1>8, Grows DEF Crash, Idle
<1>9. ASSUME NEW u \in Reviewers, OpenRow(u) \/ ApproveBegin(u) \/ CloseRow(u)
      PROVE  NewestInv'
  BY <1>1, <1>2, <1>3, <1>9, Grows DEF OpenRow, ApproveBegin, CloseRow, AtWork
<1>10. CASE (\E u \in Reviewers : ApproveCommit(u)) \/ Reject \/ MoveOfErp
  BY <1>1, <1>2, <1>10, OthersKeep, KeptTypes, Grows DEF AtWork
<1>11. CASE UNCHANGED vars
  BY <1>1, <1>2, <1>3, <1>11, Grows DEF vars, AtWork
<1>12. QED
  BY <1>4, <1>5, <1>6, <1>7, <1>8, <1>9, <1>10, <1>11, Constants DEF Next, MoveOfErp, MoveOfOrder

-----------------------------------------------------------------------------
FullInv == TypeOK /\ JobInv /\ SaleInv /\ NewestInv /\ EditsFlagged

LEMMA InitFull == Init => FullInv
<1> SUFFICES ASSUME Init PROVE FullInv
  OBVIOUS
<1>1. TypeOK /\ JobInv /\ SaleInv
  BY InitInv, InitSale
<1>2. ~ Exists
  BY DEF Init, NoOrder, NewOrder, Exists
<1>3. NewestInv
  BY DEF Init, Idle, NewestInv, NewestWins
<1>4. QED
  BY <1>1, <1>2, <1>3 DEF FullInv, EditsFlagged

LEMMA StepFull == FullInv /\ [Next]_vars => FullInv'
BY StepInv, StepSale, StepNewest, StepEdits DEF FullInv

(* However hooks overtake each other, are retried or run again after a     *)
(* restart, what is kept is never older than a hook marked PROCESSED.      *)
THEOREM NewestVersionWins == Spec => []NewestWins
<1>1. FullInv => NewestWins
  BY DEF FullInv, NewestInv
<1>2. QED
  BY <1>1, InitFull, StepFull, PTL DEF Spec

(* An ERP order whose shop order is not what was approved says so.         *)
THEOREM EditsAreFlagged == Spec => []EditsFlagged
<1>1. FullInv => EditsFlagged
  BY DEF FullInv
<1>2. QED
  BY <1>1, InitFull, StepFull, PTL DEF Spec

(* Every hook that brings a version brings its payment on a receipt or in  *)
(* a flag, whatever Accounts did before; only Accounts' own edit of a      *)
(* pending receipt, or the deletion of one, takes it off again.            *)
THEOREM PaymentsAreKnown == Spec => PaidIsKnown
<1>1. FullInv /\ [Next]_vars =>
        [\/ PaidOnRecord'
         \/ erp'.ver = erp.ver /\ (~ PaidOnRecord \/ ReceiptEdited \/ ReceiptDeleted)]_vars
  BY StepPaid DEF FullInv
<1>2. QED
  BY <1>1, InitFull, StepFull, PTL DEF Spec, PaidIsKnown

(* A cancellation the shop sent is answered until a request that someone   *)
(* had raised by hand before it is declined, or is about some items and is *)
(* approved, or Dispatch goes on with an order that was cancelled here.    *)
THEOREM CancellationsAreAnswered == Spec => CancellationAnswered
<1>1. FullInv /\ [Next]_vars =>
        [Answered /\ ~ Answered' =>
           \/ erp.request \in {"hand", "items"} /\ erp'.request = "none"
           \/ erp.status = "CANCELLED" /\ erp'.status = "APPROVED"]_vars
  BY StepAnswered DEF FullInv
<1>2. QED
  BY <1>1, InitFull, StepFull, PTL DEF Spec, CancellationAnswered
=============================================================================
