---------------------------- MODULE DialerLocks ----------------------------
(***************************************************************************)
(* The server's side of the auto dialer.  An agent's phone asks for the    *)
(* next number to call and is given one that is locked for it; the lock    *)
(* goes when the agent saves the call's outcome or asks again, and counts  *)
(* for nothing once it is old.  Meanwhile the phone reports what it is     *)
(* doing with the number, and the agent may answer, or hang up, on a PC:   *)
(* those marks are columns of the lock, with the time they were made.      *)
(*                                                                         *)
(* getNext takes its `now` first and works with it to the end, over many   *)
(* queries.  Abstracted: the tiers and pages of the queue, so that a       *)
(* request looks at one number, any; one request of an agent at a time;    *)
(* what an outcome is but for WRONG_NUMBER, and what saveResult does to    *)
(* the lead and its follow-ups.  create and updateMany of claim are one    *)
(* step.  A number is a candidate of the last-10-digit kind.               *)
(*                                                                         *)
(* Time is counted in instants: no two of the events that are given a time *)
(* have the same one.  Fault model: any answer to the phone may be lost,   *)
(* after which the phone asks or saves again.                              *)
(* Sources: dialer/dialer.service.ts, dialer/dialer.rules.ts.              *)
(***************************************************************************)
EXTENDS Integers

CONSTANTS
  Agents, Phones,
  None,
  LockTime,      \* DIALER_LOCK_MINUTES
  RecentTime,    \* RECENT_CALL_SKIP_MINUTES
  LiveCallMax,   \* LIVE_CALL_MAX_MINUTES
  LiveStateMax,  \* LIVE_STATE_MAX_MINUTES
  MaxTime        \* bound on the clock

Looks == {"recent", "wrong", "locks"}
Times == 0..MaxTime

(* by is a history variable: the agent who made the mark.                  *)
Marks == [at : Times, by : Agents]
Locks == [agent : Agents, lockedAt : Times, calling : BOOLEAN,
          desk : Marks \cup {None}, endCall : Marks \cup {None},
          live : Marks \cup {None}]
Calls == [agent : Agents, phone : Phones, startedAt : Times, savedAt : Times,
          wrong : BOOLEAN]

(* claimed is a history variable: when the lock was written.               *)
Given == [phone : Phones, asked : Times, claimed : Times]
Requests == [pc : {"idle", "free", "look", "answer"}, phone : Phones,
             asked : Times, claimed : Times, seen : SUBSET Looks]

ASSUME DialerAssumption ==
  /\ LockTime \in Nat /\ RecentTime \in Nat /\ LiveCallMax \in Nat
  /\ LiveStateMax \in Nat /\ MaxTime \in Nat
  /\ None \notin Locks \cup Marks \cup Given \cup Phones

VARIABLES
  clock,
  lock,    \* the DialerLock row of each number
  calls,   \* the DialerCall rows
  req,     \* each agent's GET /dialer/next
  on,      \* the number on each agent's phone
  popup    \* the number the popup of each agent's PC shows

vars == <<clock, lock, calls, req, on, popup>>

Init ==
  /\ clock = 0
  /\ lock = [p \in Phones |-> None]
  /\ calls = {}
  /\ req \in [Agents -> {r \in Requests : r.pc = "idle" /\ r.asked = 0
                                          /\ r.claimed = 0 /\ r.seen = {}}]
  /\ on = [a \in Agents |-> None]
  /\ popup = [a \in Agents |-> None]

(* An event that is given the time it happens at.                          *)
Stamped == clock < MaxTime /\ clock' = clock + 1

TimePasses == Stamped /\ UNCHANGED <<lock, calls, req, on, popup>>

Owns(a, p) == lock[p] # None /\ lock[p].agent = a

-----------------------------------------------------------------------------
(* GET /dialer/next                                                        *)

At(a, pc) == req[a].pc = pc
Goto(a, pc) == req' = [req EXCEPT ![a].pc = pc]

(* The number on the phone is given up, saved or not.                      *)
Ask(a) ==
  /\ At(a, "idle")
  /\ Stamped
  /\ \E p \in Phones :
       req' = [req EXCEPT ![a] = [pc |-> "free", phone |-> p, asked |-> clock,
                                  claimed |-> clock, seen |-> {}]]
  /\ on' = [on EXCEPT ![a] = None]
  /\ UNCHANGED <<lock, calls, popup>>

Released(a) == [p \in Phones |-> IF Owns(a, p) THEN None ELSE lock[p]]

FreeOwn(a) ==
  /\ At(a, "free")
  /\ lock' = Released(a)
  /\ Goto(a, "look")
  /\ UNCHANGED <<clock, calls, on, popup>>

(* blockedPhones reads three tables at once, in any order.                 *)
Recent(a) ==
  \E c \in calls : /\ c.phone = req[a].phone
                   /\ c.startedAt >= req[a].asked - RecentTime

(* Mutated form: a wrong number is one only while the call is recent.      *)
Wrong_Recent(a) ==
  \E c \in calls : /\ c.phone = req[a].phone /\ c.wrong
                   /\ c.startedAt >= req[a].asked - RecentTime
Wrong(a) == \E c \in calls : c.phone = req[a].phone /\ c.wrong

Busy(a) ==
  LET l == lock[req[a].phone]
  IN  l # None /\ l.agent # a /\ l.lockedAt >= req[a].asked - LockTime

Blocked(a, k) ==
  \/ k = "recent" /\ Recent(a)
  \/ k = "wrong" /\ Wrong(a)
  \/ k = "locks" /\ Busy(a)

Look(a) ==
  /\ At(a, "look")
  /\ \E k \in Looks \ req[a].seen :
       req' = IF Blocked(a, k) THEN [req EXCEPT ![a].pc = "idle"]
              ELSE [req EXCEPT ![a].seen = @ \cup {k}]
  /\ UNCHANGED <<clock, lock, calls, on, popup>>

(* Mutated form: whoever comes last has the number.                        *)
Abandoned_Any(l, a) == TRUE
Abandoned(l, a) == l.agent = a \/ l.lockedAt < req[a].asked - LockTime

(* Mutated form: lockedAt is when the lock will end.                       *)
NewLock_Until(a) ==
  [agent |-> a, lockedAt |-> req[a].asked + LockTime, calling |-> FALSE,
   desk |-> None, endCall |-> None, live |-> None]
NewLock(a) ==
  [agent |-> a, lockedAt |-> req[a].asked, calling |-> FALSE,
   desk |-> None, endCall |-> None, live |-> None]

(* Mutated form: a lock taken over keeps the time it was first taken.      *)
TakeOver_KeepsTime(l, a) == [l EXCEPT !.agent = a]
(* The marks made so far stay.                                             *)
TakeOver(l, a) == [l EXCEPT !.agent = a, !.lockedAt = req[a].asked]

(* A number nobody has a row for gets one; a row that is the agent's or    *)
(* abandoned is taken over.                                                *)
Claim(a) ==
  LET p == req[a].phone
  IN  /\ At(a, "look") /\ req[a].seen = Looks
      /\ \/ lock[p] = None /\ lock' = [lock EXCEPT ![p] = NewLock(a)]
         \/ /\ lock[p] # None /\ Abandoned(lock[p], a)
            /\ lock' = [lock EXCEPT ![p] = TakeOver(@, a)]
      /\ req' = [req EXCEPT ![a].pc = "answer", ![a].claimed = clock]
      /\ UNCHANGED <<clock, calls, on, popup>>

(* Somebody else got there first.                                          *)
Beaten(a) ==
  LET l == lock[req[a].phone]
  IN  /\ At(a, "look") /\ req[a].seen = Looks
      /\ l # None /\ ~ Abandoned(l, a)
      /\ Goto(a, "idle")
      /\ UNCHANGED <<clock, lock, calls, on, popup>>

(* The answer reaches the phone, or is lost with the lock still there.     *)
Answer(a) ==
  /\ At(a, "answer")
  /\ Goto(a, "idle")
  /\ \/ on' = [on EXCEPT ![a] = [phone |-> req[a].phone, asked |-> req[a].asked,
                                 claimed |-> req[a].claimed]]
     \/ UNCHANGED on
  /\ UNCHANGED <<clock, lock, calls, popup>>

-----------------------------------------------------------------------------
(* POST /dialer/result, one transaction.  The phone goes on to the next    *)
(* number, or never gets the answer and may save the same call again.      *)
SaveResult(a) ==
  /\ on[a] # None
  /\ Stamped
  /\ \E s \in Times, w \in BOOLEAN :
       /\ on[a].claimed <= s /\ s <= clock
       /\ calls' = calls \cup {[agent |-> a, phone |-> on[a].phone, startedAt |-> s,
                                savedAt |-> clock, wrong |-> w]}
  /\ lock' = Released(a)
  /\ on' \in {on, [on EXCEPT ![a] = None]}
  /\ UNCHANGED <<req, popup>>

-----------------------------------------------------------------------------
(* POST /dialer/live-state: what the phone is doing with the number on it, *)
(* or NONE for every number the agent has.                                 *)
ReportLive(a) ==
  /\ on[a] # None /\ Owns(a, on[a].phone)
  /\ Stamped
  /\ \E calling \in BOOLEAN :
       lock' = [lock EXCEPT ![on[a].phone].live = [at |-> clock, by |-> a],
                            ![on[a].phone].calling = calling]
  /\ UNCHANGED <<calls, req, on, popup>>

ReportNone(a) ==
  /\ lock' = [p \in Phones |->
       IF Owns(a, p) THEN [lock[p] EXCEPT !.live = None, !.calling = FALSE]
       ELSE lock[p]]
  /\ lock' # lock
  /\ UNCHANGED <<clock, calls, req, on, popup>>

(* A mark counts if it was made after the lock was taken                   *)
(* (isDeskResponseCurrent, isOnLiveCall, isEndCallRequestCurrent).         *)
Current(l, m) == m # None /\ m.at >= l.lockedAt

(* GET /dialer/live, polled by the PC.                                     *)
OnLiveCall(a, p) ==
  /\ Owns(a, p)
  /\ clock - lock[p].lockedAt <= LiveCallMax
  /\ Current(lock[p], lock[p].live)
  /\ clock - lock[p].live.at <= LiveStateMax

GetLive(a) ==
  /\ \/ \E p \in Phones : OnLiveCall(a, p) /\ popup' = [popup EXCEPT ![a] = p]
     \/ /\ \A p \in Phones : ~ OnLiveCall(a, p)
        /\ popup' = [popup EXCEPT ![a] = None]
  /\ popup' # popup
  /\ UNCHANGED <<clock, lock, calls, req, on>>

(* POST /dialer/end-call, and the second update of saveDeskResponse, which *)
(* hangs up a call that is still going.                                    *)
RequestEndCall(a) ==
  /\ popup[a] # None /\ Owns(a, popup[a])
  /\ Stamped
  /\ lock' = [lock EXCEPT ![popup[a]].endCall = [at |-> clock, by |-> a]]
  /\ UNCHANGED <<calls, req, on, popup>>

SaveDeskResponse(a) ==
  /\ popup[a] # None /\ Owns(a, popup[a])
  /\ Stamped
  /\ LET m == [at |-> clock, by |-> a]
     IN  lock' = [lock EXCEPT ![popup[a]].desk = m,
                              ![popup[a]].endCall = IF lock[popup[a]].calling THEN m ELSE @]
  /\ UNCHANGED <<calls, req, on, popup>>

-----------------------------------------------------------------------------
Next ==
  \/ TimePasses
  \/ \E a \in Agents :
       \/ Ask(a) \/ FreeOwn(a) \/ Look(a) \/ Claim(a) \/ Beaten(a) \/ Answer(a)
       \/ SaveResult(a)
       \/ ReportLive(a) \/ ReportNone(a) \/ GetLive(a)
       \/ RequestEndCall(a) \/ SaveDeskResponse(a)

Spec == Init /\ [][Next]_vars

-----------------------------------------------------------------------------
(* Type correctness of the locks, the calls, the requests and what the     *)
(* phones and PCs show (schema.prisma:1724-1782); what is stamped is past. *)
TypeOK ==
  /\ clock \in Times
  /\ lock \in [Phones -> Locks \cup {None}]
  /\ calls \subseteq Calls
  /\ req \in [Agents -> Requests]
  /\ on \in [Agents -> Given \cup {None}]
  /\ popup \in [Agents -> Phones \cup {None}]

(* The call on an agent's phone whose outcome is in the database.          *)
Saved(a) ==
  \E c \in calls : /\ c.agent = a /\ c.phone = on[a].phone
                   /\ c.savedAt >= on[a].claimed

OnCall(a, p) == on[a] # None /\ on[a].phone = p /\ ~ Saved(a)

(* Two agents have one number on their phones, neither call saved, only if *)
(* the second was given it when the first's lock was older than LockTime   *)
(* ("so two agents never get the same phone from GET /dialer/next",        *)
(* schema.prisma:1752-1755; claim, dialer.service.ts:537-556).             *)
OneCaller ==
  \A a, b \in Agents, p \in Phones :
    a # b /\ OnCall(a, p) /\ OnCall(b, p) =>
      \/ on[b].claimed > on[a].asked + LockTime
      \/ on[a].claimed > on[b].asked + LockTime

(* A number is claimed only if no call saved before the request began was  *)
(* to a wrong number or less than RecentTime ago (dialer.service.ts:18-22, *)
(* blockedPhones, 510-532).                                                *)
FreshOnly ==
  [][\A a \in Agents : At(a, "look") /\ req'[a].pc = "answer" =>
       \A c \in calls : c.phone = req[a].phone /\ c.savedAt < req[a].asked =>
         ~ c.wrong /\ c.startedAt < req[a].asked - RecentTime]_vars

(* What an agent's phone and PC take for an answer, a hang-up or a call    *)
(* state of their own was made by that agent, or else between the agent's  *)
(* request and its claim ("never inherits an earlier agent's answer",      *)
(* dialer.rules.ts:427-429, which the second case contradicts).            *)
MarksAreOwn ==
  \A a \in Agents :
    on[a] # None /\ Owns(a, on[a].phone) =>
      LET l == lock[on[a].phone]
      IN  \A m \in {l.desk, l.endCall, l.live} :
            Current(l, m) /\ m.by # a =>
              on[a].asked <= m.at /\ m.at < on[a].claimed
=============================================================================
