-------------------------- MODULE DialerLocks_proof --------------------------
(***************************************************************************)
(* TypeOK, OneCaller, MarksAreOwn and FreshOnly are proved for any number  *)
(* of agents and numbers and any lengths of time.  The inductive invariant *)
(* IInv follows what each agent has been given, from its claim on: while   *)
(* its call is unsaved the lock is the agent's, taken at the request's     *)
(* time, or else so much time has passed that anyone may take it.          *)
(***************************************************************************)
EXTENDS DialerLocks, TLAPS

(* What the agent was given: on its way to the phone or on it.             *)
Has(a) == At(a, "answer") \/ on[a] # None
Own(a) == IF At(a, "answer")
          THEN [phone |-> req[a].phone, asked |-> req[a].asked,
                claimed |-> req[a].claimed]
          ELSE on[a]
Unsaved(a) == At(a, "answer") \/ (on[a] # None /\ ~ Saved(a))

Exclusive == \A a \in Agents : ~ At(a, "idle") => on[a] = None

(* Nothing bears a time that is yet to come.                               *)
PastGiven ==
  \A a \in Agents : /\ req[a].asked <= clock /\ req[a].claimed <= clock
                    /\ on[a] # None => on[a].claimed <= clock
PastMarks ==
  \A p \in Phones : lock[p] # None =>
    \A m \in {lock[p].desk, lock[p].endCall, lock[p].live} :
      m # None => m.at < clock
Past == PastGiven /\ PastMarks

Linked ==
  \A a \in Agents : Has(a) /\ Owns(a, Own(a).phone) =>
    LET l == lock[Own(a).phone]
    IN  /\ l.lockedAt = Own(a).asked
        /\ \A m \in {l.desk, l.endCall, l.live} :
             m # None /\ m.by # a => m.at < Own(a).claimed

Kept ==
  \A a \in Agents : Unsaved(a) =>
    Owns(a, Own(a).phone) \/ clock > Own(a).asked + LockTime

Apart ==
  \A a, b \in Agents :
    a # b /\ Unsaved(a) /\ Unsaved(b) /\ Own(a).phone = Own(b).phone =>
      \/ Own(b).claimed > Own(a).asked + LockTime
      \/ Own(a).claimed > Own(b).asked + LockTime

Seen ==
  \A a \in Agents : ~ At(a, "idle") =>
    \A c \in calls : c.phone = req[a].phone /\ c.savedAt < req[a].asked =>
      /\ "recent" \in req[a].seen => c.startedAt < req[a].asked - RecentTime
      /\ "wrong" \in req[a].seen => ~ c.wrong

IInv == TypeOK /\ Exclusive /\ Past /\ Linked /\ Kept /\ Apart /\ Seen

-----------------------------------------------------------------------------
(* Each step keeps the types.                                              *)
LEMMA TypeStep ==
  ASSUME TypeOK, [Next]_vars
  PROVE  TypeOK'
<1> USE DialerAssumption
<1>1. CASE TimePasses
  BY <1>1 DEF TimePasses, Stamped, TypeOK, Times
<1>2. ASSUME NEW a \in Agents, Ask(a) PROVE TypeOK'
  BY <1>2 DEF Ask, Stamped, TypeOK, Times, Requests, At
<1>3. ASSUME NEW a \in Agents, FreeOwn(a) PROVE TypeOK'
  <2>1. lock' \in [Phones -> Locks \cup {None}]
    BY <1>3 DEF FreeOwn, Released, TypeOK
  <2>2. req' \in [Agents -> Requests]
    BY <1>3, SMTT(30) DEF FreeOwn, Goto, TypeOK, Requests
  <2> QED BY <1>3, <2>1, <2>2 DEF FreeOwn, TypeOK
<1>4. ASSUME NEW a \in Agents, Look(a) PROVE TypeOK'
  <2>1. req' \in [Agents -> Requests]
    BY <1>4 DEF Look, TypeOK, Requests, Looks
  <2> QED BY <1>4, <2>1 DEF Look, TypeOK
<1>5. ASSUME NEW a \in Agents, Claim(a) PROVE TypeOK'
  <2>1. req' \in [Agents -> Requests]
    <3>1. [req[a] EXCEPT !.pc = "answer", !.claimed = clock] \in Requests
      BY DEF TypeOK, Requests
    <3> QED BY <1>5, <3>1 DEF Claim, TypeOK
  <2>2. NewLock(a) \in Locks
    BY <1>5 DEF NewLock, TypeOK, Requests, Locks, Marks
  <2>3. ASSUME NEW l \in Locks PROVE TakeOver(l, a) \in Locks
    BY <1>5, <2>3 DEF TakeOver, TypeOK, Requests, Locks
  <2> DEFINE p == req[a].phone
  <2>4. UNCHANGED <<clock, calls, on, popup>>
    BY <1>5 DEF Claim
  <2>5. CASE lock[p] = None /\ lock' = [lock EXCEPT ![p] = NewLock(a)]
    <3>1. lock' \in [Phones -> Locks \cup {None}]
      BY <2>2, <2>5 DEF TypeOK
    <3> QED BY <2>1, <2>4, <3>1 DEF TypeOK
  <2>6. CASE lock[p] # None /\ lock' = [lock EXCEPT ![p] = TakeOver(lock[p], a)]
    <3>1. lock[p] \in Locks
      BY <2>6 DEF TypeOK, Requests
    <3>2. TakeOver(lock[p], a) \in Locks
      BY <2>3, <3>1
    <3>3. lock' \in [Phones -> Locks \cup {None}]
      BY <2>6, <3>2 DEF TypeOK
    <3> QED BY <2>1, <2>4, <3>3 DEF TypeOK
  <2> QED BY <1>5, <2>5, <2>6 DEF Claim
<1>6. ASSUME NEW a \in Agents, Beaten(a) PROVE TypeOK'
  BY <1>6 DEF Beaten, Goto, TypeOK, Requests
<1>7. ASSUME NEW a \in Agents, Answer(a) PROVE TypeOK'
  <2>1. req' \in [Agents -> Requests]
    BY <1>7, ZenonT(60) DEF Answer, Goto, TypeOK, Requests
  <2>2. on' \in [Agents -> Given \cup {None}]
    BY <1>7 DEF Answer, TypeOK, Requests, Given
  <2> QED BY <1>7, <2>1, <2>2 DEF Answer, TypeOK
<1>8. ASSUME NEW a \in Agents, SaveResult(a) PROVE TypeOK'
  <2>1. calls' \subseteq Calls
    BY <1>8 DEF SaveResult, TypeOK, Calls, Given
  <2>2. lock' \in [Phones -> Locks \cup {None}]
    BY <1>8 DEF SaveResult, Released, TypeOK
  <2>3. on' \in [Agents -> Given \cup {None}]
    BY <1>8 DEF SaveResult, TypeOK
  <2> QED BY <1>8, <2>1, <2>2, <2>3 DEF SaveResult, Stamped, TypeOK, Times
<1>9. ASSUME NEW a \in Agents, ReportLive(a) PROVE TypeOK'
  <2>1. PICK p \in Phones, c \in BOOLEAN :
           /\ lock[p] \in Locks
           /\ lock' = [lock EXCEPT ![p].live = [at |-> clock, by |-> a], ![p].calling = c]
    BY <1>9 DEF ReportLive, Owns, TypeOK, Given
  <2>2. [at |-> clock, by |-> a] \in Marks
    BY DEF TypeOK, Marks
  <2>3. lock'[p] \in Locks
    BY <2>1, <2>2 DEF Locks, TypeOK
  <2>4. lock' \in [Phones -> Locks \cup {None}]
    BY <2>1, <2>3 DEF TypeOK
  <2> QED BY <1>9, <2>4 DEF ReportLive, Stamped, TypeOK, Times
<1>10. ASSUME NEW a \in Agents, ReportNone(a) PROVE TypeOK'
  <2>1. ASSUME NEW l \in Locks
        PROVE  [l EXCEPT !.live = None, !.calling = FALSE] \in Locks
    BY DEF Locks
  <2>2. ASSUME NEW p \in Phones, Owns(a, p) PROVE lock[p] \in Locks
    BY <2>2 DEF Owns, TypeOK
  <2>3. lock' \in [Phones -> Locks \cup {None}]
    BY <1>10, <2>1, <2>2 DEF ReportNone, TypeOK
  <2> QED BY <1>10, <2>3 DEF ReportNone, TypeOK
<1>11. ASSUME NEW a \in Agents, GetLive(a) PROVE TypeOK'
  BY <1>11 DEF GetLive, TypeOK
<1>12. ASSUME NEW a \in Agents, RequestEndCall(a) PROVE TypeOK'
  <2>1. lock' \in [Phones -> Locks \cup {None}]
    BY <1>12 DEF RequestEndCall, Owns, TypeOK, Locks, Marks
  <2> QED BY <1>12, <2>1 DEF RequestEndCall, Stamped, TypeOK, Times
<1>13. ASSUME NEW a \in Agents, SaveDeskResponse(a) PROVE TypeOK'
  <2>1. lock' \in [Phones -> Locks \cup {None}]
    BY <1>13 DEF SaveDeskResponse, Owns, TypeOK, Locks, Marks
  <2> QED BY <1>13, <2>1 DEF SaveDeskResponse, Stamped, TypeOK, Times
<1>14. CASE UNCHANGED vars
  BY <1>14 DEF vars, TypeOK
<1> QED
  BY <1>1, <1>2, <1>3, <1>4, <1>5, <1>6, <1>7, <1>8, <1>9, <1>10, <1>11,
     <1>12, <1>13, <1>14 DEF Next

-----------------------------------------------------------------------------
(* What a step that touches no lock, call, request or phone leaves true.   *)
LEMMA Idle ==
  ASSUME IInv, TypeOK', UNCHANGED <<lock, calls, req, on>>, clock <= clock'
  PROVE  IInv'
<1> USE DialerAssumption
<1>1. Exclusive' /\ Linked' /\ Apart' /\ Seen'
  <2>1. Exclusive'
    BY DEF IInv, Exclusive, At
  <2>2. Linked'
    <3>1. \A a \in Agents : /\ (Has(a)' <=> Has(a)) /\ Own(a)' = Own(a)
                           /\ \A p : Owns(a, p)' <=> Owns(a, p)
      BY DEF Has, Own, Owns, At
    <3>2. SUFFICES ASSUME NEW a \in Agents, Has(a), Owns(a, Own(a).phone)
                   PROVE  /\ lock[Own(a).phone].lockedAt = Own(a).asked
                          /\ \A m \in {lock[Own(a).phone].desk, lock[Own(a).phone].endCall,
                                       lock[Own(a).phone].live} :
                               m # None /\ m.by # a => m.at < Own(a).claimed
      BY <3>1 DEF Linked
    <3> QED BY <3>2 DEF IInv, Linked
  <2>3. Apart'
    BY DEF IInv, Apart, Own, Unsaved, Saved, At
  <2>4. Seen'
    BY DEF IInv, Seen, At
  <2> QED BY <2>1, <2>2, <2>3, <2>4
<1>2. Past'
  BY DEF IInv, TypeOK, Times, Past, PastGiven, PastMarks, Requests, Given, Locks, Marks
<1>3. Kept'
  <2> SUFFICES ASSUME NEW a \in Agents, Unsaved(a)'
               PROVE  (Owns(a, Own(a).phone) \/ clock > Own(a).asked + LockTime)'
    BY DEF Kept
  <2>1. Unsaved(a) /\ Own(a)' = Own(a) /\ Own(a).asked \in Times
    BY DEF Unsaved, Own, At, Saved, IInv, TypeOK, Requests, Given
  <2>2. Owns(a, Own(a).phone) \/ clock > Own(a).asked + LockTime
    BY <2>1 DEF IInv, Kept
  <2> QED BY <2>1, <2>2 DEF Owns, IInv, TypeOK, Times
<1> QED BY <1>1, <1>2, <1>3 DEF IInv

(* A request that only moves on, holding nothing before or after.          *)
LEMMA Moves ==
  ASSUME IInv, TypeOK', UNCHANGED <<clock, calls, on>>,
         NEW a \in Agents, ~ At(a, "answer"), ~ At(a, "idle"),
         ~ (At(a, "answer"))',
         \A b \in Agents \ {a} : req'[b] = req[b],
         req'[a].asked = req[a].asked, req'[a].claimed = req[a].claimed,
         \A p \in Phones : lock'[p] = lock[p] \/ (Owns(a, p) /\ lock'[p] = None),
         Seen'
  PROVE  IInv'
<1> USE DialerAssumption
<1>1. on[a] = None /\ ~ Has(a) /\ ~ Has(a)' /\ ~ Unsaved(a) /\ ~ Unsaved(a)'
  BY DEF IInv, Exclusive, Has, Unsaved
<1>2. ASSUME NEW b \in Agents, b # a
      PROVE  /\ Has(b)' = Has(b) /\ Own(b)' = Own(b) /\ Unsaved(b)' = Unsaved(b)
             /\ \A p \in Phones : Owns(b, p)' => Owns(b, p) /\ lock'[p] = lock[p]
             /\ \A p \in Phones : Owns(b, p) => Owns(b, p)' /\ lock'[p] = lock[p]
  BY <1>2 DEF Has, Own, Unsaved, Saved, Owns, At
<1>3. \A b \in Agents : Has(b) => Own(b).phone \in Phones
  BY DEF Has, Own, At, IInv, TypeOK, Requests, Given
<1>4. Exclusive'
  BY <1>1 DEF IInv, Exclusive, At
<1>5. Past'
  BY DEF IInv, Past, PastGiven, PastMarks, TypeOK
<1>6. Linked'
  BY <1>1, <1>2, <1>3 DEF IInv, Linked
<1>7. Kept'
  BY <1>1, <1>2, <1>3 DEF IInv, Kept, Has, Unsaved
<1>8. Apart'
  BY <1>1, <1>2 DEF IInv, Apart
<1> QED BY <1>4, <1>5, <1>6, <1>7, <1>8 DEF IInv

LEMMA AskStep ==
  ASSUME IInv, TypeOK', NEW a \in Agents, Ask(a)
  PROVE  IInv'
<1> USE DialerAssumption
<1>1. /\ clock' = clock + 1 /\ UNCHANGED <<lock, calls, popup>>
      /\ \A b \in Agents \ {a} : req'[b] = req[b] /\ on'[b] = on[b]
      /\ on'[a] = None /\ req'[a].pc = "free"
      /\ req'[a].asked = clock /\ req'[a].claimed = clock /\ req'[a].seen = {}
  BY DEF Ask, Stamped, IInv, TypeOK
<1>2. ~ Has(a)' /\ ~ Unsaved(a)' /\ clock \in Times
  BY <1>1 DEF Has, Unsaved, At, IInv, TypeOK
<1>3. ASSUME NEW b \in Agents, b # a
      PROVE  Has(b)' = Has(b) /\ Own(b)' = Own(b) /\ Unsaved(b)' = Unsaved(b)
  BY <1>1, <1>3 DEF Has, Own, Unsaved, Saved, At
<1>4. Exclusive'
  BY <1>1 DEF IInv, Exclusive, At
<1>5. Past'
  <2>1. PastGiven'
    BY <1>1, <1>2 DEF IInv, Past, PastGiven, TypeOK, Requests, Given, Times
  <2>2. PastMarks'
    <3> SUFFICES ASSUME NEW p \in Phones, lock[p] # None,
                        NEW m \in {lock[p].desk, lock[p].endCall, lock[p].live}, m # None
                 PROVE  m.at < clock'
      BY <1>1 DEF PastMarks
    <3>1. m.at < clock
      BY DEF IInv, Past, PastMarks
    <3>2. m \in Marks
      BY DEF IInv, TypeOK, Locks
    <3> QED BY <1>1, <1>2, <3>1, <3>2 DEF Marks, Times
  <2> QED BY <2>1, <2>2 DEF Past
<1>6. Linked'
  BY <1>1, <1>2, <1>3 DEF IInv, Linked, Owns
<1>7. Kept'
  <2> SUFFICES ASSUME NEW b \in Agents, Unsaved(b)'
               PROVE  (Owns(b, Own(b).phone) \/ clock > Own(b).asked + LockTime)'
    BY DEF Kept
  <2>1. b # a
    BY <1>2
  <2>2. Unsaved(b) /\ Own(b)' = Own(b)
    BY <1>3, <2>1
  <2>3. Own(b).asked \in Times
    BY <2>2 DEF Unsaved, Own, At, IInv, TypeOK, Requests, Given
  <2>4. Owns(b, Own(b).phone) \/ clock > Own(b).asked + LockTime
    BY <2>2 DEF IInv, Kept
  <2> QED BY <1>1, <1>2, <2>2, <2>3, <2>4 DEF Owns, Times
<1>8. Apart'
  BY <1>2, <1>3 DEF IInv, Apart
<1>9. Seen'
  BY <1>1 DEF IInv, Seen, At
<1> QED BY <1>4, <1>5, <1>6, <1>7, <1>8, <1>9 DEF IInv

LEMMA FreeOwnStep ==
  ASSUME IInv, TypeOK', NEW a \in Agents, FreeOwn(a)
  PROVE  IInv'
<1>1. /\ UNCHANGED <<clock, calls, on>> /\ At(a, "free") /\ At(a, "look")'
      /\ \A b \in Agents \ {a} : req'[b] = req[b]
      /\ req'[a] = [req[a] EXCEPT !.pc = "look"]
      /\ \A p \in Phones : lock'[p] = lock[p] \/ (Owns(a, p) /\ lock'[p] = None)
  BY DEF FreeOwn, Goto, Released, At, IInv, TypeOK
<1>2. ~ At(a, "answer") /\ ~ At(a, "idle") /\ ~ (At(a, "answer"))'
  BY <1>1 DEF At
<1>3. /\ req'[a].asked = req[a].asked /\ req'[a].claimed = req[a].claimed
      /\ req'[a].phone = req[a].phone /\ req'[a].seen = req[a].seen
  BY <1>1 DEF IInv, TypeOK, Requests
<1>5. Seen'
  <2>1. ASSUME NEW b \in Agents, ~ At(b, "idle")'
        PROVE  /\ ~ At(b, "idle") /\ req'[b].seen = req[b].seen
               /\ req'[b].phone = req[b].phone /\ req'[b].asked = req[b].asked
    BY <1>1, <1>2, <1>3, <2>1 DEF At
  <2> QED BY <1>1, <2>1 DEF IInv, Seen
<1> QED BY <1>1, <1>2, <1>3, <1>5, Moves

LEMMA LookStep ==
  ASSUME IInv, TypeOK', NEW a \in Agents, Look(a) \/ Beaten(a)
  PROVE  IInv'
<1> USE DialerAssumption
<1>1. /\ UNCHANGED <<clock, calls, on, lock>> /\ At(a, "look")
      /\ \A b \in Agents \ {a} : req'[b] = req[b]
      /\ req'[a].asked = req[a].asked /\ req'[a].claimed = req[a].claimed
      /\ req'[a].phone = req[a].phone
  <2>1. CASE Look(a)
    BY <2>1 DEF Look, IInv, TypeOK, Requests
  <2>2. CASE Beaten(a)
    BY <2>2 DEF Beaten, Goto, IInv, TypeOK, Requests
  <2> QED BY <2>1, <2>2
<1>2. At(a, "look")' \/ At(a, "idle")'
  BY DEF Look, Beaten, Goto, At, IInv, TypeOK, Requests
<1>3. ~ At(a, "answer") /\ ~ At(a, "idle") /\ ~ (At(a, "answer"))'
  BY <1>1, <1>2 DEF At
<1>4. Seen'
  <2> SUFFICES ASSUME ~ At(a, "idle")', NEW c \in calls, c.phone = req[a].phone,
                      c.savedAt < req[a].asked
               PROVE  /\ "recent" \in req'[a].seen => c.startedAt < req[a].asked - RecentTime
                      /\ "wrong" \in req'[a].seen => ~ c.wrong
    BY <1>1 DEF IInv, Seen, At
  <2>1. /\ "recent" \in req[a].seen => c.startedAt < req[a].asked - RecentTime
        /\ "wrong" \in req[a].seen => ~ c.wrong
    BY <1>3 DEF IInv, Seen
  <2>2. PICK k \in Looks : ~ Blocked(a, k) /\ req'[a].seen = req[a].seen \cup {k}
    BY DEF Look, Beaten, Goto, At, IInv, TypeOK, Requests
  <2>3. c.startedAt \in Int /\ req[a].asked \in Int
    BY DEF IInv, TypeOK, Calls, Requests, Times
  <2>4. k = "recent" => c.startedAt < req[a].asked - RecentTime
    BY <2>2, <2>3 DEF Blocked, Recent
  <2>5. k = "wrong" => ~ c.wrong
    BY <2>2 DEF Blocked, Wrong
  <2> QED BY <2>1, <2>2, <2>4, <2>5
<1> QED BY <1>1, <1>3, <1>4, Moves

(* The row after a claim, and the one it may replace.                      *)
LEMMA Claimed ==
  ASSUME IInv, NEW a \in Agents, Claim(a), NEW p, p = req[a].phone
  PROVE  /\ p \in Phones /\ \A q \in Phones \ {p} : lock'[q] = lock[q]
         /\ lock'[p] # None /\ lock'[p].agent = a
         /\ lock'[p].lockedAt = req[a].asked
         /\ \A m \in {lock'[p].desk, lock'[p].endCall, lock'[p].live} :
              m # None => m.at < clock
         /\ \A b \in Agents \ {a} : Owns(b, p) => lock[p].lockedAt < req[a].asked - LockTime
         /\ UNCHANGED <<clock, calls, on, popup>>
         /\ \A b \in Agents \ {a} : req'[b] = req[b]
         /\ req'[a].pc = "answer" /\ req'[a].claimed = clock
         /\ req'[a].phone = req[a].phone /\ req'[a].asked = req[a].asked
         /\ req'[a].seen = req[a].seen /\ At(a, "look")
<1> USE DialerAssumption
<1>1. p \in Phones /\ p \in DOMAIN lock /\ a \in DOMAIN req
  BY DEF IInv, TypeOK, Requests
<1>2. /\ UNCHANGED <<clock, calls, on, popup>> /\ At(a, "look")
      /\ req' = [req EXCEPT ![a].pc = "answer", ![a].claimed = clock]
  BY DEF Claim
<1>3. /\ req'[a].pc = "answer" /\ req'[a].claimed = clock
      /\ req'[a].phone = req[a].phone /\ req'[a].asked = req[a].asked
      /\ req'[a].seen = req[a].seen
      /\ \A b \in Agents \ {a} : req'[b] = req[b]
  BY <1>1, <1>2 DEF IInv, TypeOK, Requests
<1>4. CASE lock[p] = None /\ lock' = [lock EXCEPT ![p] = NewLock(a)]
  <2>1. lock'[p] = NewLock(a) /\ \A q \in Phones \ {p} : lock'[q] = lock[q]
    BY <1>1, <1>4 DEF IInv, TypeOK
  <2>2. NewLock(a) \in Locks
    BY DEF NewLock, IInv, TypeOK, Requests, Locks
  <2>3. /\ lock'[p].agent = a /\ lock'[p].lockedAt = req[a].asked
        /\ lock'[p].desk = None /\ lock'[p].endCall = None /\ lock'[p].live = None
    BY <2>1 DEF NewLock
  <2>4. lock'[p] # None
    BY <2>1, <2>2
  <2> QED BY <1>1, <1>2, <1>3, <1>4, <2>1, <2>3, <2>4 DEF Owns
<1>5. CASE /\ lock[p] # None /\ Abandoned(lock[p], a)
           /\ lock' = [lock EXCEPT ![p] = TakeOver(lock[p], a)]
  <2>1. lock'[p] = TakeOver(lock[p], a) /\ \A q \in Phones \ {p} : lock'[q] = lock[q]
    BY <1>1, <1>5 DEF IInv, TypeOK
  <2>2. lock[p] \in Locks
    BY <1>1, <1>5 DEF IInv, TypeOK
  <2>3. /\ lock'[p].agent = a /\ lock'[p].lockedAt = req[a].asked
        /\ lock'[p].desk = lock[p].desk /\ lock'[p].endCall = lock[p].endCall
        /\ lock'[p].live = lock[p].live
    BY <2>1, <2>2 DEF TakeOver, Locks
  <2>4. lock'[p] \in Locks
    BY ZenonT(60), <2>1, <2>2 DEF TakeOver, Locks, IInv, TypeOK, Requests
  <2>5. \A m \in {lock[p].desk, lock[p].endCall, lock[p].live} : m # None => m.at < clock
    BY <1>1, <1>5 DEF IInv, Past, PastMarks
  <2>6. \A b \in Agents \ {a} : Owns(b, p) => lock[p].lockedAt < req[a].asked - LockTime
    BY <1>5 DEF Abandoned, Owns
  <2> QED BY ZenonT(60), <1>1, <1>2, <1>3, <2>1, <2>3, <2>4, <2>5, <2>6
<1> QED BY <1>4, <1>5 DEF Claim

LEMMA ClaimStep ==
  ASSUME IInv, TypeOK', NEW a \in Agents, Claim(a)
  PROVE  IInv'
<1> USE DialerAssumption
<1> DEFINE p == req[a].phone
<1>1. /\ p \in Phones /\ \A q \in Phones \ {p} : lock'[q] = lock[q]
      /\ lock'[p] # None /\ lock'[p].agent = a
      /\ lock'[p].lockedAt = req[a].asked
      /\ \A m \in {lock'[p].desk, lock'[p].endCall, lock'[p].live} :
           m # None => m.at < clock
      /\ \A b \in Agents \ {a} : Owns(b, p) => lock[p].lockedAt < req[a].asked - LockTime
      /\ UNCHANGED <<clock, calls, on, popup>>
      /\ \A b \in Agents \ {a} : req'[b] = req[b]
      /\ req'[a].pc = "answer" /\ req'[a].claimed = clock
      /\ req'[a].phone = p /\ req'[a].asked = req[a].asked
      /\ req'[a].seen = req[a].seen /\ At(a, "look")
  BY Claimed
<1> HIDE DEF p
<1>2. /\ Has(a)' /\ Unsaved(a)' /\ Own(a)'.phone = p /\ Own(a)'.asked = req[a].asked
      /\ Own(a)'.claimed = clock
  BY <1>1 DEF Has, Unsaved, Own, At
<1>3. ASSUME NEW b \in Agents, b # a
      PROVE  /\ Has(b)' = Has(b) /\ Own(b)' = Own(b) /\ Unsaved(b)' = Unsaved(b)
             /\ Unsaved(b) => /\ Has(b) /\ Own(b).phone \in Phones
                              /\ Own(b).asked \in Int
             /\ Has(b) => Own(b).phone \in Phones
  BY <1>1, <1>3 DEF Has, Own, Unsaved, Saved, At, IInv, TypeOK, Requests, Given, Times
<1>4. req[a].asked \in Int /\ clock \in Int /\ req[a].asked <= clock
  BY DEF IInv, TypeOK, Requests, Times, Past, PastGiven
(* Whoever else has this number unsaved has had it for too long.           *)
<1>5. ASSUME NEW b \in Agents, b # a, Unsaved(b), Own(b).phone = p
      PROVE  clock > Own(b).asked + LockTime
  <2>1. Owns(b, p) \/ clock > Own(b).asked + LockTime
    BY <1>5 DEF IInv, Kept
  <2>2. CASE Owns(b, p)
    <3>1. lock[p].lockedAt = Own(b).asked
      BY <1>3, <1>5, <2>2 DEF IInv, Linked
    <3>2. Own(b).asked < req[a].asked - LockTime
      BY <1>1, <1>5, <2>2, <3>1
    <3> QED BY <1>3, <1>4, <1>5, <3>2
  <2> QED BY <2>1, <2>2
<1>6. on[a] = None /\ on'[a] = None
  BY <1>1 DEF IInv, Exclusive, At
<1>7. Exclusive'
  BY <1>1, <1>6 DEF IInv, Exclusive, At
<1>8. Past'
  <2>1. PastGiven'
    BY <1>1, <1>4 DEF IInv, Past, PastGiven
  <2>2. PastMarks'
    BY <1>1 DEF IInv, Past, PastMarks
  <2> QED BY <2>1, <2>2 DEF Past
<1>9. Linked'
  <2> SUFFICES ASSUME NEW b \in Agents, Has(b)', Owns(b, Own(b).phone)'
               PROVE  (LET l == lock[Own(b).phone]
                       IN  /\ l.lockedAt = Own(b).asked
                           /\ \A m \in {l.desk, l.endCall, l.live} :
                                m # None /\ m.by # b => m.at < Own(b).claimed)'
    BY DEF Linked
  <2>1. CASE b = a
    BY <1>1, <1>2, <2>1
  <2>2. CASE b # a
    <3>1. Has(b) /\ Own(b)' = Own(b) /\ Own(b).phone \in Phones
      BY <1>3, <2>2
    <3>2. Own(b).phone # p
      BY <1>1, <2>2, <3>1 DEF Owns
    <3>3. lock'[Own(b).phone] = lock[Own(b).phone]
      BY <1>1, <3>1, <3>2
    <3> QED BY <3>1, <3>3 DEF IInv, Linked, Owns
  <2> QED BY <2>1, <2>2
<1>10. Kept'
  <2> SUFFICES ASSUME NEW b \in Agents, Unsaved(b)'
               PROVE  (Owns(b, Own(b).phone) \/ clock > Own(b).asked + LockTime)'
    BY DEF Kept
  <2>1. CASE b = a
    BY <1>1, <1>2, <2>1 DEF Owns
  <2>2. CASE b # a
    <3>1. Unsaved(b) /\ Own(b)' = Own(b) /\ Own(b).phone \in Phones
      BY <1>3, <2>2
    <3>2. CASE Own(b).phone = p
      BY <1>1, <1>5, <2>2, <3>1, <3>2
    <3>3. CASE Own(b).phone # p
      BY <1>1, <3>1, <3>3 DEF IInv, Kept, Owns
    <3> QED BY <3>2, <3>3
  <2> QED BY <2>1, <2>2
<1>11. Apart'
  <2> SUFFICES ASSUME NEW b \in Agents, NEW c \in Agents, b # c, Unsaved(b)', Unsaved(c)',
                      Own(b)'.phone = Own(c)'.phone
               PROVE  \/ Own(c)'.claimed > Own(b)'.asked + LockTime
                      \/ Own(b)'.claimed > Own(c)'.asked + LockTime
    BY DEF Apart
  <2>1. CASE b = a
    BY <1>2, <1>3, <1>5, <2>1
  <2>2. CASE c = a
    BY <1>2, <1>3, <1>5, <2>2
  <2>3. CASE b # a /\ c # a
    BY <1>3, <2>3 DEF IInv, Apart
  <2> QED BY <2>1, <2>2, <2>3
<1>12. Seen'
  <2>1. ASSUME NEW b \in Agents, ~ At(b, "idle")'
        PROVE  /\ ~ At(b, "idle") /\ req'[b].seen = req[b].seen
               /\ req'[b].phone = req[b].phone /\ req'[b].asked = req[b].asked
    BY <1>1, <2>1 DEF At, p
  <2> QED BY <1>1, <2>1 DEF IInv, Seen
<1> QED BY <1>7, <1>8, <1>9, <1>10, <1>11, <1>12 DEF IInv

(* What a claimed number becomes on the phone.                             *)
LEMMA AnswerStep ==
  ASSUME IInv, TypeOK', NEW a \in Agents, Answer(a)
  PROVE  IInv'
<1> USE DialerAssumption
<1>1. /\ UNCHANGED <<clock, lock, calls, popup>> /\ At(a, "answer") /\ At(a, "idle")'
      /\ \A b \in Agents \ {a} : req'[b] = req[b] /\ on'[b] = on[b]
      /\ req'[a].asked = req[a].asked /\ req'[a].claimed = req[a].claimed
  BY DEF Answer, Goto, At, IInv, TypeOK, Requests
<1>2. on[a] = None
  BY <1>1 DEF IInv, Exclusive, At
<1>3. Has(a) /\ Unsaved(a) /\ Own(a).phone \in Phones
  BY <1>1 DEF Has, Unsaved, Own, IInv, TypeOK, Requests
<1>4. on'[a] = None \/ on'[a] = Own(a)
  BY <1>1, <1>2 DEF Answer, Own, IInv, TypeOK
<1>5. Has(a)' => Own(a)' = Own(a)
  BY <1>1, <1>4 DEF Has, Own, At
<1>6. ASSUME NEW b \in Agents, b # a
      PROVE  Has(b)' = Has(b) /\ Own(b)' = Own(b) /\ Unsaved(b)' = Unsaved(b)
  BY <1>1, <1>6 DEF Has, Own, Unsaved, Saved, At
<1>7. ASSUME NEW b \in Agents, Has(b)'
      PROVE  Has(b) /\ Own(b)' = Own(b)
  BY <1>3, <1>5, <1>6, <1>7
<1>8. ASSUME NEW b \in Agents, Unsaved(b)'
       PROVE  Unsaved(b) /\ Own(b)' = Own(b)
  <2>1. Has(b)'
    BY <1>8 DEF Unsaved, Has
  <2> QED BY <1>3, <1>6, <1>7, <1>8, <2>1
<1>9. Exclusive'
  BY <1>1 DEF IInv, Exclusive, At
<1>10. Past'
  <2>1. Own(a).claimed <= clock
    BY <1>1 DEF Own, IInv, Past, PastGiven
  <2>2. PastGiven'
    BY <1>1, <1>4, <2>1 DEF IInv, Past, PastGiven
  <2>3. PastMarks'
    BY <1>1 DEF IInv, Past, PastMarks
  <2> QED BY <2>2, <2>3 DEF Past
<1>11. Linked'
  BY <1>1, <1>7 DEF IInv, Linked, Owns
<1>12. Kept'
  BY <1>1, <1>8 DEF IInv, Kept, Owns
<1>13. Apart'
  BY <1>8 DEF IInv, Apart
<1>14. Seen'
  BY <1>1 DEF IInv, Seen, At
<1> QED BY <1>9, <1>10, <1>11, <1>12, <1>13, <1>14 DEF IInv

LEMMA SaveStep ==
  ASSUME IInv, TypeOK', NEW a \in Agents, SaveResult(a)
  PROVE  IInv'
<1> USE DialerAssumption
<1>1. PICK c \in Calls :
        /\ calls' = calls \cup {c} /\ c.agent = a /\ c.phone = on[a].phone
        /\ c.savedAt = clock
  <2>1. PICK s \in Times, w \in BOOLEAN :
          calls' = calls \cup {[agent |-> a, phone |-> on[a].phone, startedAt |-> s,
                                savedAt |-> clock, wrong |-> w]}
    BY DEF SaveResult
  <2>2. [agent |-> a, phone |-> on[a].phone, startedAt |-> s,
         savedAt |-> clock, wrong |-> w] \in Calls
    BY DEF SaveResult, IInv, TypeOK, Given, Calls
  <2> QED BY <2>1, <2>2
<1>2. /\ on[a] # None /\ clock' = clock + 1 /\ UNCHANGED <<req, popup>>
      /\ \A b \in Agents \ {a} : on'[b] = on[b]
      /\ on'[a] = on[a] \/ on'[a] = None
      /\ \A p \in Phones : lock'[p] = IF Owns(a, p) THEN None ELSE lock[p]
  BY DEF SaveResult, Stamped, Released, IInv, TypeOK
<1>3. clock \in Times /\ At(a, "idle") /\ ~ At(a, "answer") /\ on[a].claimed <= clock
  BY <1>2 DEF At, IInv, TypeOK, Exclusive, Past, PastGiven
<1>4. ~ Unsaved(a)'
  BY <1>1, <1>2, <1>3 DEF Unsaved, Saved, At
<1>5. \A b \in Agents : Has(b)' => Has(b) /\ Own(b)' = Own(b)
  BY <1>2, <1>3 DEF Has, Own, At
<1>6. ASSUME NEW b \in Agents, Unsaved(b)'
      PROVE  b # a /\ Unsaved(b) /\ Own(b)' = Own(b)
  BY <1>1, <1>2, <1>4, <1>6 DEF Unsaved, Own, Saved, At
<1>7. \A b \in Agents : Has(b) \/ Unsaved(b) =>
        Own(b).phone \in Phones /\ Own(b).asked \in Int
  BY DEF Has, Unsaved, Own, At, IInv, TypeOK, Requests, Given, Times
<1>8. Exclusive'
  BY <1>2 DEF IInv, Exclusive, At
<1>9. Past'
  <2>1. PastGiven'
    BY <1>2, <1>3 DEF IInv, Past, PastGiven, TypeOK, Requests, Given, Times
  <2>2. PastMarks'
    <3> SUFFICES ASSUME NEW p \in Phones, lock'[p] # None,
                        NEW m \in {lock'[p].desk, lock'[p].endCall, lock'[p].live}, m # None
                 PROVE  m.at < clock'
      BY DEF PastMarks
    <3>1. lock'[p] = lock[p]
      BY <1>2
    <3>2. m.at < clock
      BY <3>1 DEF IInv, Past, PastMarks
    <3>3. m \in Marks
      BY <3>1 DEF IInv, TypeOK, Locks
    <3> QED BY <1>2, <1>3, <3>2, <3>3 DEF Marks, Times
  <2> QED BY <2>1, <2>2 DEF Past
<1>10. Linked'
  BY <1>2, <1>5, <1>7 DEF IInv, Linked, Owns
<1>11. Kept'
  <2> SUFFICES ASSUME NEW b \in Agents, Unsaved(b)'
               PROVE  (Owns(b, Own(b).phone) \/ clock > Own(b).asked + LockTime)'
    BY DEF Kept
  <2>1. Owns(b, Own(b).phone) \/ clock > Own(b).asked + LockTime
    BY <1>6 DEF IInv, Kept
  <2> QED BY <1>2, <1>3, <1>6, <1>7, <2>1 DEF Owns, Times
<1>12. Apart'
  BY <1>6 DEF IInv, Apart
<1>13. Seen'
  <2>1. \A b \in Agents : req[b].asked \in Int /\ req[b].asked <= clock
    BY DEF IInv, Past, PastGiven, TypeOK, Requests, Times
  <2> QED BY <1>1, <1>2, <1>3, <2>1 DEF IInv, Seen, At, Times
<1> QED BY <1>8, <1>9, <1>10, <1>11, <1>12, <1>13 DEF IInv

(* Marks made and taken back on locks of the agent's own.                  *)
LEMMA Marked ==
  ASSUME IInv, TypeOK', UNCHANGED <<calls, req, on>>, clock <= clock',
         NEW a \in Agents,
         \A p \in Phones :
           \/ lock'[p] = lock[p]
           \/ /\ Owns(a, p) /\ lock'[p] # None
              /\ lock'[p].agent = a /\ lock'[p].lockedAt = lock[p].lockedAt
              /\ \A m \in {lock'[p].desk, lock'[p].endCall, lock'[p].live} :
                   \/ m \in {lock[p].desk, lock[p].endCall, lock[p].live, None}
                   \/ m.by = a /\ m.at < clock'
  PROVE  IInv'
<1> USE DialerAssumption
<1>1. \A b \in Agents : Has(b)' = Has(b) /\ Own(b)' = Own(b) /\ Unsaved(b)' = Unsaved(b)
  BY DEF Has, Own, Unsaved, Saved, At
<1>2. \A b \in Agents, p \in Phones : Owns(b, p)' = Owns(b, p)
  BY DEF Owns
<1>3. \A b \in Agents : Has(b) \/ Unsaved(b) =>
        Own(b).phone \in Phones /\ Own(b).asked \in Int
  BY DEF Has, Unsaved, Own, At, IInv, TypeOK, Requests, Given, Times
<1>4. clock \in Int /\ clock' \in Int
  BY DEF IInv, TypeOK, Times
<1>5. Exclusive' /\ Apart' /\ Seen'
  BY <1>1 DEF IInv, Exclusive, Apart, Seen, At
<1>6. Past'
  <2>1. PastGiven'
    BY <1>4 DEF IInv, Past, PastGiven, TypeOK, Requests, Given, Times
  <2>2. PastMarks'
    <3> SUFFICES ASSUME NEW p \in Phones, lock'[p] # None,
                        NEW m \in {lock'[p].desk, lock'[p].endCall, lock'[p].live}, m # None
                 PROVE  m.at < clock'
      BY DEF PastMarks
    <3>1. CASE lock[p] # None /\ m \in {lock[p].desk, lock[p].endCall, lock[p].live}
      <4>1. m.at < clock
        BY <3>1 DEF IInv, Past, PastMarks
      <4>2. m \in Marks
        BY <3>1 DEF IInv, TypeOK, Locks
      <4> QED BY <1>4, <4>1, <4>2 DEF Marks, Times
    <3>2. CASE m.at < clock'
      BY <3>2
    <3> QED BY <3>1, <3>2 DEF Owns
  <2> QED BY <2>1, <2>2 DEF Past
<1>7. Linked'
  <2> SUFFICES ASSUME NEW b \in Agents, Has(b)', Owns(b, Own(b).phone)'
               PROVE  (LET l == lock[Own(b).phone]
                       IN  /\ l.lockedAt = Own(b).asked
                           /\ \A m \in {l.desk, l.endCall, l.live} :
                                m # None /\ m.by # b => m.at < Own(b).claimed)'
    BY DEF Linked
  <2> DEFINE p == Own(b).phone
  <2>1. Has(b) /\ Owns(b, p) /\ p \in Phones /\ Own(b)' = Own(b)
    BY <1>1, <1>2, <1>3
  <2>2. /\ lock[p].lockedAt = Own(b).asked
        /\ \A m \in {lock[p].desk, lock[p].endCall, lock[p].live} :
             m # None /\ m.by # b => m.at < Own(b).claimed
    BY <2>1 DEF IInv, Linked
  <2>3. \/ lock'[p] = lock[p]
        \/ /\ a = b /\ lock'[p].lockedAt = lock[p].lockedAt
           /\ \A m \in {lock'[p].desk, lock'[p].endCall, lock'[p].live} :
                \/ m \in {lock[p].desk, lock[p].endCall, lock[p].live, None}
                \/ m.by = a
    BY <2>1 DEF Owns
  <2> QED BY <2>1, <2>2, <2>3
<1>8. Kept'
  <2> SUFFICES ASSUME NEW b \in Agents, Unsaved(b)'
               PROVE  (Owns(b, Own(b).phone) \/ clock > Own(b).asked + LockTime)'
    BY DEF Kept
  <2>1. Unsaved(b) /\ Own(b)' = Own(b)
    BY <1>1
  <2>2. Owns(b, Own(b).phone) \/ clock > Own(b).asked + LockTime
    BY <2>1 DEF IInv, Kept
  <2> QED BY <1>2, <1>3, <1>4, <2>1, <2>2
<1> QED BY <1>5, <1>6, <1>7, <1>8 DEF IInv

LEMMA MarkStep ==
  ASSUME IInv, TypeOK', NEW a \in Agents,
         ReportLive(a) \/ ReportNone(a) \/ RequestEndCall(a) \/ SaveDeskResponse(a)
  PROVE  IInv'
<1> USE DialerAssumption
<1>1. ASSUME NEW p \in Phones, Owns(a, p) PROVE lock[p] \in Locks
  BY <1>1 DEF Owns, IInv, TypeOK
<1>2. clock \in Int /\ (clock' = clock + 1 => clock < clock')
  BY DEF IInv, TypeOK, Times
<1>3. CASE ReportLive(a)
  <2> DEFINE m == [at |-> clock, by |-> a]
  <2>1. PICK p \in Phones, c \in BOOLEAN :
          /\ Owns(a, p) /\ clock' = clock + 1 /\ UNCHANGED <<calls, req, on>>
          /\ lock' = [lock EXCEPT ![p].live = m, ![p].calling = c]
    BY <1>3 DEF ReportLive, Stamped, IInv, TypeOK, Given
  <2>2. m \in Marks /\ m.by = a /\ m.at = clock
    BY DEF IInv, TypeOK, Marks
  <2> HIDE DEF m
  <2>3. lock[p] \in Locks
    BY <1>1, <2>1
  <2>4. /\ lock'[p].agent = a /\ lock'[p].lockedAt = lock[p].lockedAt
        /\ lock'[p].desk = lock[p].desk /\ lock'[p].endCall = lock[p].endCall
        /\ lock'[p].live = m
    BY <2>1, <2>3 DEF IInv, TypeOK, Locks, Owns
  <2>5. lock'[p] \in Locks /\ \A q \in Phones \ {p} : lock'[q] = lock[q]
    BY <2>1, <2>2, <2>3 DEF IInv, TypeOK, Locks
  <2>6. lock'[p] # None
    BY <2>5
  <2>7. clock < clock' /\ clock <= clock'
    BY <1>2, <2>1
  <2>8. \A k \in {lock'[p].desk, lock'[p].endCall, lock'[p].live} :
          \/ k \in {lock[p].desk, lock[p].endCall, lock[p].live, None}
          \/ k.by = a /\ k.at < clock'
    BY <2>2, <2>4, <2>7
  <2>9. \A q \in Phones :
          \/ lock'[q] = lock[q]
          \/ /\ Owns(a, q) /\ lock'[q] # None
             /\ lock'[q].agent = a /\ lock'[q].lockedAt = lock[q].lockedAt
             /\ \A k \in {lock'[q].desk, lock'[q].endCall, lock'[q].live} :
                  \/ k \in {lock[q].desk, lock[q].endCall, lock[q].live, None}
                  \/ k.by = a /\ k.at < clock'
    BY ZenonT(60), <2>1, <2>4, <2>5, <2>6, <2>8
  <2> QED BY <2>1, <2>7, <2>9, Marked
<1>4. CASE ReportNone(a)
  <2>1. ASSUME NEW l \in Locks
        PROVE  [l EXCEPT !.live = None, !.calling = FALSE] \in Locks
    BY DEF Locks
  <2>5. ASSUME NEW l \in Locks, NEW k \in Locks,
               k = [l EXCEPT !.live = None, !.calling = FALSE]
        PROVE  /\ k.agent = l.agent /\ k.lockedAt = l.lockedAt
               /\ k.desk = l.desk /\ k.endCall = l.endCall /\ k.live = None
    BY <2>5 DEF Locks
  <2>2. \A p \in Phones :
          \/ lock'[p] = lock[p]
          \/ /\ Owns(a, p) /\ lock'[p] = [lock[p] EXCEPT !.live = None, !.calling = FALSE]
    BY <1>4 DEF ReportNone
  <2>3. UNCHANGED <<clock, calls, req, on>>
    BY <1>4 DEF ReportNone
  <2>4. \A p \in Phones :
          \/ lock'[p] = lock[p]
          \/ /\ Owns(a, p) /\ lock'[p] # None
             /\ lock'[p].agent = a /\ lock'[p].lockedAt = lock[p].lockedAt
             /\ \A m \in {lock'[p].desk, lock'[p].endCall, lock'[p].live} :
                  m \in {lock[p].desk, lock[p].endCall, lock[p].live, None}
    <3> SUFFICES ASSUME NEW p \in Phones, lock'[p] # lock[p]
                 PROVE  /\ Owns(a, p) /\ lock'[p] # None
                        /\ lock'[p].agent = a /\ lock'[p].lockedAt = lock[p].lockedAt
                        /\ \A m \in {lock'[p].desk, lock'[p].endCall, lock'[p].live} :
                             m \in {lock[p].desk, lock[p].endCall, lock[p].live, None}
      OBVIOUS
    <3>1. Owns(a, p) /\ lock'[p] = [lock[p] EXCEPT !.live = None, !.calling = FALSE]
      BY <2>2
    <3>2. lock[p] \in Locks
      BY <1>1, <3>1
    <3>3. /\ lock'[p] \in Locks /\ lock'[p].agent = lock[p].agent
          /\ lock'[p].lockedAt = lock[p].lockedAt
          /\ lock'[p].desk = lock[p].desk /\ lock'[p].endCall = lock[p].endCall
          /\ lock'[p].live = None
      <4>1. lock'[p] \in Locks
        BY <2>1, <3>1, <3>2
      <4> QED BY <2>5, <3>1, <3>2, <4>1
    <3> QED BY <3>1, <3>3 DEF Owns
  <2> QED BY <1>2, <2>3, <2>4, Marked
<1>5. CASE RequestEndCall(a) \/ SaveDeskResponse(a)
  <2> DEFINE m == [at |-> clock, by |-> a]
  <2>1. PICK p \in Phones :
          /\ Owns(a, p) /\ clock' = clock + 1 /\ UNCHANGED <<calls, req, on>>
          /\ \/ lock' = [lock EXCEPT ![p].endCall = m]
             \/ lock' = [lock EXCEPT ![p].desk = m,
                                     ![p].endCall = IF lock[p].calling THEN m ELSE @]
    BY <1>5 DEF RequestEndCall, SaveDeskResponse, Stamped, IInv, TypeOK
  <2>2. m \in Marks /\ m.by = a /\ m.at = clock
    BY DEF IInv, TypeOK, Marks
  <2> HIDE DEF m
  <2>3. lock[p] \in Locks
    BY <1>1, <2>1
  <2>4. /\ lock'[p].agent = a /\ lock'[p].lockedAt = lock[p].lockedAt
        /\ lock'[p].desk \in {lock[p].desk, m}
        /\ lock'[p].endCall \in {lock[p].endCall, m}
        /\ lock'[p].live = lock[p].live
    BY <2>1, <2>3 DEF IInv, TypeOK, Locks, Owns
  <2>5. lock'[p] \in Locks /\ \A q \in Phones \ {p} : lock'[q] = lock[q]
    BY <2>1, <2>2, <2>3 DEF IInv, TypeOK, Locks
  <2>6. lock'[p] # None
    BY <2>5
  <2> QED BY <1>2, <2>1, <2>2, <2>4, <2>5, <2>6, Marked
<1> QED BY <1>3, <1>4, <1>5

-----------------------------------------------------------------------------
LEMMA Inductive ==
  /\ Init => IInv
  /\ IInv /\ [Next]_vars => IInv'
<1> USE DialerAssumption
<1>1. Init => IInv
  <2> SUFFICES ASSUME Init PROVE IInv
    OBVIOUS
  <2>1. TypeOK
    BY DEF Init, TypeOK, Times
  <2>2. \A a \in Agents : req[a].pc = "idle" /\ req[a].asked = 0 /\ req[a].claimed = 0
                          /\ on[a] = None
    BY DEF Init
  <2>3. Exclusive /\ Past /\ Seen
    BY <2>2 DEF Init, Exclusive, Past, PastGiven, PastMarks, Seen, At
  <2>4. Linked /\ Kept /\ Apart
    BY <2>2 DEF Linked, Kept, Apart, Has, Unsaved, At
  <2> QED BY <2>1, <2>3, <2>4 DEF IInv
<1>2. IInv /\ [Next]_vars => IInv'
  <2> SUFFICES ASSUME IInv, [Next]_vars PROVE IInv'
    OBVIOUS
  <2>1. TypeOK' /\ clock \in Int
    BY TypeStep DEF IInv, TypeOK, Times
  <2>2. CASE TimePasses
    BY <2>1, <2>2, Idle DEF TimePasses, Stamped
  <2>3. CASE UNCHANGED vars
    BY <2>1, <2>3, Idle DEF vars
  <2>4. ASSUME NEW a \in Agents, GetLive(a) PROVE IInv'
    BY <2>1, <2>4, Idle DEF GetLive
  <2>5. ASSUME NEW a \in Agents,
               Ask(a) \/ FreeOwn(a) \/ Look(a) \/ Beaten(a) \/ Claim(a) \/ Answer(a)
        PROVE  IInv'
    BY <2>1, <2>5, AskStep, FreeOwnStep, LookStep, ClaimStep, AnswerStep
  <2>6. ASSUME NEW a \in Agents,
               \/ SaveResult(a) \/ ReportLive(a) \/ ReportNone(a)
               \/ RequestEndCall(a) \/ SaveDeskResponse(a)
        PROVE  IInv'
    BY <2>1, <2>6, SaveStep, MarkStep
  <2> QED BY <2>2, <2>3, <2>4, <2>5, <2>6 DEF Next
<1> QED BY <1>1, <1>2

LEMMA Invariant == Spec => []IInv
<1>1. Init => IInv
  BY Inductive
<1>2. IInv /\ [Next]_vars => IInv'
  BY Inductive
<1> QED BY <1>1, <1>2, PTL DEF Spec

(* The tables, requests, phones and PCs have their types, and every time   *)
(* on them has been (DialerLock and DialerCall of schema.prisma).          *)
THEOREM TypeCorrect == Spec => []TypeOK
<1>1. IInv => TypeOK
  BY DEF IInv
<1> QED BY <1>1, Invariant, PTL

(* However claims, take-overs, lost answers and late saves interleave, two *)
(* agents call one number only when the first has had it for longer than   *)
(* a lock lasts (claim, dialer.service.ts:537-556).                        *)
THEOREM OneCallerAtATime == Spec => []OneCaller
<1>1. IInv => OneCaller
  <2> SUFFICES ASSUME IInv, NEW a \in Agents, NEW b \in Agents, NEW p \in Phones,
                      a # b, OnCall(a, p), OnCall(b, p)
               PROVE  \/ on[b].claimed > on[a].asked + LockTime
                      \/ on[a].claimed > on[b].asked + LockTime
    BY DEF OneCaller
  <2>1. ~ At(a, "answer") /\ ~ At(b, "answer")
    BY DEF OnCall, IInv, Exclusive, At
  <2>2. Unsaved(a) /\ Unsaved(b) /\ Own(a) = on[a] /\ Own(b) = on[b]
    BY <2>1 DEF Unsaved, Own, OnCall
  <2> QED BY <2>2 DEF IInv, Apart, OnCall
<1> QED BY <1>1, Invariant, PTL

(* Of the marks on a lock, an agent's phone and PC heed only the agent's   *)
(* own and those made while the agent's request was on its way             *)
(* (isDeskResponseCurrent and its like, dialer.rules.ts:426-476).          *)
THEOREM MarksAreTheAgents == Spec => []MarksAreOwn
<1>1. IInv => MarksAreOwn
  <2> SUFFICES ASSUME IInv, NEW a \in Agents, on[a] # None, Owns(a, on[a].phone),
                      NEW m \in {lock[on[a].phone].desk, lock[on[a].phone].endCall,
                                 lock[on[a].phone].live},
                      Current(lock[on[a].phone], m), m.by # a
               PROVE  on[a].asked <= m.at /\ m.at < on[a].claimed
    BY DEF MarksAreOwn
  <2>1. Has(a) /\ Own(a) = on[a]
    BY DEF Has, Own, IInv, Exclusive, At
  <2> QED BY <2>1 DEF IInv, Linked, Current
<1> QED BY <1>1, Invariant, PTL

(* No number is handed out that was marked wrong or called too recently    *)
(* when the request began (blockedPhones, dialer.service.ts:510-532).      *)
THEOREM HandedOutFresh == Spec => FreshOnly
<1>1. IInv /\ [Next]_vars =>
        \A a \in Agents : At(a, "look") /\ req'[a].pc = "answer" =>
          \A c \in calls : c.phone = req[a].phone /\ c.savedAt < req[a].asked =>
            ~ c.wrong /\ c.startedAt < req[a].asked - RecentTime
  <2> SUFFICES ASSUME IInv, [Next]_vars, NEW a \in Agents, At(a, "look"),
                      req'[a].pc = "answer"
               PROVE  \A c \in calls : c.phone = req[a].phone /\ c.savedAt < req[a].asked =>
                        ~ c.wrong /\ c.startedAt < req[a].asked - RecentTime
    OBVIOUS
  <2>1. req[a].seen = Looks
    <3>1. \A b \in Agents : Claim(b) => req[b].seen = Looks /\ (b # a => req'[a] = req[a])
      BY DEF Claim, IInv, TypeOK
    <3>2. \A b \in Agents :
            Ask(b) \/ FreeOwn(b) \/ Look(b) \/ Beaten(b) \/ Answer(b) =>
              req'[b].pc # "answer" \/ req'[b].pc = req[b].pc
      BY DEF Ask, FreeOwn, Look, Beaten, Answer, Goto, IInv, TypeOK, Requests
    <3>3. \A b \in Agents :
            (Ask(b) \/ FreeOwn(b) \/ Look(b) \/ Beaten(b) \/ Answer(b)) /\ b # a =>
              req'[a] = req[a]
      BY DEF Ask, FreeOwn, Look, Beaten, Answer, Goto, IInv, TypeOK
    <3>4. req[a].pc = "look"
      BY DEF At
    <3>5. \E b \in Agents : Claim(b) \/ Ask(b) \/ FreeOwn(b) \/ Look(b) \/ Beaten(b) \/ Answer(b)
      BY <3>4 DEF Next, vars, TimePasses, SaveResult, ReportLive, ReportNone, GetLive,
                  RequestEndCall, SaveDeskResponse
    <3> QED BY <3>1, <3>2, <3>3, <3>4, <3>5
  <2>2. ~ At(a, "idle")
    BY DEF At
  <2> QED BY <2>1, <2>2 DEF IInv, Seen, Looks
<1> QED BY <1>1, Invariant, PTL DEF Spec, FreshOnly
=============================================================================
