-------------------------- MODULE DialerPhone_proof --------------------------
(* Proofs about the phone's side of the dialer.                            *)
EXTENDS DialerPhone, TLAPS

Phases == {"idle", "loading", "dialing", "onCall", "outcome", "saving",
           "paused", "stopped", "empty"}
Names == Numbers \cup {None}
Modes == {"continue", "next", "pause", "stop"}
Pages == [phase : Phases, num : Names, dial : Nat, after : Modes,
          pending : BOOLEAN, ended : Names \X Nat]
Saves == [page : Visits, dial : Nat, mode : Modes]
Services == [running : BOOLEAN, listening : {"no", "yes", "deaf"},
             active : Names, dial : Nat, offhook : BOOLEAN, timer : BOOLEAN,
             last : {"IDLE", "RINGING", "OFFHOOK"}, barred : BOOLEAN]
Lines == [mine : Nat, other : {"no", "ring", "talk"}, others : Nat]
Intents == [kind : {"start", "dial", "stop"}, num : Names, dial : Nat]
Events == [kind : {"started", "ended", "error", "pause", "stop"},
           num : Names, dial : Nat]
Hists == [dials : Nat, placed : SUBSET Nat, saved : SUBSET Nat,
          left : BOOLEAN, away : BOOLEAN, cut : BOOLEAN]

(* Every variable has its type, and an open screen is a page.              *)
TypeOK ==
  /\ visits \in 0..MaxExtras + 1 /\ open \in BOOLEAN
  /\ open => visits # 0
  /\ page \in [Visits -> Pages]
  /\ nexts \in [Visits -> Nat]
  /\ saves \subseteq Saves
  /\ service \in Services
  /\ finish \subseteq Names \X Nat
  /\ line \in Lines
  /\ intents \in Seq(Intents) /\ events \in Seq(Events)
  /\ hist \in Hists

In(s, kind) == \E i \in DOMAIN s : s[i].kind = kind
Current == page[visits]

(* Dials are numbered in the order they are tried, one page each.          *)
Numbered ==
  /\ hist.placed \subseteq 1..hist.dials
  /\ \A v \in Visits : /\ page[v].dial \in 0..hist.dials
                       /\ page[v].phase = "idle" => page[v].dial = 0
                       /\ page[v].phase \in {"dialing", "onCall"} => page[v].dial # 0
  /\ \A v, w \in Visits : v # w /\ page[v].dial = page[w].dial => page[v].dial = 0
  /\ \A i \in DOMAIN intents : intents[i].kind = "dial" => intents[i].dial \in 1..hist.dials

(* What is on its way to the service, and what may come back meanwhile: a  *)
(* start is first, a dial last, neither goes with a stop.                  *)
Queued ==
  /\ \A i \in DOMAIN intents : /\ intents[i].kind = "start" => i = 1
                               /\ intents[i].kind = "dial" => i = Len(intents)
  /\ In(intents, "stop") => ~ In(intents, "start") /\ ~ In(intents, "dial")
  /\ In(intents, "start") => open /\ ~ In(events, "error")
  /\ In(intents, "start") /\ ~ In(intents, "dial") => Current.phase # "dialing"
  /\ open /\ (In(intents, "start") \/ In(intents, "dial")) => ~ In(events, "stop")
  /\ open /\ In(intents, "dial") /\ In(events, "error") => service.barred /\ ~ service.running

(* A save under way is that of a page that shows so, and of its last dial. *)
Saving ==
  ~ hist.cut =>
    /\ \A s \in saves : /\ s.page <= visits /\ page[s.page].phase = "saving"
                        /\ s.dial = page[s.page].dial
    /\ \A s, t \in saves : s.page = t.page => s = t
    /\ \A v \in Visits : page[v].phase \in {"outcome", "saving"} =>
         page[v].dial # 0 /\ page[v].ended[1] = page[v].num

(* No page works on but the one on the screen ...                          *)
Alone == ~ hist.cut /\ ~ hist.left

Single ==
  Alone => \A v \in Visits : page[v].phase \in {"loading", "saving"} => open /\ v = visits

(* ... and a dial under way is its last, and not yet a call.  A screen     *)
(* that has given it up did so because the service cannot place it.        *)
Dialled ==
  Alone => \A i \in DOMAIN intents : intents[i].kind = "dial" =>
    /\ open
    /\ intents[i].num = Current.num /\ intents[i].dial = Current.dial
    /\ Current.dial \notin hist.placed
    /\ \/ Current.phase \in {"dialing", "onCall"}
       \/ Current.phase = "outcome" /\ hist.away
       \/ Current.phase = "paused" /\ service.barred /\ ~ service.running
          /\ ~ In(intents, "start")

(* An error that comes to a page that dials means there is no call.        *)
Refusal ==
  Alone /\ open /\ In(events, "error") /\ Current.phase = "dialing" =>
    Current.dial \notin hist.placed

(* Until a page is left in a call, the call of the screen's page is known  *)
(* to the service, to finishCall or to the events, and to one of them; and *)
(* nothing else is.                                                        *)
Calm == Alone /\ ~ hist.away

Tracked ==
  Calm =>
    /\ service.active # None \/ finish # {} \/ In(events, "ended") =>
         open /\ Waiting(Current) /\ Current.dial \in hist.placed
    /\ service.active # None =>
         /\ service.active = Current.num /\ service.dial = Current.dial
         /\ finish = {} /\ ~ In(events, "ended")
    /\ finish # {} =>
         /\ finish = {<<Current.num, Current.dial>>}
         /\ ~ In(events, "ended") /\ line.mine # Current.dial
    /\ \A i \in DOMAIN events : events[i].kind = "ended" =>
         /\ events[i].num = Current.num /\ events[i].dial = Current.dial
         /\ line.mine # Current.dial
         /\ \A j \in DOMAIN events : events[j].kind = "ended" => j = i

Over ==
  Calm => \A v \in Visits : page[v].phase \in {"outcome", "saving"} =>
    page[v].ended[2] = page[v].dial /\ line.mine # page[v].dial

(* NoCallLost, of every page.                                              *)
Kept ==
  Alone => \A v \in Visits :
    /\ page[v].phase \in {"loading", "paused", "stopped", "empty"}
    /\ page[v].dial \in hist.placed
    => page[v].dial \in hist.saved

IInv == /\ TypeOK /\ Numbered /\ Queued /\ Saving /\ Single /\ Dialled
        /\ Refusal /\ Tracked /\ Over /\ Kept

-----------------------------------------------------------------------------
(* What a queue holds after one more, or one less.                         *)
LEMMA InAppend ==
  ASSUME NEW S, NEW s \in Seq(S), NEW e \in S, NEW kind
  PROVE  In(Append(s, e), kind) <=> In(s, kind) \/ e.kind = kind
<1>1. /\ DOMAIN Append(s, e) = 1..Len(s) + 1 /\ DOMAIN s = 1..Len(s) /\ Len(s) \in Nat
      /\ \A i \in 1..Len(s) : Append(s, e)[i] = s[i]
      /\ Append(s, e)[Len(s) + 1] = e
  OBVIOUS
<1> QED  BY <1>1 DEF In

LEMMA InTail ==
  ASSUME NEW S, NEW s \in Seq(S), s # <<>>, NEW kind
  PROVE  /\ In(Tail(s), kind) => In(s, kind)
         /\ Head(s).kind = kind => In(s, kind)
<1>1. /\ DOMAIN Tail(s) = 1..Len(s) - 1 /\ DOMAIN s = 1..Len(s) /\ Len(s) \in Nat \ {0}
      /\ \A i \in 1..Len(s) - 1 : Tail(s)[i] = s[i + 1]
      /\ Head(s) = s[1]
  OBVIOUS
<1>2. \A i \in 1..Len(s) - 1 : i + 1 \in 1..Len(s)
  BY <1>1
<1> QED  BY <1>1, <1>2 DEF In

LEMMA InNothing == ASSUME NEW kind PROVE ~ In(<<>>, kind)
  BY DEF In

-----------------------------------------------------------------------------
(* Each step keeps the types.                                              *)

LEMMA EventTypes ==
  ASSUME NEW kind \in {"started", "ended", "error", "pause", "stop"},
         NEW num \in Names, NEW dial \in Nat
  PROVE  Event(kind, num, dial) \in Events
  BY DEF Event, Events

LEMMA ErrorType == Error \in Events
  BY DEF Error, Event, Events, Names

LEMMA OffType == Off \in Services /\ [Off EXCEPT !.barred = TRUE] \in Services
  BY DEF Off, Services, Names

LEMMA NewPageType == NewPage \in Pages
  BY DEF NewPage, Pages, Phases, Names, Modes

LEMMA HearTypes ==
  ASSUME NEW s \in Services, NEW st \in {"IDLE", "RINGING", "OFFHOOK"},
         NEW ev \in Seq(Events), finish \subseteq Names \X Nat, OnCallState(s, st, ev)
  PROVE  /\ service' \in Services /\ finish' \subseteq Names \X Nat
         /\ events' \in Seq(Events)
<1>1. s.active \in Names /\ s.dial \in Nat
  BY DEF Services
<1>2. Event("started", s.active, s.dial) \in Events
  BY <1>1, EventTypes
<1>3. events' \in Seq(Events)
  BY <1>2 DEF OnCallState
<1>4. finish' \subseteq Names \X Nat
  BY <1>1 DEF OnCallState
<1>5. service' \in Services
  <2> DEFINE offhook == s.offhook \/ Begins(s, st)
             timer == s.timer /\ ~ Begins(s, st)
             active == IF Ends(s, st) THEN None ELSE s.active
             dial == IF Ends(s, st) THEN 0 ELSE s.dial
  <2>1. service' = [s EXCEPT !.last = st, !.offhook = offhook, !.timer = timer,
                             !.active = active, !.dial = dial]
    BY DEF OnCallState
  <2>2. offhook \in BOOLEAN /\ timer \in BOOLEAN
    OBVIOUS
  <2>3. active \in Names /\ dial \in Nat
    BY <1>1 DEF Names
  <2> HIDE DEF offhook, timer, active, dial
  <2> QED  BY ONLY <2>1, <2>2, <2>3, s \in Services, st \in {"IDLE", "RINGING", "OFFHOOK"}
           DEF Services
<1> QED  BY <1>3, <1>4, <1>5

LEMMA StateOfType ==
  ASSUME NEW l PROVE StateOf(l) \in {"IDLE", "RINGING", "OFFHOOK"}
  BY DEF StateOf

LEMMA StartedType ==
  ASSUME TypeOK, NEW s \in Started(service)
  PROVE  /\ s \in Services
         /\ s.active = service.active /\ s.dial = service.dial
         /\ s.running /\ ~ s.barred
<1>1. PICK ear \in {"yes", "deaf"} :
        s = [Attached(service, ear) EXCEPT !.running = TRUE, !.barred = FALSE]
  BY DEF Started
<1>2. service \in Services /\ StateOf(line) \in {"IDLE", "RINGING", "OFFHOOK"}
  BY StateOfType DEF TypeOK
<1>3. /\ Attached(service, ear) \in Services
      /\ Attached(service, ear).active = service.active
      /\ Attached(service, ear).dial = service.dial
  BY <1>2 DEF Attached, Services
<1> QED  BY <1>1, <1>3 DEF Services

LEMMA IntentTypes ==
  ASSUME NEW kind \in {"start", "dial", "stop"}, NEW num \in Names, NEW dial \in Nat,
         NEW q \in Seq(Intents)
  PROVE  Append(q, [kind |-> kind, num |-> num, dial |-> dial]) \in Seq(Intents)
<1>1. [kind |-> kind, num |-> num, dial |-> dial] \in Intents
  BY DEF Intents
<1> QED  BY <1>1

LEMMA StopServiceTypes ==
  ASSUME TypeOK, StopService PROVE intents' \in Seq(Intents)
  BY IntentTypes DEF TypeOK, StopService, ToService, Names

(* The service, the line and what they report.                             *)
LEMMA NativeTypes ==
  ASSUME TypeOK,
         \/ Poll \/ NoStart \/ FinishCall \/ HandleStart \/ HandleStop
         \/ TapPause \/ TapStop \/ MyCallEnds \/ OtherRings \/ OtherAnswered \/ OtherEnds
  PROVE  TypeOK'
<1> DEFINE Native == /\ service' \in Services /\ finish' \subseteq Names \X Nat
                     /\ line' \in Lines /\ intents' \in Seq(Intents)
                     /\ events' \in Seq(Events)
<1>1. SUFFICES Native /\ UNCHANGED <<pageVars, hist>>
  BY DEF TypeOK, pageVars
<1>2. /\ service \in Services /\ finish \subseteq Names \X Nat /\ line \in Lines
      /\ intents \in Seq(Intents) /\ events \in Seq(Events)
      /\ service.active \in Names /\ service.dial \in Nat
  BY DEF TypeOK, Services
<1>3. CASE Poll
  <2>1. PollState \in {"IDLE", "RINGING", "OFFHOOK"}
    BY DEF PollState
  <2> QED  BY <1>2, <1>3, <2>1, HearTypes DEF Poll
<1>4. CASE NoStart
  <2>1. CASE OnCallState([service EXCEPT !.timer = FALSE], "OFFHOOK", events)
    <3>1. [service EXCEPT !.timer = FALSE] \in Services
      BY <1>2 DEF Services
    <3> QED  BY <1>2, <1>4, <2>1, <3>1, HearTypes DEF NoStart
  <2>2. CASE /\ service' = [service EXCEPT !.timer = FALSE, !.active = None, !.dial = 0]
             /\ events' = Append(events, Event("ended", service.active, service.dial))
             /\ UNCHANGED finish
    <3>1. service' \in Services
      BY <1>2, <2>2 DEF Services, Names
    <3>2. events' \in Seq(Events)
      BY <1>2, <2>2, EventTypes
    <3> QED  BY <1>2, <1>4, <2>2, <3>1, <3>2 DEF NoStart
  <2> QED  BY <1>4, <2>1, <2>2 DEF NoStart
<1>5. CASE FinishCall
  <2>1. PICK f \in finish : /\ finish' = finish \ {f}
                            /\ events' = Append(events, Event("ended", f[1], f[2]))
    BY <1>5 DEF FinishCall
  <2>2. Event("ended", f[1], f[2]) \in Events
    BY <1>2, EventTypes
  <2> QED  BY <1>2, <1>5, <2>1, <2>2 DEF FinishCall
<1>6. CASE HandleStart
  <2>1. service' \in Services
    <3>1. service' \in Started(service) \/ service' = [Off EXCEPT !.barred = TRUE]
      BY <1>6 DEF HandleStart, NotStarted
    <3>2. [Off EXCEPT !.barred = TRUE] \in Services
      BY OffType
    <3> QED  BY <3>1, <3>2, StartedType
  <2>2. events' \in Seq(Events)
    <3>1. events' = events \/ events' = Append(events, Error)
      BY <1>6 DEF HandleStart
    <3>2. events \in Seq(Events)
      BY <1>2
    <3> QED  BY <3>1, <3>2, ErrorType
  <2> QED  BY <1>2, <1>6, <2>1, <2>2 DEF HandleStart
<1>7. CASE HandleStop
  BY <1>2, <1>7, OffType DEF HandleStop
<1>8. CASE TapPause \/ TapStop
  <2>1. Event("pause", None, 0) \in Events /\ Event("stop", None, 0) \in Events
    BY EventTypes DEF Names
  <2>2. Append(events, Event("pause", None, 0)) \in Seq(Events)
        /\ Append(events, Event("stop", None, 0)) \in Seq(Events)
    BY <1>2, <2>1
  <2>3. CASE TapPause
    BY <1>2, <2>2, <2>3 DEF TapPause, nativeVars
  <2>4. CASE TapStop
    BY <1>2, <2>2, <2>4, OffType DEF TapStop
  <2> QED  BY <1>8, <2>3, <2>4
<1>9. ASSUME NEW l \in Lines, LineBecomes(l) PROVE Native /\ UNCHANGED <<pageVars, hist>>
  BY <1>2, <1>9, HearTypes, StateOfType DEF LineBecomes
<1>10. /\ [line EXCEPT !.mine = 0] \in Lines
       /\ \A o \in {"no", "ring", "talk"} : [line EXCEPT !.other = o] \in Lines
       /\ [line EXCEPT !.other = "ring", !.others = @ + 1] \in Lines
  <2>1. line \in Lines
    BY <1>2
  <2>2. [line EXCEPT !.mine = 0] \in Lines
    BY <2>1 DEF Lines
  <2>3. ASSUME NEW o \in {"no", "ring", "talk"} PROVE [line EXCEPT !.other = o] \in Lines
    BY <2>1 DEF Lines
  <2>4. [line EXCEPT !.other = "ring", !.others = @ + 1] \in Lines
    <3>1. line.others + 1 \in Nat
      BY <2>1 DEF Lines
    <3> QED  BY ONLY <2>1, <3>1 DEF Lines
  <2> QED  BY <2>2, <2>3, <2>4
<1>11. CASE MyCallEnds \/ OtherRings \/ OtherAnswered \/ OtherEnds
  <2> HIDE DEF Native
  <2>1. CASE MyCallEnds
    BY <1>9, <1>10, <2>1 DEF MyCallEnds
  <2>2. CASE OtherRings
    BY <1>9, <1>10, <2>2 DEF OtherRings
  <2>3. CASE OtherAnswered
    BY <1>9, <1>10, <2>3 DEF OtherAnswered
  <2>4. CASE OtherEnds
    BY <1>9, <1>10, <2>4 DEF OtherEnds
  <2> QED  BY <1>11, <2>1, <2>2, <2>3, <2>4
<1> QED  BY <1>3, <1>4, <1>5, <1>6, <1>7, <1>8, <1>11

LEMMA HandleDialTypes == ASSUME TypeOK, HandleDial PROVE TypeOK'
<1>1. /\ service \in Services /\ finish \subseteq Names \X Nat /\ line \in Lines
      /\ intents \in Seq(Intents) /\ events \in Seq(Events) /\ hist \in Hists
  BY DEF TypeOK
<1>2. /\ intents' \in Seq(Intents) /\ Head(intents) \in Intents
      /\ Append(events, Error) \in Seq(Events)
  BY <1>1, ErrorType DEF HandleDial
<1>3. SUFFICES /\ service' \in Services /\ finish' \subseteq Names \X Nat
               /\ line' \in Lines /\ events' \in Seq(Events) /\ hist' \in Hists
  BY <1>2 DEF TypeOK, HandleDial, pageVars
<1>4. CASE NotStarted /\ events' = Append(events, Error) /\ UNCHANGED <<finish, line, hist>>
  BY <1>1, <1>2, <1>4, OffType DEF NotStarted
<1>5. ASSUME NEW s \in Started(service), NotDialled(s) \/ Placed(s, Head(intents))
      PROVE  /\ service' \in Services /\ finish' \subseteq Names \X Nat
             /\ line' \in Lines /\ events' \in Seq(Events) /\ hist' \in Hists
  <2>1. s \in Services
    BY StartedType
  <2>2. CASE NotDialled(s)
    <3>1. [s EXCEPT !.active = None, !.dial = 0] \in Services
      BY <2>1 DEF Services, Names
    <3> QED  BY <1>1, <1>2, <2>1, <2>2, <3>1 DEF NotDialled, Refused
  <2>3. CASE Placed(s, Head(intents))
    <3> DEFINE i == Head(intents)
               t == [s EXCEPT !.active = i.num, !.dial = i.dial, !.offhook = FALSE,
                              !.timer = TRUE]
    <3>1. i.num \in Names /\ i.dial \in Nat
      BY <1>2 DEF Intents
    <3>2. t \in Services
      BY <2>1, <3>1 DEF Services
    <3>3. hist' \in Hists /\ line' \in Lines
      BY <1>1, <2>3, <3>1 DEF Placed, Hists, Lines
    <3>4. \/ OnCallState(t, "OFFHOOK", events)
          \/ service' = t /\ UNCHANGED <<finish, events>>
      BY <2>3 DEF Placed
    <3> HIDE DEF t
    <3> QED  BY <1>1, <3>2, <3>3, <3>4, HearTypes
  <2> QED  BY <1>5, <2>2, <2>3
<1> QED  BY <1>4, <1>5 DEF HandleDial

(* The screen's actions.                                                   *)
LEMMA PageFields ==
  ASSUME TypeOK, NEW v \in Visits
  PROVE  /\ page[v] \in Pages
         /\ \A ph \in Phases : [page[v] EXCEPT !.phase = ph] \in Pages
         /\ \A a \in Modes : [page[v] EXCEPT !.after = a] \in Pages
         /\ page[v].num \in Names /\ page[v].dial \in Nat
<1>1. page[v] \in Pages
  BY DEF TypeOK
<1> QED  BY <1>1 DEF Pages

LEMMA OpenPage ==
  ASSUME TypeOK, open PROVE visits \in Visits /\ page[visits] \in Pages
  BY PhoneAssumption DEF TypeOK, Visits

(* What DialItem makes of page v.                                          *)
LEMMA DialItemTypes ==
  ASSUME TypeOK, NEW v \in Visits, NEW p \in Pages, NEW queue \in Seq(Intents),
         DialItem(v, p, queue)
  PROVE  page' \in [Visits -> Pages] /\ intents' \in Seq(Intents) /\ hist' \in Hists
<1> DEFINE d == hist.dials + 1
           q == [p EXCEPT !.dial = d, !.pending = FALSE, !.ended = <<None, 0>>,
                         !.phase = "dialing"]
<1>1. d \in Nat /\ hist \in Hists /\ hist' = [hist EXCEPT !.dials = d] /\ p.num \in Names
  BY DEF TypeOK, DialItem, Hists, Pages
<1>2. q \in Pages /\ [q EXCEPT !.pending = TRUE, !.phase = "paused"] \in Pages
  BY <1>1 DEF Pages, Phases, Names
<1>3. hist' \in Hists
  BY <1>1 DEF Hists
<1>4. Append(queue, [kind |-> "dial", num |-> p.num, dial |-> d]) \in Seq(Intents)
  BY <1>1, IntentTypes
<1> QED  BY <1>2, <1>3, <1>4 DEF DialItem, TypeOK

LEMMA StartIntentType ==
  ASSUME TypeOK PROVE Append(intents, [kind |-> "start", num |-> None, dial |-> 0]) \in Seq(Intents)
  BY IntentTypes DEF TypeOK, Names

LEMMA QueueNextTypes ==
  ASSUME TypeOK, NEW v \in Visits, NEW p \in Pages, QueueNext(v, p)
  PROVE  page' \in [Visits -> Pages] /\ nexts' \in [Visits -> Nat]
<1>1. [p EXCEPT !.phase = "loading"] \in Pages
  BY DEF Pages, Phases
<1> QED  BY <1>1 DEF TypeOK, QueueNext

LEMMA StopSessionTypes ==
  ASSUME TypeOK, NEW v \in Visits, NEW p \in Pages, StopSession(v, p)
  PROVE  page' \in [Visits -> Pages] /\ intents' \in Seq(Intents)
<1>1. [p EXCEPT !.phase = "stopped", !.after = "continue"] \in Pages
  BY DEF Pages, Phases, Modes
<1> QED  BY <1>1, StopServiceTypes DEF TypeOK, StopSession

LEMMA ScreenTypes ==
  ASSUME TypeOK,
         \/ Open \/ Leave \/ Start \/ Resume \/ Pause \/ Stop
         \/ \E v \in Visits : NextAnswered(v)
         \/ \E mode \in {"next", "pause", "stop"} : SaveOutcome(mode)
         \/ SaveAnswered
  PROVE  TypeOK'
<1> USE DEF nativeVars
<1>1. CASE Open
  <2>1. visits' \in 0..MaxExtras + 1 /\ visits + 1 \in Visits /\ visits' # 0
    BY <1>1, PhoneAssumption DEF Open, Within, TypeOK, Lines, Visits
  <2>2. page' \in [Visits -> Pages]
    BY <1>1, <2>1, NewPageType DEF Open, TypeOK
  <2> QED  BY <1>1, <2>1, <2>2 DEF Open, TypeOK
<1>2. CASE Leave
  <2>1. page' \in [Visits -> Pages]
    BY <1>2, OpenPage, NewPageType DEF Leave, TypeOK
  <2>2. intents' \in Seq(Intents)
    BY <1>2, StopServiceTypes DEF Leave, TypeOK
  <2>3. hist' \in Hists
    BY <1>2 DEF Leave, TypeOK, Hists
  <2> QED  BY <1>2, <2>1, <2>2, <2>3 DEF Leave, TypeOK
<1>3. CASE Start
  <2>1. visits \in Visits /\ page[visits] \in Pages
    BY <1>3, OpenPage DEF Start
  <2>2. [page[visits] EXCEPT !.after = "continue"] \in Pages
    BY <2>1 DEF Pages, Modes
  <2>3. page' \in [Visits -> Pages] /\ nexts' \in [Visits -> Nat]
    BY <1>3, <2>1, <2>2, QueueNextTypes DEF Start
  <2>4. intents' \in Seq(Intents)
    BY <1>3, StartIntentType DEF Start, ToService
  <2> QED  BY <1>3, <2>3, <2>4 DEF Start, TypeOK
<1>4. CASE Resume
  <2>1. visits \in Visits /\ page[visits] \in Pages
    BY <1>4, OpenPage DEF Resume
  <2>2. PICK started \in Seq(Intents) :
          \/ DialItem(visits, page[visits], started) /\ UNCHANGED nexts
          \/ intents' = started /\ QueueNext(visits, page[visits]) /\ UNCHANGED hist
    BY <1>4, StartIntentType DEF Resume
  <2>3. page' \in [Visits -> Pages] /\ nexts' \in [Visits -> Nat]
        /\ intents' \in Seq(Intents) /\ hist' \in Hists
    BY <2>1, <2>2, QueueNextTypes, DialItemTypes DEF TypeOK
  <2> QED  BY <1>4, <2>3 DEF Resume, TypeOK
<1>5. CASE Pause
  <2>1. page' \in [Visits -> Pages]
    BY <1>5, OpenPage, PageFields DEF Pause, TypeOK, Modes
  <2> QED  BY <1>5, <2>1 DEF Pause, TypeOK
<1>6. CASE Stop
  <2>1. visits \in Visits /\ page[visits] \in Pages
    BY <1>6, OpenPage DEF Stop
  <2>2. page' \in [Visits -> Pages] /\ intents' \in Seq(Intents)
    <3>1. [page[visits] EXCEPT !.after = "stop"] \in Pages
      BY <2>1, PageFields DEF Modes
    <3> QED  BY <1>6, <2>1, <3>1, StopSessionTypes DEF Stop, TypeOK
  <2> QED  BY <1>6, <2>2 DEF Stop, TypeOK
<1>7. ASSUME NEW v \in Visits, NextAnswered(v) PROVE TypeOK'
  <2>1. nexts' \in [Visits -> Nat]
    BY <1>7 DEF NextAnswered, TypeOK
  <2>2. page' \in [Visits -> Pages] /\ intents' \in Seq(Intents) /\ hist' \in Hists
    <3>1. CASE UNCHANGED <<page, intents, hist>>
      BY <3>1 DEF TypeOK
    <3>2. CASE page' = [page EXCEPT ![v].phase = "paused"] /\ UNCHANGED <<intents, hist>>
      BY <3>2, PageFields DEF TypeOK, Phases
    <3>3. CASE /\ page' = [page EXCEPT ![v].phase = "empty", ![v].num = None]
               /\ StopService /\ UNCHANGED hist
      <4>1. [page[v] EXCEPT !.phase = "empty", !.num = None] \in Pages
        <5>1. page[v] \in Pages
          BY DEF TypeOK
        <5> QED  BY ONLY <5>1 DEF Pages, Phases, Names
      <4>2. page' = [page EXCEPT ![v] = [page[v] EXCEPT !.phase = "empty", !.num = None]]
        BY <3>3 DEF TypeOK
      <4> QED  BY <3>3, <4>1, <4>2, StopServiceTypes DEF TypeOK
    <3>4. ASSUME NEW n \in Numbers, DialItem(v, [page[v] EXCEPT !.num = n], intents)
          PROVE  page' \in [Visits -> Pages] /\ intents' \in Seq(Intents) /\ hist' \in Hists
      <4>1. [page[v] EXCEPT !.num = n] \in Pages
        BY PageFields DEF Pages, Names
      <4> QED  BY <3>4, <4>1, DialItemTypes DEF TypeOK
    <3> QED  BY <1>7, <3>1, <3>2, <3>3, <3>4 DEF NextAnswered
  <2> QED  BY <1>7, <2>1, <2>2 DEF NextAnswered, TypeOK
<1>8. ASSUME NEW mode \in {"next", "pause", "stop"}, SaveOutcome(mode) PROVE TypeOK'
  <2>1. visits \in Visits /\ page[visits] \in Pages /\ page[visits].dial \in Nat
    BY <1>8, OpenPage, PageFields DEF SaveOutcome
  <2>2. page' \in [Visits -> Pages]
    BY <1>8, <2>1, PageFields DEF SaveOutcome, TypeOK, Phases
  <2>3. saves' \subseteq Saves
    BY <1>8, <2>1 DEF SaveOutcome, TypeOK, Saves, Modes
  <2> QED  BY <1>8, <2>2, <2>3 DEF SaveOutcome, TypeOK
<1>9. CASE SaveAnswered
  <2>1. PICK s \in saves, saved \in BOOLEAN, heard \in BOOLEAN :
          LET p == page[s.page]
              q == [p EXCEPT !.after = "continue", !.pending = FALSE]
              then == IF p.after # "continue" THEN p.after ELSE s.mode
          IN  /\ Settled /\ (heard => saved)
              /\ saves' = saves \ {s}
              /\ hist' = [hist EXCEPT !.saved = IF saved THEN @ \cup {s.dial} ELSE @]
              /\ \/ /\ ~ heard
                    /\ page' = [page EXCEPT ![s.page].phase = "outcome"]
                    /\ UNCHANGED <<nexts, intents>>
                 \/ heard /\ then = "stop" /\ StopSession(s.page, q) /\ UNCHANGED nexts
                 \/ /\ heard /\ then = "pause"
                    /\ page' = [page EXCEPT ![s.page] = [q EXCEPT !.phase = "paused"]]
                    /\ UNCHANGED <<nexts, intents>>
                 \/ heard /\ then = "next" /\ QueueNext(s.page, q) /\ UNCHANGED intents
              /\ UNCHANGED <<visits, open, nativeVars, events>>
    BY <1>9 DEF SaveAnswered
  <2> DEFINE q == [page[s.page] EXCEPT !.after = "continue", !.pending = FALSE]
  <2>2. s.page \in Visits /\ s.dial \in Nat
    BY DEF TypeOK, Saves
  <2>3. q \in Pages /\ [q EXCEPT !.phase = "paused"] \in Pages
    <3>1. page[s.page] \in Pages
      BY <2>2 DEF TypeOK
    <3>2. q \in Pages
      BY ONLY <3>1 DEF Pages, Modes
    <3> QED  BY ONLY <3>2 DEF Pages, Phases
  <2>4. hist' \in Hists
    BY <2>1, <2>2 DEF TypeOK, Hists
  <2>5. page' \in [Visits -> Pages] /\ nexts' \in [Visits -> Nat] /\ intents' \in Seq(Intents)
    <3>1. CASE page' = [page EXCEPT ![s.page].phase = "outcome"] /\ UNCHANGED <<nexts, intents>>
      BY <2>2, <3>1, PageFields DEF TypeOK, Phases
    <3>2. CASE StopSession(s.page, q) /\ UNCHANGED nexts
      BY <2>2, <2>3, <3>2, StopSessionTypes DEF TypeOK
    <3>3. CASE page' = [page EXCEPT ![s.page] = [q EXCEPT !.phase = "paused"]]
               /\ UNCHANGED <<nexts, intents>>
      BY <2>2, <2>3, <3>3 DEF TypeOK
    <3>4. CASE QueueNext(s.page, q) /\ UNCHANGED intents
      BY <2>2, <2>3, <3>4, QueueNextTypes DEF TypeOK
    <3> QED  BY <2>1, <3>1, <3>2, <3>3, <3>4
  <2> QED  BY <2>1, <2>4, <2>5 DEF TypeOK
<1> QED  BY <1>1, <1>2, <1>3, <1>4, <1>5, <1>6, <1>7, <1>8, <1>9

LEMMA DeliverTypes == ASSUME TypeOK, Deliver PROVE TypeOK'
<1> DEFINE p == page[visits]
           e == Head(events)
<1>1. /\ visits \in Visits /\ p \in Pages /\ e \in Events /\ events' \in Seq(Events)
      /\ events' = Tail(events)
  BY OpenPage DEF Deliver, TypeOK
<1>2. page' \in [Visits -> Pages] /\ intents' \in Seq(Intents) /\ hist' \in Hists
  <2>1. CASE page' = [page EXCEPT ![visits] = OnStarted(p, e)] /\ UNCHANGED <<intents, hist>>
    <3>1. OnStarted(p, e) \in Pages
      BY <1>1 DEF OnStarted, Pages, Phases
    <3> QED  BY <1>1, <2>1, <3>1 DEF TypeOK
  <2>2. ASSUME NEW q \in OnEnded(p, e), page' = [page EXCEPT ![visits] = q],
               UNCHANGED <<intents, hist>>
        PROVE  page' \in [Visits -> Pages] /\ intents' \in Seq(Intents) /\ hist' \in Hists
    <3>1. e.num \in Names /\ e.dial \in Nat /\ p.after \in Modes /\ "pause" \in Modes
      BY <1>1 DEF Events, Pages, Modes
    <3>2. \A a \in Modes : [p EXCEPT !.phase = "outcome", !.ended = <<e.num, e.dial>>,
                                   !.after = a] \in Pages
      BY <1>1, <3>1 DEF Pages, Phases
    <3>3. q \in Pages
      BY <1>1, <2>2, <3>1, <3>2 DEF OnEnded
    <3> QED  BY <1>1, <2>2, <3>3 DEF TypeOK
  <2>3. CASE page' = [page EXCEPT ![visits] = OnError(p)] /\ UNCHANGED <<intents, hist>>
    <3>1. OnError(p) \in Pages
      BY <1>1 DEF OnError, Pages, Phases
    <3> QED  BY <1>1, <2>3, <3>1 DEF TypeOK
  <2>4. CASE page' = [page EXCEPT ![visits].after = "pause"] /\ UNCHANGED <<intents, hist>>
    BY <1>1, <2>4, PageFields DEF TypeOK, Modes
  <2>5. CASE StopEvent(p)
    <3>1. CASE page' = [page EXCEPT ![visits].after = "stop"] /\ UNCHANGED <<intents, hist>>
      BY <1>1, <3>1, PageFields DEF TypeOK, Modes
    <3>2. CASE /\ StopSession(visits, p)
               /\ hist' = [hist EXCEPT !.cut = @ \/ p.phase = "saving"]
      <4>1. hist' \in Hists
        BY <3>2 DEF TypeOK, Hists
      <4> QED  BY <1>1, <3>2, <4>1, StopSessionTypes
    <3> QED  BY <2>5, <3>1, <3>2 DEF StopEvent
  <2> QED  BY <2>1, <2>2, <2>3, <2>4, <2>5 DEF Deliver
<1> QED  BY <1>1, <1>2 DEF Deliver, TypeOK, nativeVars

LEMMA TypeStep == ASSUME TypeOK, [Next]_vars PROVE TypeOK'
<1>1. CASE UNCHANGED vars
  BY <1>1 DEF TypeOK, vars, pageVars, nativeVars
<1> QED  BY <1>1, NativeTypes, HandleDialTypes, ScreenTypes, DeliverTypes DEF Next

-----------------------------------------------------------------------------
(* Steps of the service and the line.  Those that leave the screen, the    *)
(* intents and the service's readiness alone disturb no more than Tracked. *)
LEMMA Native ==
  ASSUME IInv, TypeOK', Tracked', UNCHANGED <<pageVars, intents, hist>>,
         service'.running = service.running, service'.barred = service.barred,
         line'.mine \in {line.mine, 0},
         \/ UNCHANGED events
         \/ \E e \in Events : /\ e.kind \in {"started", "ended", "pause"}
                              /\ events' = Append(events, e)
  PROVE  IInv'
<1> USE DEF pageVars
<1>1. /\ In(events', "error") <=> In(events, "error")
      /\ In(events', "stop") <=> In(events, "stop")
  <2>1. CASE UNCHANGED events
    BY <2>1
  <2>2. ASSUME NEW e \in Events, e.kind \in {"started", "ended", "pause"},
               events' = Append(events, e)
        PROVE  /\ In(events', "error") <=> In(events, "error")
               /\ In(events', "stop") <=> In(events, "stop")
    BY <2>2, InAppend DEF IInv, TypeOK
  <2> QED  BY <2>1, <2>2
<1>2. Numbered'
  BY DEF IInv, Numbered
<1>3. Queued'
  BY <1>1 DEF IInv, Queued, Current
<1>4. Saving' /\ Single'
  BY DEF IInv, Saving, Single, Alone
<1>5. Dialled' /\ Refusal' /\ Kept'
  BY <1>1 DEF IInv, Dialled, Refusal, Kept, Alone, Current
<1>6. Over'
  BY DEF IInv, Over, Saving, Calm, Alone
<1> QED  BY <1>2, <1>3, <1>4, <1>5, <1>6 DEF IInv

(* The service hears of a state of the line: its call begins or ends.      *)
LEMMA Hears ==
  ASSUME IInv, TypeOK', UNCHANGED <<pageVars, intents, hist>>,
         NEW s \in Services, s.active = service.active, s.dial = service.dial,
         s.running = service.running, s.barred = service.barred,
         NEW st \in {"IDLE", "RINGING", "OFFHOOK"}, OnCallState(s, st, events),
         line'.mine \in {line.mine, 0}, st = "IDLE" => line'.mine = 0
  PROVE  IInv'
<1> DEFINE e == Event("started", s.active, s.dial)
<1>1. /\ service'.running = service.running /\ service'.barred = service.barred
      /\ service'.active = (IF Ends(s, st) THEN None ELSE service.active)
      /\ service'.dial = (IF Ends(s, st) THEN 0 ELSE service.dial)
      /\ finish' = (IF Ends(s, st) THEN finish \cup {<<service.active, service.dial>>} ELSE finish)
      /\ events' = (IF Begins(s, st) THEN Append(events, e) ELSE events)
  BY DEF OnCallState, Services
<1>2. e \in Events /\ e.kind = "started"
  BY EventTypes DEF Services, Event
<1>3. In(events', "ended") <=> In(events, "ended")
  BY <1>1, <1>2, InAppend DEF IInv, TypeOK
<1>4. ASSUME NEW i \in DOMAIN events', events'[i].kind = "ended"
      PROVE  i \in DOMAIN events /\ events'[i] = events[i]
  BY <1>1, <1>2, <1>4 DEF IInv, TypeOK
<1>5. Tracked'
  <2> SUFFICES ASSUME Calm PROVE Tracked'
    BY DEF Tracked, Calm, Alone
  <2>1. Tracked
    BY DEF IInv
  <2>2. CASE Ends(s, st)
    <3>1. /\ service.active # None /\ line'.mine = 0 /\ finish = {} /\ ~ In(events, "ended")
          /\ open /\ Waiting(Current) /\ Current.dial \in hist.placed
          /\ service.active = Current.num /\ service.dial = Current.dial
      BY <2>1, <2>2 DEF Tracked, Ends
    <3>2. Current.dial # 0
      BY <3>1 DEF IInv, TypeOK, Numbered, Hists
    <3>3. \A i \in DOMAIN events' : events'[i].kind # "ended"
      BY <1>3, <3>1 DEF In
    <3> QED  BY <1>1, <1>3, <2>2, <3>1, <3>2, <3>3 DEF Tracked, Current, pageVars
  <2>3. CASE ~ Ends(s, st)
    <3>1. service'.active = service.active /\ service'.dial = service.dial /\ finish' = finish
      BY <1>1, <2>3
    <3>2. /\ service.active # None \/ finish # {} \/ In(events, "ended") =>
               open /\ Waiting(Current) /\ Current.dial \in hist.placed /\ Current.dial # 0
          /\ service.active # None =>
               /\ service.active = Current.num /\ service.dial = Current.dial
               /\ finish = {} /\ ~ In(events, "ended")
          /\ finish # {} =>
               /\ finish = {<<Current.num, Current.dial>>}
               /\ ~ In(events, "ended") /\ line'.mine # Current.dial
      BY <2>1 DEF Tracked, IInv, TypeOK, Numbered, Hists
    <3>3. \A i \in DOMAIN events : events[i].kind = "ended" =>
            /\ events[i].num = Current.num /\ events[i].dial = Current.dial
            /\ line'.mine # Current.dial
            /\ \A j \in DOMAIN events : events[j].kind = "ended" => j = i
      <4>1. ASSUME NEW i \in DOMAIN events, events[i].kind = "ended"
            PROVE  Current.dial # 0
        BY <3>2, <4>1 DEF In
      <4> QED  BY <2>1, <4>1 DEF Tracked
    <3>4. Current' = Current
      BY DEF Current, pageVars
    <3> QED  BY <1>3, <1>4, <3>1, <3>2, <3>3, <3>4 DEF Tracked, pageVars
  <2> QED  BY <2>2, <2>3
<1> QED  BY <1>1, <1>2, <1>5, Native

LEMMA HearsIInv ==
  ASSUME IInv, TypeOK',
         Poll \/ MyCallEnds \/ OtherRings \/ OtherAnswered \/ OtherEnds
  PROVE  IInv'
<1>0. service \in Services /\ line \in Lines
  BY DEF IInv, TypeOK
<1>1. CASE Poll
  <2>1. PollState \in {"IDLE", "RINGING", "OFFHOOK"}
        /\ (PollState = "IDLE" => line.mine = 0) /\ UNCHANGED line
    BY <1>1 DEF PollState, InCall, Poll
  <2> QED  BY <1>0, <1>1, <2>1, Hears DEF Poll
<1>2. ASSUME NEW l \in Lines, l.mine \in {line.mine, 0}, LineBecomes(l) PROVE IInv'
  <2>1. CASE OnCallState(service, StateOf(l), events)
    <3>1. StateOf(l) \in {"IDLE", "RINGING", "OFFHOOK"} /\ (StateOf(l) = "IDLE" => l.mine = 0)
      BY DEF StateOf
    <3> QED  BY <1>0, <1>2, <2>1, <3>1, Hears DEF LineBecomes
  <2>2. CASE UNCHANGED <<service, finish, events>>
    <3>1. line' = l /\ UNCHANGED <<pageVars, intents, hist>>
      BY <1>2 DEF LineBecomes
    <3>2. Tracked'
      <4>1. Current' = Current /\ (In(events, "ended")' <=> In(events, "ended"))
        BY <2>2, <3>1 DEF Current, pageVars
      <4>2. ASSUME Calm, finish # {} \/ In(events, "ended")
            PROVE  Current.dial # 0
        BY <4>2 DEF IInv, Tracked, TypeOK, Numbered, Hists
      <4>3. \A i \in DOMAIN events : events[i].kind = "ended" => In(events, "ended")
        BY DEF In
      <4> QED  BY <1>2, <2>2, <3>1, <4>1, <4>2, <4>3 DEF IInv, Tracked, Calm, Alone, pageVars
    <3> QED  BY <1>2, <2>2, <3>1, <3>2, Native
  <2> QED  BY <1>2, <2>1, <2>2 DEF LineBecomes
<1>3. CASE MyCallEnds
  <2>1. [line EXCEPT !.mine = 0] \in Lines /\ [line EXCEPT !.mine = 0].mine = 0
    BY <1>0 DEF Lines
  <2> QED  BY <1>2, <1>3, <2>1 DEF MyCallEnds
<1>4. CASE OtherRings
  <2>1. line.others + 1 \in Nat
    BY <1>0 DEF Lines
  <2>2. /\ [line EXCEPT !.other = "ring", !.others = @ + 1] \in Lines
        /\ [line EXCEPT !.other = "ring", !.others = @ + 1].mine = line.mine
    BY ONLY <1>0, <2>1 DEF Lines
  <2> QED  BY <1>2, <1>4, <2>2 DEF OtherRings
<1>5. \A o \in {"no", "ring", "talk"} :
        [line EXCEPT !.other = o] \in Lines /\ [line EXCEPT !.other = o].mine = line.mine
  BY ONLY <1>0 DEF Lines
<1>6. CASE OtherAnswered
  BY <1>2, <1>5, <1>6 DEF OtherAnswered
<1>7. CASE OtherEnds
  BY <1>2, <1>5, <1>7 DEF OtherEnds
<1> QED  BY <1>1, <1>3, <1>4, <1>6, <1>7

(* A call's end is reported: the call was with the service or finishCall.  *)
LEMMA Reports ==
  ASSUME IInv, TypeOK', UNCHANGED <<pageVars, intents, hist, line>>,
         service'.running = service.running, service'.barred = service.barred,
         NEW num \in Names, NEW dial \in Nat,
         events' = Append(events, Event("ended", num, dial)),
         Calm => /\ \/ service.active # None /\ service.active = num /\ service.dial = dial
                    \/ <<num, dial>> \in finish
                 /\ line.mine # dial
                 /\ service'.active = None /\ finish' = {}
  PROVE  IInv'
<1> DEFINE e == Event("ended", num, dial)
<1>1. e \in Events /\ e.kind = "ended" /\ e.num = num /\ e.dial = dial
  BY EventTypes DEF Event
<1>2. Tracked'
  <2> SUFFICES ASSUME Calm PROVE Tracked'
    BY DEF Tracked, Calm, Alone
  <2>1. /\ num = Current.num /\ dial = Current.dial /\ line.mine # Current.dial
        /\ ~ In(events, "ended")
        /\ open /\ Waiting(Current) /\ Current.dial \in hist.placed
    BY DEF IInv, Tracked
  <2>2. Current' = Current /\ service'.active = None /\ finish' = {}
    BY DEF Current, pageVars
  <2>3. /\ DOMAIN events' = 1..Len(events) + 1 /\ DOMAIN events = 1..Len(events)
        /\ Len(events) \in Nat /\ events'[Len(events) + 1] = e
        /\ \A i \in 1..Len(events) : events'[i] = events[i]
    BY <1>1 DEF IInv, TypeOK
  <2>4. ASSUME NEW i \in DOMAIN events', events'[i].kind = "ended"
        PROVE  i = Len(events) + 1
    BY <2>1, <2>3, <2>4 DEF In
  <2> HIDE DEF e
  <2> QED  BY <1>1, <2>1, <2>2, <2>3, <2>4 DEF Tracked, pageVars
<1> QED  BY <1>1, <1>2, Native

LEMMA EndsIInv == ASSUME IInv, TypeOK', NoStart \/ FinishCall PROVE IInv'
<1>0. /\ service \in Services /\ finish \subseteq Names \X Nat
      /\ service.active \in Names /\ service.dial \in Nat
  BY DEF IInv, TypeOK, Services
<1>1. CASE NoStart
  <2>1. CASE OnCallState([service EXCEPT !.timer = FALSE], "OFFHOOK", events)
    <3>1. [service EXCEPT !.timer = FALSE] \in Services
          /\ [service EXCEPT !.timer = FALSE].active = service.active
          /\ [service EXCEPT !.timer = FALSE].dial = service.dial
          /\ [service EXCEPT !.timer = FALSE].running = service.running
          /\ [service EXCEPT !.timer = FALSE].barred = service.barred
      BY ONLY <1>0 DEF Services
    <3>2. UNCHANGED <<pageVars, line, intents, hist>>
      BY <1>1 DEF NoStart
    <3> QED  BY <2>1, <3>1, <3>2, Hears
  <2>2. CASE /\ ~ MissedStart
             /\ service' = [service EXCEPT !.timer = FALSE, !.active = None, !.dial = 0]
             /\ events' = Append(events, Event("ended", service.active, service.dial))
             /\ UNCHANGED finish
    <3>1. /\ service.active # None /\ line.mine = 0
          /\ UNCHANGED <<pageVars, line, intents, hist>>
      BY <1>1, <2>2 DEF NoStart, MissedStart, InCall
    <3>2. /\ service'.running = service.running /\ service'.barred = service.barred
          /\ service'.active = None
      BY <1>0, <2>2 DEF Services
    <3>3. Calm => finish = {} /\ service.dial # 0
      BY <3>1 DEF IInv, Tracked, TypeOK, Numbered, Hists
    <3> QED  BY <1>0, <2>2, <3>1, <3>2, <3>3, Reports
  <2> QED  BY <1>1, <2>1, <2>2 DEF NoStart
<1>2. CASE FinishCall
  <2>1. PICK f \in finish : /\ finish' = finish \ {f}
                            /\ events' = Append(events, Event("ended", f[1], f[2]))
    BY <1>2 DEF FinishCall
  <2>2. UNCHANGED <<pageVars, service, line, intents, hist>>
    BY <1>2 DEF FinishCall
  <2>3. f[1] \in Names /\ f[2] \in Nat /\ f = <<f[1], f[2]>>
    BY <1>0
  <2>4. Calm => /\ finish = {<<Current.num, Current.dial>>} /\ service.active = None
                /\ line.mine # Current.dial
    BY <2>1 DEF IInv, Tracked
  <2>5. Calm => finish' = {} /\ f[2] = Current.dial
    BY <2>1, <2>3, <2>4
  <2> QED  BY <2>1, <2>2, <2>3, <2>4, <2>5, Reports
<1> QED  BY <1>1, <1>2

(* The service forgets its call.                                           *)
LEMMA ForgottenTracked ==
  ASSUME IInv, UNCHANGED <<pageVars, line, finish, hist>>, service'.active = None,
         \/ UNCHANGED events
         \/ \E e \in Events : e.kind # "ended" /\ events' = Append(events, e)
  PROVE  Tracked'
<1>1. events \in Seq(Events) /\ Current' = Current
  BY DEF IInv, TypeOK, Current, pageVars
<1>2. In(events', "ended") <=> In(events, "ended")
  <2>1. ASSUME NEW e \in Events, e.kind # "ended", events' = Append(events, e)
        PROVE  In(events', "ended") <=> In(events, "ended")
    BY <1>1, <2>1, InAppend
  <2> QED  BY <2>1
<1>3. \A i \in DOMAIN events' : events'[i].kind = "ended" =>
        i \in DOMAIN events /\ events'[i] = events[i]
  BY <1>1
<1>4. ASSUME Calm'
      PROVE  /\ finish # {} \/ In(events, "ended") =>
                  open /\ Waiting(Current) /\ Current.dial \in hist.placed
             /\ finish # {} => /\ finish = {<<Current.num, Current.dial>>}
                              /\ ~ In(events, "ended") /\ line.mine # Current.dial
             /\ \A i \in DOMAIN events : events[i].kind = "ended" =>
                  /\ events[i].num = Current.num /\ events[i].dial = Current.dial
                  /\ line.mine # Current.dial
                  /\ \A j \in DOMAIN events : events[j].kind = "ended" => j = i
  BY <1>4 DEF IInv, Tracked, Calm, Alone
<1> QED  BY <1>1, <1>2, <1>3, <1>4 DEF Tracked, pageVars

LEMMA TapsIInv == ASSUME IInv, TypeOK', TapPause \/ TapStop PROVE IInv'
<1>0. /\ Event("pause", None, 0) \in Events /\ Event("stop", None, 0) \in Events
      /\ Event("pause", None, 0).kind = "pause" /\ Event("stop", None, 0).kind = "stop"
  BY EventTypes DEF Names, Event
<1>1. CASE TapPause
  <2>1. Tracked'
    <3>1. events \in Seq(Events) /\ Current' = Current
          /\ UNCHANGED <<pageVars, nativeVars, intents, hist>>
      BY <1>1 DEF IInv, TypeOK, Current, pageVars, TapPause
    <3>2. In(events', "ended") <=> In(events, "ended")
      BY <1>0, <1>1, <3>1, InAppend DEF TapPause
    <3>3. \A i \in DOMAIN events' : events'[i].kind = "ended" =>
            i \in DOMAIN events /\ events'[i] = events[i]
      BY <1>0, <1>1, <3>1 DEF TapPause
    <3> QED  BY <3>1, <3>2, <3>3 DEF IInv, Tracked, Calm, Alone, pageVars, nativeVars
  <2> QED  BY <1>0, <1>1, <2>1, Native DEF TapPause, nativeVars
<1>2. CASE TapStop
  <2>0. /\ events \in Seq(Events) /\ events' = Append(events, Event("stop", None, 0))
        /\ service' = Off /\ intents = <<>>
        /\ UNCHANGED <<pageVars, finish, line, intents, hist>>
    BY <1>2 DEF TapStop, Settled, IInv, TypeOK
  <2>1. Tracked'
    BY <1>0, <2>0, ForgottenTracked DEF Off
  <2>2. Queued' /\ Dialled'
    BY <2>0, InNothing DEF Queued, Dialled
  <2>3. Refusal'
    BY <1>0, <2>0, InAppend DEF IInv, Refusal, Alone, Current, pageVars
  <2>4. Numbered' /\ Saving' /\ Single' /\ Over' /\ Kept'
    BY <2>0 DEF IInv, Numbered, Saving, Single, Over, Kept, Alone, Calm, pageVars
  <2> QED  BY <2>1, <2>2, <2>3, <2>4 DEF IInv
<1> QED  BY <1>1, <1>2

(* What is left of the intents once the first is dealt with.               *)
LEMMA OneIntentLess ==
  ASSUME IInv, intents # <<>>, NEW q, q = Tail(intents)
  PROVE  /\ 1 \in DOMAIN intents /\ Head(intents) = intents[1]
         /\ \A i \in DOMAIN q : i + 1 \in DOMAIN intents /\ q[i] = intents[i + 1]
         /\ \A i \in DOMAIN q : /\ q[i].kind # "start"
                                /\ q[i].kind = "dial" => i = Len(q)
         /\ ~ In(q, "start") /\ (In(q, "dial") => In(intents, "dial"))
         /\ In(q, "stop") => In(intents, "stop")
         /\ Head(intents).kind = "start" => In(intents, "start")
         /\ Head(intents).kind = "start" /\ In(intents, "dial") => In(q, "dial")
         /\ Head(intents).kind = "dial" => q = <<>> /\ In(intents, "dial")
         /\ Head(intents).kind = "stop" => ~ In(intents, "start") /\ ~ In(intents, "dial")
<1>1. /\ DOMAIN q = 1..Len(intents) - 1 /\ DOMAIN intents = 1..Len(intents)
      /\ Len(intents) \in Nat \ {0} /\ Len(q) = Len(intents) - 1
      /\ \A i \in 1..Len(intents) - 1 : q[i] = intents[i + 1]
      /\ Head(intents) = intents[1]
  BY DEF IInv, TypeOK
<1>2. /\ \A i \in DOMAIN intents : /\ intents[i].kind = "start" => i = 1
                                   /\ intents[i].kind = "dial" => i = Len(intents)
      /\ In(intents, "stop") => ~ In(intents, "start") /\ ~ In(intents, "dial")
  BY DEF IInv, Queued
<1>3. \A i \in DOMAIN q : /\ i + 1 \in DOMAIN intents /\ q[i] = intents[i + 1]
                          /\ q[i].kind # "start"
                          /\ q[i].kind = "dial" => i = Len(q)
  BY <1>1, <1>2
<1>4. /\ ~ In(q, "start") /\ (In(q, "dial") => In(intents, "dial"))
      /\ In(q, "stop") => In(intents, "stop")
  BY <1>3 DEF In
<1>5. \A kind : Head(intents).kind = kind => In(intents, kind)
  BY <1>1 DEF In
<1>6. ASSUME Head(intents).kind = "start", In(intents, "dial") PROVE In(q, "dial")
  <2>1. PICK i \in DOMAIN intents : intents[i].kind = "dial"
    BY <1>6 DEF In
  <2>2. i - 1 \in DOMAIN q /\ q[i - 1] = intents[i]
    BY <1>1, <1>6, <2>1
  <2> QED  BY <2>1, <2>2 DEF In
<1>7. ASSUME Head(intents).kind = "dial" PROVE q = <<>>
  <2>1. Len(intents) = 1
    BY <1>1, <1>2, <1>7
  <2> QED  BY <1>1, <2>1 DEF IInv, TypeOK
<1> QED  BY <1>1, <1>2, <1>3, <1>4, <1>5, <1>6, <1>7

LEMMA HandleStartIInv == ASSUME IInv, TypeOK', HandleStart PROVE IInv'
<1>1. /\ intents # <<>> /\ Head(intents).kind = "start" /\ intents' = Tail(intents)
      /\ UNCHANGED <<pageVars, finish, line, hist>>
      /\ \/ service' \in Started(service) /\ UNCHANGED events
         \/ service' = [Off EXCEPT !.barred = TRUE] /\ events' = Append(events, Error)
  BY DEF HandleStart, NotStarted
<1>2. /\ \A i \in DOMAIN intents' : i + 1 \in DOMAIN intents /\ intents'[i] = intents[i + 1]
      /\ \A i \in DOMAIN intents' : /\ intents'[i].kind # "start"
                                    /\ intents'[i].kind = "dial" => i = Len(intents')
      /\ ~ In(intents', "start") /\ In(intents, "start")
      /\ In(intents', "dial") <=> In(intents, "dial")
      /\ ~ In(intents', "stop") /\ Current' = Current
  <2>1. In(intents, "stop") => ~ In(intents, "start")
    BY DEF IInv, Queued
  <2>2. /\ \A i \in DOMAIN intents' : i + 1 \in DOMAIN intents /\ intents'[i] = intents[i + 1]
        /\ \A i \in DOMAIN intents' : /\ intents'[i].kind # "start"
                                      /\ intents'[i].kind = "dial" => i = Len(intents')
    BY <1>1, OneIntentLess
  <2>3. /\ ~ In(intents', "start") /\ (In(intents', "dial") => In(intents, "dial"))
        /\ In(intents', "stop") => In(intents, "stop")
        /\ In(intents, "start") /\ (In(intents, "dial") => In(intents', "dial"))
    BY <1>1, OneIntentLess
  <2>4. Current' = Current
    BY <1>1 DEF Current, pageVars
  <2> QED  BY <2>1, <2>2, <2>3, <2>4
<1>3. Error \in Events /\ Error.kind = "error" /\ events \in Seq(Events)
  BY ErrorType DEF Error, Event, IInv, TypeOK
<1>4. /\ In(events', "stop") <=> In(events, "stop")
      /\ In(events', "error") => /\ service' = [Off EXCEPT !.barred = TRUE]
                                 /\ ~ service'.running /\ service'.barred
  <2>1. ~ In(events, "error")
    BY <1>2 DEF IInv, Queued
  <2>2. CASE UNCHANGED events
    BY <2>1, <2>2
  <2>3. CASE service' = [Off EXCEPT !.barred = TRUE] /\ events' = Append(events, Error)
    <3>1. ~ service'.running /\ service'.barred
      BY <2>3 DEF Off
    <3> QED  BY <1>3, <2>3, <3>1, InAppend
  <2> QED  BY <1>1, <2>2, <2>3
<1>5. Numbered' /\ Saving' /\ Single' /\ Over' /\ Kept'
  <2>1. Numbered'
    BY <1>1, <1>2 DEF IInv, Numbered, pageVars
  <2>2. Saving' /\ Single'
    BY <1>1 DEF IInv, Saving, Single, Alone, pageVars
  <2>3. Over' /\ Kept'
    BY <1>1 DEF IInv, Over, Kept, Alone, Calm, pageVars
  <2> QED  BY <2>1, <2>2, <2>3
<1>6. Queued'
  BY <1>1, <1>2, <1>4 DEF IInv, Queued, pageVars
<1>7. Dialled'
  BY <1>1, <1>2 DEF IInv, Dialled, Alone, pageVars
<1>8. Refusal'
  <2> SUFFICES ASSUME Alone, open, Current.phase = "dialing"
               PROVE  Current.dial \notin hist.placed
    BY <1>1, <1>2 DEF Refusal, Alone, pageVars
  <2>1. In(intents, "dial")
    BY <1>2 DEF IInv, Queued
  <2> QED  BY <2>1 DEF IInv, Dialled, In
<1>9. Tracked'
  <2>1. CASE service' \in Started(service) /\ UNCHANGED events
    <3>1. service'.active = service.active /\ service'.dial = service.dial
      BY <2>1, StartedType DEF IInv
    <3> QED  BY <1>1, <1>2, <2>1, <3>1 DEF IInv, Tracked, Calm, Alone, pageVars
  <2>2. CASE service' = [Off EXCEPT !.barred = TRUE] /\ events' = Append(events, Error)
    BY <1>1, <1>3, <2>2, ForgottenTracked DEF Off
  <2> QED  BY <1>1, <2>1, <2>2
<1> QED  BY <1>5, <1>6, <1>7, <1>8, <1>9 DEF IInv

LEMMA HandleStopIInv == ASSUME IInv, TypeOK', HandleStop PROVE IInv'
<1>1. /\ intents # <<>> /\ Head(intents).kind = "stop" /\ intents' = Tail(intents)
      /\ service' = Off /\ UNCHANGED <<pageVars, finish, line, events, hist>>
  BY DEF HandleStop
<1>2. /\ ~ In(intents', "start") /\ ~ In(intents', "dial")
  BY <1>1, OneIntentLess
<1>3. \A i \in DOMAIN intents' : intents'[i].kind # "start" /\ intents'[i].kind # "dial"
  BY <1>2 DEF In
<1>4. Tracked'
  BY <1>1, ForgottenTracked DEF Off
<1>5. Queued' /\ Dialled'
  BY <1>2, <1>3 DEF Queued, Dialled
<1>6. Numbered' /\ Refusal'
  BY <1>1, <1>3 DEF IInv, Numbered, Refusal, Alone, Current, pageVars
<1>7. Saving' /\ Single' /\ Over' /\ Kept'
  BY <1>1 DEF IInv, Saving, Single, Over, Kept, Alone, Calm, pageVars
<1> QED  BY <1>4, <1>5, <1>6, <1>7 DEF IInv

(* A dial is dealt with: the call is placed, or the page is told of it.    *)
LEMMA HandleDialIInv == ASSUME IInv, TypeOK', HandleDial PROVE IInv'
<1> DEFINE i == Head(intents)
<1>1. /\ intents # <<>> /\ i.kind = "dial" /\ intents' = Tail(intents)
      /\ UNCHANGED pageVars
  BY DEF HandleDial
<1>2. intents' = <<>> /\ In(intents, "dial") /\ 1 \in DOMAIN intents /\ i = intents[1]
  BY <1>1, OneIntentLess
<1>3. i.num \in Names /\ i.dial \in 1..hist.dials /\ hist.dials \in Nat
  <2>1. i \in Intents /\ hist.dials \in Nat
    BY <1>2 DEF IInv, TypeOK, Hists
  <2> QED  BY <1>1, <1>2, <2>1 DEF IInv, Numbered, Intents
<1>4. Alone => /\ open /\ i.num = Current.num /\ i.dial = Current.dial
               /\ Current.dial \notin hist.placed
               /\ \/ Current.phase \in {"dialing", "onCall"}
                  \/ Current.phase = "outcome" /\ hist.away
                  \/ Current.phase = "paused" /\ service.barred /\ ~ service.running
  BY <1>1, <1>2 DEF IInv, Dialled
<1>5. Calm => service.active = None /\ finish = {} /\ ~ In(events, "ended")
  BY <1>4 DEF IInv, Tracked, Calm
<1>6. Error \in Events /\ Error.kind = "error" /\ events \in Seq(Events) /\ Current' = Current
      /\ service \in Services
  BY <1>1, ErrorType DEF Error, Event, IInv, TypeOK, Current, pageVars
<1>7. Queued' /\ Dialled'
  BY <1>2, InNothing DEF Queued, Dialled
<1>8. ASSUME UNCHANGED <<finish, line, hist>>, events' = Append(events, Error),
             Calm => service'.active = None
      PROVE  IInv'
  <2>1. Numbered' /\ Saving' /\ Single' /\ Over' /\ Kept'
    <3>1. Numbered'
      BY <1>1, <1>2, <1>8 DEF IInv, Numbered, pageVars
    <3> QED  BY <1>1, <1>8, <3>1 DEF IInv, Saving, Single, Over, Kept, Alone, Calm, pageVars
  <2>2. Refusal'
    BY <1>1, <1>4, <1>6, <1>8 DEF Refusal, Alone, pageVars
  <2>3. Tracked'
    <3>1. In(events', "ended") <=> In(events, "ended")
      BY <1>6, <1>8, InAppend
    <3>2. Calm' <=> Calm
      BY <1>8 DEF Calm, Alone
    <3>3. Calm => service'.active = None /\ finish' = {} /\ ~ In(events', "ended")
      BY <1>5, <1>8, <3>1
    <3> QED  BY <3>2, <3>3 DEF Tracked, In
  <2> QED  BY <1>7, <2>1, <2>2, <2>3 DEF IInv
<1>9. CASE NotStarted /\ events' = Append(events, Error) /\ UNCHANGED <<finish, line, hist>>
  BY <1>8, <1>9 DEF NotStarted, Off
<1>10. ASSUME NEW s \in Started(service), NotDialled(s) PROVE IInv'
  <2>1. s \in Services /\ s.active = service.active
    BY <1>10, StartedType DEF IInv
  <2>2. Calm => service'.active = None
    BY <1>5, <1>10, <2>1 DEF NotDialled, Services
  <2> QED  BY <1>8, <1>10, <2>2 DEF NotDialled, Refused
<1>11. ASSUME NEW s \in Started(service), ~ service.barred, Placed(s, i) PROVE IInv'
  <2> DEFINE t == [s EXCEPT !.active = i.num, !.dial = i.dial, !.offhook = FALSE,
                           !.timer = TRUE]
  <2>1. /\ hist' = [hist EXCEPT !.placed = @ \cup {i.dial}]
        /\ line.mine = 0 /\ line'.mine \in {0, i.dial}
        /\ \/ OnCallState(t, "OFFHOOK", events)
           \/ service' = t /\ UNCHANGED <<finish, events>>
    BY <1>11 DEF Placed, InCall, IInv, TypeOK, Lines
  <2>2. s \in Services /\ t \in Services /\ t.active = i.num /\ t.dial = i.dial
    <3>1. s \in Services /\ i.num \in Names /\ i.dial \in Nat
      BY <1>3, StartedType DEF IInv
    <3> HIDE DEF i
    <3> QED  BY ONLY <3>1 DEF Services, t
  <2> HIDE DEF t
  <2>3. /\ service'.active = i.num /\ service'.dial = i.dial /\ finish' = finish
        /\ \/ events' = events
           \/ \E e \in Events : e.kind = "started" /\ events' = Append(events, e)
    <3>1. CASE OnCallState(t, "OFFHOOK", events)
      <4>1. ~ Ends(t, "OFFHOOK")
        BY DEF Ends
      <4>2. /\ service'.active = t.active /\ service'.dial = t.dial /\ finish' = finish
            /\ \/ events' = events
               \/ events' = Append(events, Event("started", t.active, t.dial))
        BY <2>2, <3>1, <4>1 DEF OnCallState, Services
      <4>3. Event("started", t.active, t.dial) \in Events
            /\ Event("started", t.active, t.dial).kind = "started"
        BY <1>3, <2>2, EventTypes DEF Event
      <4> QED  BY <2>2, <4>2, <4>3
    <3> QED  BY <2>1, <2>2, <3>1
  <2>4. \A kind \in {"ended", "error"} : In(events', kind) <=> In(events, kind)
    <3>1. ASSUME NEW e \in Events, e.kind = "started", events' = Append(events, e)
          PROVE  \A kind \in {"ended", "error"} : In(events', kind) <=> In(events, kind)
      BY <1>6, <3>1, InAppend
    <3> QED  BY <2>3, <3>1
  <2>5. /\ hist'.placed = hist.placed \cup {i.dial} /\ hist'.dials = hist.dials
        /\ hist'.saved = hist.saved /\ hist'.left = hist.left /\ hist'.away = hist.away
        /\ hist'.cut = hist.cut
    BY <2>1 DEF IInv, TypeOK, Hists
  <2>6. Numbered'
    BY <1>1, <1>2, <1>3, <2>5 DEF IInv, Numbered, pageVars
  <2>7. Saving' /\ Single'
    BY <1>1, <2>5 DEF IInv, Saving, Single, Alone, pageVars
  <2>8. Alone => \A v \in Visits : page[v].dial = i.dial => v = visits
    <3>1. visits \in Visits \/ ~ open
      BY OpenPage DEF IInv
    <3> QED  BY <1>3, <1>4, <3>1 DEF IInv, Numbered, Current
  <2>9. Kept'
    BY <1>1, <1>4, <1>11, <2>5, <2>8 DEF IInv, Kept, Alone, Current, pageVars
  <2>10. Refusal'
    <3>1. ~ In(events, "error") \/ ~ open
      BY <1>2, <1>11 DEF IInv, Queued
    <3> QED  BY <1>1, <2>4, <3>1 DEF Refusal, pageVars
  <2>11. Tracked'
    <3>1. Calm' <=> Calm
      BY <2>5 DEF Calm, Alone
    <3> SUFFICES ASSUME Calm PROVE Tracked'
      BY <3>1 DEF Tracked
    <3>2. finish' = {} /\ ~ In(events', "ended")
      BY <1>5, <2>3, <2>4
    <3>3. open' /\ Waiting(Current)' /\ Current'.dial \in hist'.placed
          /\ i.num = Current'.num /\ i.dial = Current'.dial
      BY <1>1, <1>4, <1>6, <1>11, <2>5 DEF Calm, Waiting, pageVars
    <3> QED  BY <2>3, <3>2, <3>3 DEF Tracked, In
  <2>12. Over'
    <3> SUFFICES ASSUME Calm, NEW v \in Visits, page[v].phase \in {"outcome", "saving"}
                 PROVE  page[v].ended[2] = page[v].dial /\ line'.mine # page[v].dial
      BY <1>1, <2>5 DEF Over, Calm, Alone, pageVars
    <3>1. page[v].ended[2] = page[v].dial /\ page[v].dial # 0
      BY DEF IInv, Over, Saving, Calm, Alone
    <3>2. page[v].dial # i.dial
      BY <1>4, <1>11, <2>8 DEF Calm, Current
    <3> QED  BY <2>1, <3>1, <3>2
  <2> QED  BY <1>7, <2>6, <2>7, <2>9, <2>10, <2>11, <2>12 DEF IInv
<1> QED  BY <1>9, <1>10, <1>11 DEF HandleDial

-----------------------------------------------------------------------------
(* Steps of the screen.  Page v becomes q, and its new intents and saves   *)
(* are as they should be.                                                  *)
LEMMA Turn ==
  ASSUME IInv, TypeOK', Settled, NEW v \in Visits, NEW q \in Pages,
         page' = [page EXCEPT ![v] = q],
         UNCHANGED <<visits, open, nativeVars, events>>,
         hist'.placed = hist.placed, hist.saved \subseteq hist'.saved,
         hist'.left = hist.left, hist'.away = hist.away, hist'.cut = hist.cut,
         \/ q.dial = page[v].dial /\ hist'.dials = hist.dials
         \/ q.dial = hist'.dials /\ hist'.dials = hist.dials + 1,
         q.phase # "idle", Waiting(q) => q.dial # 0,
         Alone => open /\ v = visits,
         Calm /\ Waiting(page[v]) =>
           Waiting(q) /\ q.num = page[v].num /\ q.dial = page[v].dial,
         Calm /\ q.phase \in {"outcome", "saving"} =>
           /\ page[v].phase \in {"outcome", "saving"}
           /\ q.ended = page[v].ended /\ q.dial = page[v].dial,
         Alone /\ q.phase \in {"loading", "paused", "stopped", "empty"}
           /\ q.dial \in hist.placed => q.dial \in hist'.saved,
         \A i \in DOMAIN intents' : intents'[i].kind = "dial" => intents'[i].dial \in 1..hist'.dials,
         Queued', Saving', Dialled'
  PROVE  IInv'
<1>1. /\ page'[v] = q /\ \A w \in Visits \ {v} : page'[w] = page[w]
      /\ hist.dials \in Nat /\ (Calm' <=> Calm) /\ (Alone' <=> Alone)
      /\ UNCHANGED <<service, finish, line>>
  BY DEF IInv, TypeOK, Hists, Calm, Alone, nativeVars
<1>2. Numbered'
  <2>1. hist'.placed \subseteq 1..hist'.dials
    BY <1>1 DEF IInv, Numbered
  <2>2. ASSUME NEW w \in Visits
        PROVE  /\ page'[w].dial \in 0..hist'.dials
               /\ page'[w].phase = "idle" => page'[w].dial = 0
               /\ page'[w].phase \in {"dialing", "onCall"} => page'[w].dial # 0
    BY <1>1 DEF IInv, Numbered, Waiting
  <2>3. ASSUME NEW w \in Visits, NEW x \in Visits, w # x, page'[w].dial = page'[x].dial
        PROVE  page'[w].dial = 0
    BY <1>1, <2>3 DEF IInv, Numbered
  <2> QED  BY <2>1, <2>2, <2>3 DEF Numbered
<1>3. Single'
  BY <1>1 DEF IInv, Single
<1>4. Refusal'
  BY InNothing DEF Refusal, Settled
<1>5. Tracked'
  <2> SUFFICES ASSUME Calm PROVE Tracked'
    BY <1>1 DEF Tracked
  <2>1. open /\ v = visits /\ Current = page[v] /\ Current' = q
    BY <1>1 DEF Calm, Current
  <2>2. CASE Waiting(page[v])
    BY <1>1, <2>1, <2>2 DEF IInv, Tracked
  <2>3. CASE ~ Waiting(page[v])
    <3>1. service.active = None /\ finish = {} /\ ~ In(events, "ended")
      BY <2>1, <2>3 DEF IInv, Tracked
    <3> QED  BY <1>1, <3>1 DEF Tracked, In
  <2> QED  BY <2>2, <2>3
<1>6. Over'
  BY <1>1 DEF IInv, Over
<1>7. Kept'
  BY <1>1 DEF IInv, Kept
<1> QED  BY <1>2, <1>3, <1>4, <1>5, <1>6, <1>7 DEF IInv

(* The saves under way stay, or one is answered.                           *)
LEMMA SavesStay ==
  ASSUME IInv, NEW v \in Visits, NEW q \in Pages, page' = [page EXCEPT ![v] = q],
         UNCHANGED visits, hist'.cut = hist.cut, saves' \subseteq saves,
         ~ hist.cut => \A s \in saves' : s.page = v => q.phase = "saving" /\ q.dial = page[v].dial,
         ~ hist.cut /\ q.phase \in {"outcome", "saving"} =>
           /\ page[v].phase \in {"outcome", "saving"} /\ q.dial = page[v].dial
           /\ q.ended = page[v].ended /\ q.num = page[v].num
  PROVE  Saving'
<1>1. page'[v] = q /\ \A w \in Visits \ {v} : page'[w] = page[w]
  BY DEF IInv, TypeOK
<1>2. \A s \in saves : s.page \in Visits
  BY DEF IInv, TypeOK, Saves
<1> QED  BY <1>1, <1>2 DEF IInv, Saving

(* Nothing, a start or a stop is on its way to the service.                *)
LEMMA NoDialAhead ==
  ASSUME IInv, Settled, UNCHANGED <<open, events>>,
         \/ UNCHANGED intents
         \/ StopService
         \/ ToService("start", None, 0) /\ open /\ Current'.phase # "dialing"
  PROVE  /\ Queued' /\ Dialled'
         /\ \A i \in DOMAIN intents' : intents'[i].kind # "dial"
<1>0. intents = <<>> /\ (open => events = <<>>)
  BY DEF Settled
<1>1. CASE UNCHANGED intents
  BY <1>0, <1>1, InNothing DEF Queued, Dialled
<1>2. CASE ToService("stop", None, 0)
  <2>1. /\ DOMAIN intents' = {1} /\ Len(intents') = 1 /\ intents'[1].kind = "stop"
    BY <1>0, <1>2 DEF ToService
  <2> QED  BY <2>1 DEF Queued, Dialled, In
<1>3. CASE ToService("start", None, 0) /\ open /\ Current'.phase # "dialing"
  <2>1. /\ DOMAIN intents' = {1} /\ Len(intents') = 1 /\ intents'[1].kind = "start"
    BY <1>0, <1>3 DEF ToService
  <2>2. open' /\ events' = <<>>
    BY <1>0, <1>3
  <2> QED  BY <1>3, <2>1, <2>2 DEF Queued, Dialled, In
<1> QED  BY <1>1, <1>2, <1>3 DEF StopService

(* A dial is tried: it goes to the service, behind a start or not, or is   *)
(* refused at once.                                                        *)
LEMMA DialTurn ==
  ASSUME IInv, TypeOK', Settled, NEW v \in Visits, NEW p \in Pages,
         NEW ahead \in BOOLEAN, ahead => open /\ v = visits,
         NEW queue,
         queue = IF ahead THEN Append(<<>>, [kind |-> "start", num |-> None, dial |-> 0])
                 ELSE <<>>,
         page[v].phase \in {"loading", "paused"}, Alone => open /\ v = visits,
         DialItem(v, p, queue),
         UNCHANGED <<visits, open, saves, nativeVars, events>>
  PROVE  IInv'
<1> DEFINE d == hist.dials + 1
           q == [p EXCEPT !.dial = d, !.pending = FALSE, !.ended = <<None, 0>>,
                         !.phase = "dialing"]
           b == [q EXCEPT !.pending = TRUE, !.phase = "paused"]
           start == [kind |-> "start", num |-> None, dial |-> 0]
           dial == [kind |-> "dial", num |-> p.num, dial |-> d]
<1>1. /\ d \in Nat \ {0} /\ hist.dials \in Nat /\ hist' = [hist EXCEPT !.dials = d]
      /\ \/ page' = [page EXCEPT ![v] = q] /\ intents' = Append(queue, dial)
         \/ page' = [page EXCEPT ![v] = b] /\ intents' = queue
  BY DEF DialItem, IInv, TypeOK, Hists
<1>2. /\ hist'.placed = hist.placed /\ hist'.saved = hist.saved /\ hist'.left = hist.left
      /\ hist'.away = hist.away /\ hist'.cut = hist.cut /\ hist'.dials = d
  BY <1>1 DEF IInv, TypeOK, Hists
<1>3. /\ q \in Pages /\ q.phase = "dialing" /\ q.dial = d /\ q.num = p.num
      /\ b \in Pages /\ b.phase = "paused" /\ b.dial = d
  <2>1. q \in Pages /\ q.phase = "dialing" /\ q.dial = d /\ q.num = p.num
    BY <1>1 DEF Pages, Phases, Names
  <2> HIDE DEF q
  <2>2. b \in Pages /\ b.phase = "paused" /\ b.dial = d
    BY ONLY <2>1 DEF Pages, Phases, b
  <2> QED  BY <2>1, <2>2
<1>4. d \notin hist.placed
  BY <1>1 DEF IInv, Numbered
<1>5. ~ hist.cut => \A s \in saves : s.page # v
  BY DEF IInv, Saving
<1>6. start.kind = "start" /\ dial.kind = "dial" /\ dial.num = p.num /\ dial.dial = d
  OBVIOUS
<1>7. open => events' = <<>>
  BY DEF Settled
<1> HIDE DEF d, q, b, start, dial
<1>8. CASE page' = [page EXCEPT ![v] = q] /\ intents' = Append(queue, dial)
  <2>1. Saving'
    BY <1>2, <1>3, <1>5, <1>8, SavesStay
  <2>2. /\ \A i \in DOMAIN intents' : /\ intents'[i].kind = "start" => i = 1 /\ ahead
                                      /\ intents'[i].kind = "dial" =>
                                           i = Len(intents') /\ intents'[i] = dial
                                      /\ intents'[i].kind # "stop"
        /\ In(intents', "dial")
    <3>1. CASE ahead
      <4>1. /\ DOMAIN intents' = {1, 2} /\ Len(intents') = 2
            /\ intents'[1] = start /\ intents'[2] = dial
        BY <1>8, <3>1 DEF start
      <4> QED  BY <1>6, <3>1, <4>1 DEF In
    <3>2. CASE ~ ahead
      <4>1. DOMAIN intents' = {1} /\ Len(intents') = 1 /\ intents'[1] = dial
        BY <1>8, <3>2
      <4> QED  BY <1>6, <3>2, <4>1 DEF In
    <3> QED  BY <3>1, <3>2
  <2>3. Queued'
    BY <1>7, <2>2 DEF Queued, In
  <2>4. page'[v] = q
    BY <1>8 DEF IInv, TypeOK
  <2>5. Dialled'
    BY <1>2, <1>3, <1>4, <1>6, <2>2, <2>4 DEF Dialled, Alone, Current
  <2>6. \A i \in DOMAIN intents' : intents'[i].kind = "dial" => intents'[i].dial \in 1..hist'.dials
    BY <1>1, <1>2, <1>6, <2>2
  <2> QED  BY <1>1, <1>2, <1>3, <1>8, <2>1, <2>3, <2>5, <2>6, Turn DEF Waiting, d
<1>9. CASE page' = [page EXCEPT ![v] = b] /\ intents' = queue
  <2>1. Saving'
    BY <1>2, <1>3, <1>5, <1>9, SavesStay
  <2>2. page'[v] = b
    BY <1>9 DEF IInv, TypeOK
  <2>3. /\ Queued' /\ Dialled'
        /\ \A i \in DOMAIN intents' : intents'[i].kind # "dial"
    <3>1. ahead => ToService("start", None, 0) /\ Current'.phase # "dialing"
      BY <1>3, <1>9, <2>2 DEF ToService, Settled, Current
    <3>2. ~ ahead => UNCHANGED intents
      BY <1>9 DEF Settled
    <3> QED  BY <3>1, <3>2, NoDialAhead
  <2> QED  BY <1>1, <1>2, <1>3, <1>4, <1>9, <2>1, <2>3, Turn DEF Waiting, d
<1> QED  BY <1>1, <1>8, <1>9

(* A page loads, pauses or stops: it has no call, or one just saved.       *)
LEMMA RestTurn ==
  ASSUME IInv, TypeOK', Settled, NEW v \in Visits, NEW q \in Pages,
         page' = [page EXCEPT ![v] = q],
         q.phase \in {"loading", "paused", "stopped", "empty"}, q.dial = page[v].dial,
         Alone => open /\ v = visits,
         \/ /\ page[v].phase \in {"idle", "loading", "paused", "stopped", "empty"}
            /\ UNCHANGED <<saves, hist>>
         \/ \E s \in saves : /\ s.page = v /\ saves' = saves \ {s}
                             /\ hist' = [hist EXCEPT !.saved = @ \cup {s.dial}],
         \/ UNCHANGED intents
         \/ StopService
         \/ ToService("start", None, 0) /\ open /\ v = visits,
         UNCHANGED <<visits, open, nativeVars, events>>
  PROVE  IInv'
<1>1. /\ hist'.placed = hist.placed /\ hist.saved \subseteq hist'.saved
      /\ hist'.left = hist.left /\ hist'.away = hist.away /\ hist'.cut = hist.cut
      /\ hist'.dials = hist.dials
  BY DEF IInv, TypeOK, Hists
<1>2. Alone /\ q.dial \in hist.placed => q.dial \in hist'.saved
  <2>1. CASE page[v].phase \in {"idle", "loading", "paused", "stopped", "empty"}
    BY <1>1, <2>1 DEF IInv, Kept, Numbered, TypeOK, Hists
  <2>2. CASE \E s \in saves : /\ s.page = v /\ saves' = saves \ {s}
                             /\ hist' = [hist EXCEPT !.saved = @ \cup {s.dial}]
    BY <2>2 DEF IInv, Saving, Alone, TypeOK, Hists
  <2> QED  BY <2>1, <2>2
<1>3. ~ hist.cut => \A s \in saves' : s.page # v
  BY DEF IInv, Saving
<1>4. ~ hist.cut => ~ Waiting(page[v])
  BY DEF IInv, Saving, Waiting
<1>5. Saving'
  BY <1>1, <1>3, SavesStay
<1>6. v = visits => Current'.phase # "dialing"
  BY DEF IInv, TypeOK, Current
<1>7. /\ Queued' /\ Dialled'
      /\ \A i \in DOMAIN intents' : intents'[i].kind # "dial"
  BY <1>6, NoDialAhead
<1> QED  BY <1>1, <1>2, <1>4, <1>5, <1>7, Turn DEF Waiting, Calm, Alone

LEMMA StartIInv == ASSUME IInv, TypeOK', Start PROVE IInv'
<1> DEFINE p == page[visits]
           q == [[p EXCEPT !.after = "continue"] EXCEPT !.phase = "loading"]
<1>1. visits \in Visits /\ p \in Pages
  BY OpenPage DEF IInv, Start
<1>2. q \in Pages /\ q.phase = "loading" /\ q.dial = p.dial
  BY ONLY <1>1 DEF Pages, Phases, Modes
<1>3. page' = [page EXCEPT ![visits] = q] /\ ToService("start", None, 0) /\ open /\ Settled
      /\ p.phase \in {"idle", "stopped", "empty"}
      /\ UNCHANGED <<visits, open, saves, nativeVars, events, hist>>
  BY DEF Start, QueueNext
<1> HIDE DEF q
<1> QED  BY <1>1, <1>2, <1>3, RestTurn

LEMMA ResumeIInv == ASSUME IInv, TypeOK', Resume PROVE IInv'
<1> DEFINE p == page[visits]
           q == [p EXCEPT !.phase = "loading"]
           start == [kind |-> "start", num |-> None, dial |-> 0]
<1>1. visits \in Visits /\ p \in Pages
  BY OpenPage DEF IInv, Resume
<1>2. open /\ Settled /\ p.phase = "paused" /\ intents = <<>>
      /\ UNCHANGED <<visits, open, saves, nativeVars, events>>
  BY DEF Resume, Settled
<1>3. CASE DialItem(visits, p, Append(intents, start))
  BY <1>1, <1>2, <1>3, DialTurn
<1>4. CASE intents' = Append(intents, start) /\ QueueNext(visits, p) /\ UNCHANGED hist
  <2>1. q \in Pages /\ q.phase = "loading" /\ q.dial = p.dial
    BY ONLY <1>1 DEF Pages, Phases
  <2>2. page' = [page EXCEPT ![visits] = q] /\ ToService("start", None, 0)
    BY <1>4 DEF QueueNext, ToService
  <2> HIDE DEF q
  <2> QED  BY <1>1, <1>2, <1>4, <2>1, <2>2, RestTurn
<1> QED  BY <1>3, <1>4 DEF Resume

(* Pause, and Stop in a call or on the outcome screen.                     *)
LEMMA LaterTurn ==
  ASSUME IInv, TypeOK', open, Settled, NEW a \in Modes,
         page' = [page EXCEPT ![visits].after = a],
         Current.phase \in {"dialing", "onCall", "outcome", "saving"},
         UNCHANGED <<visits, open, saves, nativeVars, intents, events, hist>>
  PROVE  IInv'
<1> DEFINE q == [page[visits] EXCEPT !.after = a]
<1>1. visits \in Visits /\ page[visits] \in Pages
  BY OpenPage DEF IInv
<1>2. /\ q \in Pages /\ q.phase = page[visits].phase /\ q.dial = page[visits].dial
      /\ q.num = page[visits].num /\ q.ended = page[visits].ended
  BY ONLY <1>1 DEF Pages
<1>3. page' = [page EXCEPT ![visits] = q]
  BY <1>1
<1> HIDE DEF q
<1>4. Saving'
  <2>1. ~ hist.cut => \A s \in saves' : s.page = visits =>
          q.phase = "saving" /\ q.dial = page[visits].dial
    BY <1>2 DEF IInv, Saving
  <2>2. UNCHANGED visits /\ hist'.cut = hist.cut /\ saves' \subseteq saves
    OBVIOUS
  <2> QED  BY ONLY IInv, <1>1, <1>2, <1>3, <2>1, <2>2, SavesStay
<1>5. /\ Queued' /\ Dialled' /\ \A i \in DOMAIN intents' : intents'[i].kind # "dial"
  BY NoDialAhead
<1>6. Waiting(q) => q.dial # 0
  BY <1>1, <1>2 DEF IInv, Numbered, Waiting
<1> QED  BY <1>1, <1>2, <1>3, <1>4, <1>5, <1>6, Turn DEF Waiting, Current

LEMMA PauseStopIInv == ASSUME IInv, TypeOK', Pause \/ Stop PROVE IInv'
<1> DEFINE p == page[visits]
           q == [p EXCEPT !.phase = "stopped", !.after = "continue"]
<1>1. visits \in Visits /\ p \in Pages /\ open /\ Settled
  BY OpenPage DEF IInv, Pause, Stop
<1>2. CASE Pause
  BY <1>1, <1>2, LaterTurn DEF Pause, Modes, Current
<1>3. CASE Stop
  <2>1. UNCHANGED <<visits, open, nexts, saves, nativeVars, events, hist>>
        /\ p.phase \notin {"idle", "stopped", "empty"}
    BY <1>3 DEF Stop
  <2>2. CASE /\ StopWaits(p) /\ page' = [page EXCEPT ![visits].after = "stop"]
             /\ UNCHANGED intents
    BY <1>1, <2>1, <2>2, LaterTurn DEF StopWaits, Modes, Current
  <2>3. CASE ~ StopWaits(p) /\ StopSession(visits, p)
    <3>1. q \in Pages /\ q.phase = "stopped" /\ q.dial = p.dial
      BY ONLY <1>1 DEF Pages, Phases, Modes
    <3>2. page' = [page EXCEPT ![visits] = q] /\ StopService
      BY <2>3 DEF StopSession
    <3>3. p.phase \in {"idle", "loading", "paused", "stopped", "empty"}
      BY <1>1, <2>1, <2>3 DEF StopWaits, Pages, Phases
    <3> HIDE DEF q
    <3> QED  BY <1>1, <2>1, <3>1, <3>2, <3>3, RestTurn
  <2> QED  BY <1>3, <2>2, <2>3 DEF Stop
<1> QED  BY <1>2, <1>3

LEMMA NextAnsweredIInv ==
  ASSUME IInv, TypeOK', NEW v \in Visits, NextAnswered(v) PROVE IInv'
<1> DEFINE p == page[v]
           h == [p EXCEPT !.phase = "paused"]
           e == [p EXCEPT !.phase = "empty", !.num = None]
<1>1. /\ Settled /\ UNCHANGED <<visits, open, saves, nativeVars, events>>
      /\ intents = <<>> /\ p \in Pages
  BY DEF NextAnswered, Settled, IInv, TypeOK
<1>2. p.phase = "loading" /\ Alone => open /\ v = visits
  BY DEF IInv, Single
<1>3. CASE UNCHANGED <<page, intents, hist>>
  BY <1>1, <1>3 DEF IInv, Numbered, Queued, Saving, Single, Dialled, Refusal, Tracked,
     Over, Kept, Calm, Alone, Current, nativeVars
<1>4. CASE /\ p.phase = "loading" /\ page' = [page EXCEPT ![v].phase = "paused"]
           /\ UNCHANGED <<intents, hist>>
  <2>1. h \in Pages /\ h.phase = "paused" /\ h.dial = p.dial
    BY ONLY <1>1 DEF Pages, Phases
  <2>2. page' = [page EXCEPT ![v] = h]
    BY <1>4
  <2> HIDE DEF h
  <2> QED  BY <1>1, <1>2, <1>4, <2>1, <2>2, RestTurn
<1>5. CASE /\ p.phase = "loading"
           /\ page' = [page EXCEPT ![v].phase = "empty", ![v].num = None]
           /\ StopService /\ UNCHANGED hist
  <2>1. e \in Pages /\ e.phase = "empty" /\ e.dial = p.dial
    BY ONLY <1>1 DEF Pages, Phases, Names
  <2>2. page' = [page EXCEPT ![v] = e]
    BY <1>5 DEF IInv, TypeOK
  <2> HIDE DEF e
  <2> QED  BY <1>1, <1>2, <1>5, <2>1, <2>2, RestTurn
<1>6. ASSUME p.phase = "loading", NEW n \in Numbers,
             DialItem(v, [p EXCEPT !.num = n], intents)
      PROVE  IInv'
  <2>1. [p EXCEPT !.num = n] \in Pages
    BY ONLY <1>1 DEF Pages, Names
  <2>2. intents = IF FALSE THEN Append(<<>>, [kind |-> "start", num |-> None, dial |-> 0])
                  ELSE <<>>
    BY <1>1
  <2> QED  BY <1>1, <1>2, <1>6, <2>1, <2>2, DialTurn
<1> QED  BY <1>3, <1>4, <1>5, <1>6 DEF NextAnswered

LEMMA SaveOutcomeIInv ==
  ASSUME IInv, TypeOK', NEW mode \in {"next", "pause", "stop"}, SaveOutcome(mode)
  PROVE  IInv'
<1> DEFINE p == page[visits]
           q == [p EXCEPT !.phase = "saving"]
           new == [page |-> visits, dial |-> p.dial, mode |-> mode]
<1>1. /\ visits \in Visits /\ p \in Pages /\ open /\ Settled /\ p.phase = "outcome"
      /\ UNCHANGED <<visits, open, nativeVars, intents, events, hist>>
      /\ saves' = saves \cup {new}
  BY OpenPage DEF IInv, SaveOutcome
<1>2. /\ q \in Pages /\ q.phase = "saving" /\ q.dial = p.dial
      /\ q.num = p.num /\ q.ended = p.ended
  BY ONLY <1>1 DEF Pages, Phases
<1>3. page' = [page EXCEPT ![visits] = q]
  BY <1>1 DEF SaveOutcome
<1>4. new.page = visits /\ new.dial = p.dial
  OBVIOUS
<1> HIDE DEF q, new
<1>5. Saving'
  <2> SUFFICES ASSUME ~ hist.cut PROVE Saving'
    BY <1>1 DEF Saving
  <2>1. \A s \in saves : s.page # visits
    BY <1>1 DEF IInv, Saving
  <2>2. page'[visits] = q /\ \A w \in Visits \ {visits} : page'[w] = page[w]
    BY <1>1, <1>3 DEF IInv, TypeOK
  <2>3. \A s \in saves : s.page \in Visits /\ s.page <= visits /\ page[s.page].phase = "saving"
                         /\ s.dial = page[s.page].dial
    BY DEF IInv, Saving, TypeOK, Saves
  <2>4. visits <= visits'
    BY <1>1 DEF IInv, TypeOK
  <2>5. \A s \in saves' : s.page <= visits' /\ page'[s.page].phase = "saving"
                          /\ s.dial = page'[s.page].dial
    BY <1>1, <1>2, <1>4, <2>1, <2>2, <2>3, <2>4
  <2>6. \A s, t \in saves' : s.page = t.page => s = t
    BY <1>1, <1>4, <2>1 DEF IInv, Saving
  <2>7. \A w \in Visits : page'[w].phase \in {"outcome", "saving"} =>
          page'[w].dial # 0 /\ page'[w].ended[1] = page'[w].num
    BY <1>1, <1>2, <2>2 DEF IInv, Saving
  <2> QED  BY <2>5, <2>6, <2>7 DEF Saving
<1>6. /\ Queued' /\ Dialled' /\ \A i \in DOMAIN intents' : intents'[i].kind # "dial"
  BY <1>1, NoDialAhead
<1> QED  BY <1>1, <1>2, <1>3, <1>5, <1>6, Turn DEF Waiting

LEMMA SaveAnsweredIInv == ASSUME IInv, TypeOK', SaveAnswered PROVE IInv'
<1>1. PICK s \in saves, saved \in BOOLEAN, heard \in BOOLEAN :
        LET p == page[s.page]
            q == [p EXCEPT !.after = "continue", !.pending = FALSE]
            then == IF p.after # "continue" THEN p.after ELSE s.mode
        IN  /\ Settled /\ (heard => saved)
            /\ saves' = saves \ {s}
            /\ hist' = [hist EXCEPT !.saved = IF saved THEN @ \cup {s.dial} ELSE @]
            /\ \/ /\ ~ heard
                  /\ page' = [page EXCEPT ![s.page].phase = "outcome"]
                  /\ UNCHANGED <<nexts, intents>>
               \/ heard /\ then = "stop" /\ StopSession(s.page, q) /\ UNCHANGED nexts
               \/ /\ heard /\ then = "pause"
                  /\ page' = [page EXCEPT ![s.page] = [q EXCEPT !.phase = "paused"]]
                  /\ UNCHANGED <<nexts, intents>>
               \/ heard /\ then = "next" /\ QueueNext(s.page, q) /\ UNCHANGED intents
            /\ UNCHANGED <<visits, open, nativeVars, events>>
  BY DEF SaveAnswered
<1> DEFINE v == s.page
           p == page[v]
           q == [p EXCEPT !.after = "continue", !.pending = FALSE]
           o == [p EXCEPT !.phase = "outcome"]
           st == [q EXCEPT !.phase = "stopped", !.after = "continue"]
           pa == [q EXCEPT !.phase = "paused"]
           lo == [q EXCEPT !.phase = "loading"]
<1>2. v \in Visits /\ p \in Pages
  BY DEF IInv, TypeOK, Saves
<1>3. /\ ~ hist.cut => p.phase = "saving"
      /\ Alone => open /\ v = visits
  BY <1>2 DEF IInv, Saving, Single, Alone
<1>4. Settled /\ saves' = saves \ {s} /\ UNCHANGED <<visits, open, nativeVars, events>>
  BY <1>1
<1>5. CASE ~ heard
  <2>1. /\ o \in Pages /\ o.phase = "outcome" /\ o.dial = p.dial /\ o.num = p.num
        /\ o.ended = p.ended
    BY ONLY <1>2 DEF Pages, Phases
  <2>2. page' = [page EXCEPT ![v] = o] /\ UNCHANGED intents
        /\ hist' = [hist EXCEPT !.saved = IF saved THEN @ \cup {s.dial} ELSE @]
    BY <1>1, <1>5
  <2>3. /\ hist'.placed = hist.placed /\ hist.saved \subseteq hist'.saved
        /\ hist'.left = hist.left /\ hist'.away = hist.away /\ hist'.cut = hist.cut
        /\ hist'.dials = hist.dials
    BY <2>2 DEF IInv, TypeOK, Hists
  <2> HIDE DEF o
  <2>4. Saving'
    <3>1. ~ hist.cut => \A t \in saves' : t.page # v
      BY <1>4 DEF IInv, Saving
    <3>2. saves' \subseteq saves
      BY <1>4
    <3> QED  BY <1>2, <1>3, <1>4, <2>1, <2>2, <2>3, <3>1, <3>2, SavesStay
  <2>5. /\ Queued' /\ Dialled' /\ \A i \in DOMAIN intents' : intents'[i].kind # "dial"
    BY <1>4, <2>2, NoDialAhead
  <2>6. ~ Waiting(o)
    BY <2>1 DEF Waiting
  <2>7. Calm => ~ Waiting(p) /\ p.phase = "saving"
    BY <1>3 DEF Calm, Alone, Waiting
  <2> HIDE DEF v, p
  <2> QED  BY <1>2, <1>3, <1>4, <2>1, <2>2, <2>3, <2>4, <2>5, <2>6, <2>7, Turn DEF p
<1>6. CASE heard
  <2>1. \E t \in saves : /\ t.page = v /\ saves' = saves \ {t}
                         /\ hist' = [hist EXCEPT !.saved = @ \cup {t.dial}]
    BY <1>1, <1>6
  <2>2. q \in Pages /\ q.dial = p.dial
    BY ONLY <1>2 DEF Pages, Modes
  <2>3. /\ st \in Pages /\ st.phase = "stopped" /\ st.dial = p.dial
        /\ pa \in Pages /\ pa.phase = "paused" /\ pa.dial = p.dial
        /\ lo \in Pages /\ lo.phase = "loading" /\ lo.dial = p.dial
    <3> HIDE DEF q
    <3> QED  BY ONLY <2>2 DEF Pages, Phases, Modes
  <2>4. \/ page' = [page EXCEPT ![v] = st] /\ StopService
        \/ page' = [page EXCEPT ![v] = pa] /\ UNCHANGED intents
        \/ page' = [page EXCEPT ![v] = lo] /\ UNCHANGED intents
    BY <1>1, <1>6 DEF StopSession, QueueNext
  <2> HIDE DEF st, pa, lo, q
  <2> QED  BY <1>2, <1>3, <1>4, <2>1, <2>3, <2>4, RestTurn
<1> QED  BY <1>5, <1>6

LEMMA OpenIInv == ASSUME IInv, TypeOK', Open PROVE IInv'
<1> DEFINE n == visits + 1
<1>1. /\ n \in Visits /\ visits' = n /\ open' /\ ~ open /\ intents = <<>>
      /\ page' = [page EXCEPT ![n] = NewPage]
      /\ UNCHANGED <<nexts, saves, service, finish, line, intents, events, hist>>
  BY PhoneAssumption DEF Open, Settled, Within, IInv, TypeOK, Lines, Visits, nativeVars
<1>2. /\ page'[n] = NewPage /\ \A w \in Visits \ {n} : page'[w] = page[w]
      /\ NewPage.phase = "idle" /\ NewPage.dial = 0 /\ Current' = NewPage
  BY <1>1 DEF IInv, TypeOK, NewPage, Current
<1>3. visits \in Nat /\ hist.dials \in Nat
  BY DEF IInv, TypeOK, Hists
<1> HIDE DEF n
<1>4. Numbered'
  BY <1>1, <1>2, <1>3 DEF IInv, Numbered
<1>5. Queued' /\ Dialled' /\ Refusal'
  BY <1>1, <1>2, InNothing DEF Queued, Dialled, Refusal
<1>6. Saving'
  <2>1. \A s \in saves : ~ hist.cut => s.page <= visits /\ s.page \in Visits /\ s.page # n
    BY <1>3 DEF IInv, Saving, TypeOK, Saves, n, Visits
  <2> QED  BY <1>1, <1>2, <1>3, <2>1 DEF IInv, Saving, n, Visits
<1>7. Single' /\ Over' /\ Kept'
  BY <1>1, <1>2 DEF IInv, Single, Over, Kept, Alone, Calm
<1>8. Tracked'
  BY <1>1 DEF IInv, Tracked, Alone, Calm, In
<1> QED  BY <1>4, <1>5, <1>6, <1>7, <1>8 DEF IInv

LEMMA LeaveIInv == ASSUME IInv, TypeOK', Leave PROVE IInv'
<1> DEFINE p == page[visits]
<1>1. /\ visits \in Visits /\ open /\ ~ open' /\ intents = <<>>
      /\ hist' = [hist EXCEPT !.left = @ \/ p.phase \in {"loading", "saving"},
                              !.away = @ \/ p.phase \in {"dialing", "onCall"}]
      /\ UNCHANGED intents \/ StopService
      /\ UNCHANGED <<visits, nexts, saves, service, finish, line, events>>
  BY OpenPage DEF IInv, Leave, Settled, nativeVars
<1>2. /\ hist'.placed = hist.placed /\ hist'.saved = hist.saved /\ hist'.dials = hist.dials
      /\ hist'.cut = hist.cut
      /\ hist'.left = (hist.left \/ p.phase \in {"loading", "saving"})
      /\ hist'.away = (hist.away \/ p.phase \in {"dialing", "onCall"})
  BY <1>1 DEF IInv, TypeOK, Hists
<1>3. /\ \A w \in Visits \ {visits} : page'[w] = page[w]
      /\ \/ page'[visits] = p
         \/ page'[visits] = NewPage /\ \A s \in saves : s.page # visits
      /\ NewPage.phase = "idle" /\ NewPage.dial = 0 /\ hist.dials \in Nat
  BY <1>1 DEF Leave, IInv, TypeOK, NewPage, Hists
<1>4. \A i \in DOMAIN intents' : intents'[i].kind # "start" /\ intents'[i].kind # "dial"
  BY <1>1 DEF StopService, ToService
<1>5. Queued' /\ Dialled' /\ Refusal'
  BY <1>1, <1>4 DEF Queued, Dialled, Refusal, In
<1>6. Numbered'
  BY <1>2, <1>3, <1>4 DEF IInv, Numbered
<1>7. Saving'
  <2> SUFFICES ASSUME ~ hist.cut PROVE Saving'
    BY <1>2 DEF Saving
  <2>1. ASSUME NEW s \in saves PROVE s.page \in Visits /\ page'[s.page] = page[s.page]
    BY <1>3 DEF IInv, TypeOK, Saves
  <2>2. ASSUME NEW w \in Visits, page'[w].phase \in {"outcome", "saving"}
        PROVE  page'[w] = page[w]
    BY <1>3, <2>2
  <2> QED  BY <1>1, <2>1, <2>2 DEF IInv, Saving
<1>8. Single'
  BY <1>1, <1>2, <1>3 DEF IInv, Single, Alone
<1>9. Over' /\ Kept'
  <2>1. (Calm' => Calm) /\ (Alone' => Alone)
    BY <1>2 DEF Alone, Calm
  <2>2. Over'
    BY <1>1, <1>2, <1>3, <2>1 DEF IInv, Over
  <2>3. Kept'
    BY <1>1, <1>2, <1>3, <2>1 DEF IInv, Kept
  <2> QED  BY <2>2, <2>3
<1>10. Tracked'
  <2> SUFFICES ASSUME Calm' PROVE Tracked'
    BY DEF Tracked
  <2>1. Calm /\ ~ Waiting(p)
    BY <1>2 DEF Calm, Alone, Waiting
  <2>2. service.active = None /\ finish = {} /\ ~ In(events, "ended")
    BY <2>1 DEF IInv, Tracked, Current
  <2> QED  BY <1>1, <2>2 DEF Tracked, In
<1> QED  BY <1>5, <1>6, <1>7, <1>8, <1>9, <1>10 DEF IInv

(* What is left of the events once the first is taken.                     *)
LEMMA OneEventLess ==
  ASSUME IInv, events # <<>>, NEW q, q = Tail(events)
  PROVE  /\ 1 \in DOMAIN events /\ Head(events) = events[1]
         /\ \A i \in DOMAIN q : /\ i \in Nat \ {0} /\ i + 1 \in DOMAIN events
                                /\ q[i] = events[i + 1]
         /\ \A kind : In(q, kind) => In(events, kind)
         /\ \A kind : Head(events).kind = kind => In(events, kind)
<1>1. /\ DOMAIN q = 1..Len(events) - 1 /\ DOMAIN events = 1..Len(events)
      /\ Len(events) \in Nat \ {0}
      /\ \A i \in 1..Len(events) - 1 : q[i] = events[i + 1]
      /\ Head(events) = events[1]
  BY DEF IInv, TypeOK
<1>2. \A i \in DOMAIN q : /\ i \in Nat \ {0} /\ i + 1 \in DOMAIN events
                          /\ q[i] = events[i + 1]
  BY <1>1
<1>3. 1 \in DOMAIN events
  BY <1>1
<1> QED  BY <1>1, <1>2, <1>3 DEF In

(* The page on the screen takes an event and becomes q.                    *)
LEMMA PageHears ==
  ASSUME IInv, TypeOK', open, events # <<>>, events' = Tail(events),
         NEW q, page' = [page EXCEPT ![visits] = q],
         UNCHANGED <<visits, open, nexts, saves, nativeVars, intents, hist>>,
         q.dial = Current.dial, q.num = Current.num,
         q.phase = "idle" => Current.phase = "idle",
         q.phase = "dialing" => Current.phase = "dialing",
         q.phase = "onCall" => Current.phase \in {"dialing", "onCall"},
         q.phase = "loading" => Current.phase = "loading",
         q.phase = "saving" <=> Current.phase = "saving",
         ~ hist.cut /\ q.phase \in {"outcome", "saving"} =>
           q.dial # 0 /\ q.ended[1] = q.num,
         Alone /\ In(intents, "dial") =>
           \/ q.phase \in {"dialing", "onCall"}
           \/ q.phase = "outcome" /\ hist.away
           \/ q.phase = "paused" /\ service.barred /\ ~ service.running
              /\ ~ In(intents, "start"),
         Calm => \/ Waiting(Current) => Waiting(q)
                 \/ service.active = None /\ finish = {} /\ ~ In(events', "ended"),
         Calm /\ q.phase \in {"outcome", "saving"} =>
           q.ended[2] = q.dial /\ line.mine # q.dial,
         Alone /\ q.phase \in {"loading", "paused", "stopped", "empty"}
           /\ q.dial \in hist.placed => q.dial \in hist.saved
  PROVE  IInv'
<1>1. /\ visits \in Visits /\ Current' = q /\ page'[visits] = q /\ Current = page[visits]
      /\ \A w \in Visits \ {visits} : page'[w] = page[w]
  BY OpenPage DEF IInv, TypeOK, Current
<1>2. \A kind : In(events', kind) => In(events, kind)
  BY OneEventLess
<1>3. UNCHANGED <<service, finish, line>> /\ (Alone' <=> Alone) /\ (Calm' <=> Calm)
  BY DEF nativeVars, Alone, Calm
<1>4. Numbered'
  BY <1>1 DEF IInv, Numbered
<1>5. Queued'
  BY <1>1, <1>2, <1>3 DEF IInv, Queued
<1>6. Saving'
  BY <1>1 DEF IInv, Saving, TypeOK, Saves
<1>7. Single'
  BY <1>1, <1>3 DEF IInv, Single
<1>8. Dialled'
  <2> SUFFICES ASSUME Alone, NEW i \in DOMAIN intents, intents[i].kind = "dial"
               PROVE  /\ open
                      /\ intents[i].num = q.num /\ intents[i].dial = q.dial
                      /\ q.dial \notin hist.placed
                      /\ \/ q.phase \in {"dialing", "onCall"}
                         \/ q.phase = "outcome" /\ hist.away
                         \/ q.phase = "paused" /\ service.barred /\ ~ service.running
                            /\ ~ In(intents, "start")
    BY <1>1, <1>3 DEF Dialled
  <2>1. In(intents, "dial")
    BY DEF In
  <2> QED  BY <2>1 DEF IInv, Dialled
<1>9. Refusal'
  BY <1>1, <1>2, <1>3 DEF IInv, Refusal
<1>10. Tracked'
  <2> SUFFICES ASSUME Calm PROVE Tracked'
    BY <1>3 DEF Tracked
  <2>1. CASE Waiting(Current) => Waiting(q)
    <3>1. \A i \in DOMAIN events' : events'[i].kind = "ended" =>
            /\ events'[i].num = q.num /\ events'[i].dial = q.dial
            /\ line.mine # q.dial
            /\ \A j \in DOMAIN events' : events'[j].kind = "ended" => j = i
      <4>1. \A i \in DOMAIN events' : /\ i \in Nat \ {0} /\ i + 1 \in DOMAIN events
                                      /\ events'[i] = events[i + 1]
        BY OneEventLess
      <4> QED  BY <4>1 DEF IInv, Tracked
    <3> QED  BY <1>1, <1>2, <1>3, <2>1, <3>1 DEF IInv, Tracked
  <2>2. CASE service.active = None /\ finish = {} /\ ~ In(events', "ended")
    BY <1>3, <2>2 DEF Tracked, In
  <2> QED  BY <2>1, <2>2
<1>11. Over'
  BY <1>1, <1>3 DEF IInv, Over
<1>12. Kept'
  BY <1>1, <1>3 DEF IInv, Kept
<1> QED  BY <1>4, <1>5, <1>6, <1>7, <1>8, <1>9, <1>10, <1>11, <1>12 DEF IInv

(* The notification's Stop comes to a page that has no call to wait for.   *)
LEMMA StopHeard ==
  ASSUME IInv, TypeOK', open, events # <<>>, events' = Tail(events),
         Head(events).kind = "stop",
         ~ Waiting(Current), Current.phase # "outcome", StopSession(visits, Current),
         hist' = [hist EXCEPT !.cut = @ \/ Current.phase = "saving"],
         UNCHANGED <<visits, open, nexts, saves, nativeVars>>
  PROVE  IInv'
<1> DEFINE p == page[visits]
           q == [p EXCEPT !.phase = "stopped", !.after = "continue"]
<1>1. /\ visits \in Visits /\ p \in Pages /\ p = Current /\ hist.dials \in Nat
      /\ UNCHANGED <<service, finish, line>>
  BY OpenPage DEF IInv, TypeOK, Hists, Current, nativeVars
<1>2. q.phase = "stopped" /\ q.dial = p.dial
  BY ONLY <1>1 DEF Pages
<1>3. page' = [page EXCEPT ![visits] = q]
  BY <1>1 DEF StopSession
<1> HIDE DEF q
<1>4. /\ page'[visits] = q /\ Current' = q
      /\ \A w \in Visits \ {visits} : page'[w] = page[w]
  BY <1>1, <1>3 DEF IInv, TypeOK, Current
<1>5. /\ hist'.placed = hist.placed /\ hist'.saved = hist.saved /\ hist'.dials = hist.dials
      /\ hist'.left = hist.left /\ hist'.away = hist.away
      /\ hist'.cut = (hist.cut \/ p.phase = "saving")
  BY <1>1 DEF IInv, TypeOK, Hists
<1>6. \A i \in DOMAIN intents' : intents'[i].kind # "start" /\ intents'[i].kind # "dial"
  <2>1. In(events, "stop")
    BY OneEventLess
  <2>2. \A i \in DOMAIN intents : intents[i].kind # "start" /\ intents[i].kind # "dial"
    BY <2>1 DEF IInv, Queued, In
  <2>3. intents \in Seq(Intents)
    BY DEF IInv, TypeOK
  <2>4. CASE ToService("stop", None, 0)
    <3>1. /\ DOMAIN intents' = 1..Len(intents) + 1 /\ DOMAIN intents = 1..Len(intents)
          /\ \A i \in 1..Len(intents) : intents'[i] = intents[i]
          /\ intents'[Len(intents) + 1].kind = "stop" /\ Len(intents) \in Nat
      BY <2>3, <2>4 DEF ToService
    <3>2. \A i \in DOMAIN intents' : i \in DOMAIN intents \/ i = Len(intents) + 1
      BY <3>1
    <3> QED  BY <2>2, <3>1, <3>2
  <2> QED  BY <2>2, <2>4 DEF StopSession, StopService
<1>7. Queued' /\ Dialled'
  BY <1>6 DEF Queued, Dialled, In
<1>8. Numbered'
  BY <1>1, <1>2, <1>4, <1>5, <1>6 DEF IInv, Numbered
<1>9. Saving'
  <2> SUFFICES ASSUME ~ hist'.cut PROVE Saving'
    BY DEF Saving
  <2>1. ~ hist.cut /\ \A s \in saves : s.page # visits
    BY <1>5 DEF IInv, Saving
  <2> QED  BY <1>2, <1>4, <2>1 DEF IInv, Saving, TypeOK, Saves
<1>10. Single' /\ Refusal'
  BY <1>2, <1>4, <1>5 DEF IInv, Single, Refusal, Alone
<1>11. Tracked'
  <2> SUFFICES ASSUME Calm' PROVE Tracked'
    BY DEF Tracked
  <2>1. Calm
    BY <1>5 DEF Calm, Alone
  <2>2. service.active = None /\ finish = {} /\ ~ In(events, "ended")
    BY <2>1 DEF IInv, Tracked
  <2>3. ~ In(events', "ended")
    BY <2>2, OneEventLess
  <2> QED  BY <1>1, <2>2, <2>3 DEF Tracked, In
<1>12. Over'
  BY <1>1, <1>2, <1>4, <1>5 DEF IInv, Over, Alone, Calm
<1>13. Kept'
  <2> SUFFICES ASSUME Alone', q.dial \in hist.placed PROVE q.dial \in hist.saved
    BY <1>1, <1>4, <1>5 DEF IInv, Kept, Alone
  <2>1. Alone /\ p.phase \in {"idle", "loading", "paused", "stopped", "empty"}
    BY <1>1, <1>5 DEF Alone, Waiting, Pages, Phases
  <2>2. p.phase # "idle"
    BY <1>1, <1>2 DEF IInv, Numbered
  <2> QED  BY <1>1, <1>2, <2>1, <2>2 DEF IInv, Kept
<1> QED  BY <1>7, <1>8, <1>9, <1>10, <1>11, <1>12, <1>13 DEF IInv

LEMMA DeliverIInv == ASSUME IInv, TypeOK', Deliver PROVE IInv'
<1> DEFINE p == page[visits]
           e == Head(events)
<1>1. /\ visits \in Visits /\ p \in Pages /\ p = Current /\ open /\ events # <<>>
      /\ events' = Tail(events)
      /\ UNCHANGED <<visits, open, nexts, saves, nativeVars>>
  BY OpenPage DEF IInv, Deliver, Current
<1>2. 1 \in DOMAIN events /\ e = events[1] /\ In(events, e.kind)
  BY <1>1, OneEventLess
<1>3. /\ p.phase \in Phases
      /\ ~ hist.cut /\ p.phase \in {"outcome", "saving"} => p.dial # 0 /\ p.ended[1] = p.num
      /\ Calm /\ p.phase \in {"outcome", "saving"} => p.ended[2] = p.dial /\ line.mine # p.dial
      /\ Alone /\ p.phase \in {"loading", "paused", "stopped", "empty"}
           /\ p.dial \in hist.placed => p.dial \in hist.saved
      /\ p.phase \in {"dialing", "onCall"} => p.dial # 0
  BY <1>1 DEF IInv, Saving, Over, Kept, Numbered, Pages
<1>4. Alone /\ In(intents, "dial") =>
        \/ p.phase \in {"dialing", "onCall"}
        \/ p.phase = "outcome" /\ hist.away
        \/ p.phase = "paused" /\ service.barred /\ ~ service.running
           /\ ~ In(intents, "start")
  BY <1>1 DEF IInv, Dialled, In
(* An event that leaves the phase as it was, or finds the call begun.      *)
<1>5. ASSUME NEW q \in Pages, page' = [page EXCEPT ![visits] = q],
             UNCHANGED <<intents, hist>>,
             q.dial = p.dial, q.num = p.num, q.ended = p.ended,
             q.phase = p.phase \/ (p.phase = "dialing" /\ q.phase = "onCall")
      PROVE  IInv'
  <2>1. Calm => (Waiting(p) => Waiting(q))
    BY <1>5 DEF Waiting
  <2> HIDE DEF p
  <2> QED  BY <1>1, <1>3, <1>4, <1>5, <2>1, PageHears
<1>6. CASE page' = [page EXCEPT ![visits] = OnStarted(p, e)] /\ UNCHANGED <<intents, hist>>
  <2> DEFINE q == OnStarted(p, e)
  <2>1. /\ q \in Pages /\ q.dial = p.dial /\ q.num = p.num /\ q.ended = p.ended
        /\ q.phase = p.phase \/ (p.phase = "dialing" /\ q.phase = "onCall")
    BY <1>1 DEF OnStarted, Pages, Phases
  <2> HIDE DEF q, p
  <2> QED  BY <1>5, <1>6, <2>1 DEF q
<1>7. \A a \in Modes :
        LET q == [p EXCEPT !.after = a]
        IN  /\ q \in Pages /\ q.dial = p.dial /\ q.num = p.num
            /\ q.ended = p.ended /\ q.phase = p.phase
  BY ONLY <1>1 DEF Pages
<1>8. ASSUME NEW a \in Modes, page' = [page EXCEPT ![visits].after = a],
             UNCHANGED <<intents, hist>>
      PROVE  IInv'
  BY <1>5, <1>7, <1>8
<1>9. ASSUME e.kind = "ended", NEW q \in OnEnded(p, e), page' = [page EXCEPT ![visits] = q],
             UNCHANGED <<intents, hist>>
      PROVE  IInv'
  <2>1. CASE q = p
    BY <1>1, <1>5, <1>9, <2>1
  <2>2. CASE Waiting(p) /\ IsCurrent(p, e)
    <3>1. e.num = p.num
      BY <2>2 DEF IsCurrent
    <3>2. PICK a \in {p.after, "pause"} :
            q = [p EXCEPT !.phase = "outcome", !.ended = <<e.num, e.dial>>, !.after = a]
      BY <1>9, <2>2 DEF OnEnded
    <3>3. /\ q.phase = "outcome" /\ q.ended[1] = e.num /\ q.ended[2] = e.dial
          /\ q.dial = p.dial /\ q.num = p.num
      <4>1. p \in Pages
        BY <1>1
      <4> HIDE DEF p, e
      <4> QED  BY ONLY <4>1, <3>2 DEF Pages
    <3>4. Calm => /\ e.dial = p.dial /\ line.mine # p.dial /\ service.active = None
                  /\ finish = {} /\ ~ In(events', "ended") /\ p.dial \in hist.placed
      <4> SUFFICES ASSUME Calm PROVE
             /\ e.dial = p.dial /\ line.mine # p.dial /\ service.active = None
             /\ finish = {} /\ ~ In(events', "ended") /\ p.dial \in hist.placed
        OBVIOUS
      <4>1. In(events, "ended")
        BY <1>2, <1>9
      <4>2. /\ service.active = None /\ finish = {} /\ p.dial \in hist.placed
            /\ e.dial = p.dial /\ line.mine # p.dial
            /\ \A j \in DOMAIN events : events[j].kind = "ended" => j = 1
        BY <1>1, <1>2, <1>9, <4>1 DEF IInv, Tracked
      <4>3. \A i \in DOMAIN events' : /\ i \in Nat \ {0} /\ i + 1 \in DOMAIN events
                                      /\ events'[i] = events[i + 1]
        BY <1>1, OneEventLess
      <4>4. ~ In(events', "ended")
        BY <4>2, <4>3 DEF In
      <4> QED  BY <4>2, <4>4
    <3>5. p.dial # 0 /\ p.phase \in {"dialing", "onCall"}
      BY <1>3, <2>2 DEF Waiting
    <3>6. Alone /\ In(intents, "dial") => hist.away
      <4>1. Alone /\ In(intents, "dial") => p.dial \notin hist.placed
        BY <1>1 DEF IInv, Dialled, In
      <4> QED  BY <3>4, <4>1 DEF Calm
    <3> HIDE DEF p, e
    <3> QED  BY <1>1, <1>9, <3>1, <3>3, <3>4, <3>5, <3>6, PageHears
  <2> QED  BY <1>9, <2>1, <2>2 DEF OnEnded
<1>10. ASSUME e.kind = "error", page' = [page EXCEPT ![visits] = OnError(p)],
              UNCHANGED <<intents, hist>>
       PROVE  IInv'
  <2> DEFINE q == OnError(p)
  <2>1. /\ q \in Pages /\ q.dial = p.dial /\ q.num = p.num /\ q.ended = p.ended
        /\ q.phase = IF p.phase \in {"dialing", "loading"} THEN "paused" ELSE p.phase
    BY <1>1 DEF OnError, Pages, Phases
  <2>2. CASE p.phase \notin {"dialing", "loading"}
    <3> HIDE DEF q, p
    <3> QED  BY <1>5, <1>10, <2>1, <2>2 DEF q
  <2>3. CASE p.phase \in {"dialing", "loading"}
    <3>1. In(events, "error")
      BY <1>2, <1>10
    <3>2. Alone /\ p.phase = "dialing" => p.dial \notin hist.placed
      BY <1>1, <3>1 DEF IInv, Refusal
    <3>3. Alone /\ p.dial \in hist.placed => p.dial \in hist.saved
      BY <1>3, <2>3, <3>2
    <3>4. In(intents, "dial") => service.barred /\ ~ service.running /\ ~ In(intents, "start")
      BY <1>1, <3>1 DEF IInv, Queued
    <3>5. Calm => service.active = None /\ finish = {} /\ ~ In(events', "ended")
      <4>1. Calm => ~ Waiting(p) \/ p.dial \notin hist.placed
        BY <2>3, <3>2 DEF Calm, Waiting
      <4>2. Calm => service.active = None /\ finish = {} /\ ~ In(events, "ended")
        BY <1>1, <4>1 DEF IInv, Tracked
      <4> QED  BY <1>1, <4>2, OneEventLess
    <3>6. q.phase = "paused"
      BY <2>1, <2>3
    <3> HIDE DEF q, p
    <3> QED  BY <1>1, <1>10, <2>1, <2>3, <3>3, <3>4, <3>5, <3>6, PageHears DEF q
  <2> QED  BY <2>2, <2>3
<1>11. ASSUME e.kind = "stop", StopEvent(p) PROVE IInv'
  <2>1. CASE page' = [page EXCEPT ![visits].after = "stop"] /\ UNCHANGED <<intents, hist>>
    BY <1>8, <2>1 DEF Modes
  <2>2. CASE /\ ~ (Waiting(p) \/ p.phase = "outcome") /\ StopSession(visits, p)
             /\ hist' = [hist EXCEPT !.cut = @ \/ p.phase = "saving"]
    BY <1>1, <1>11, <2>2, StopHeard
  <2> QED  BY <1>11, <2>1, <2>2 DEF StopEvent
<1> QED  BY <1>1, <1>6, <1>8, <1>9, <1>10, <1>11 DEF Deliver, Modes

-----------------------------------------------------------------------------
LEMMA InitIInv == ASSUME Init PROVE IInv
<1>1. \A v \in Visits : page[v] = NewPage
  BY DEF Init
<1>2. /\ service = Off /\ finish = {} /\ intents = <<>> /\ events = <<>> /\ saves = {}
      /\ ~ open /\ visits = 0 /\ hist.placed = {} /\ hist.dials = 0
  BY DEF Init
<1>3. NewPage.phase = "idle" /\ NewPage.dial = 0
  BY DEF NewPage
<1>4. TypeOK
  <2>1. page \in [Visits -> Pages] /\ nexts \in [Visits -> Nat]
    BY NewPageType DEF Init
  <2>2. line \in Lines /\ hist \in Hists
    BY DEF Init, Lines, Hists
  <2>3. visits \in 0..MaxExtras + 1 /\ open \in BOOLEAN
    <3>1. MaxExtras + 1 \in Nat /\ 0 \in 0..MaxExtras + 1
      BY PhoneAssumption
    <3>2. open = FALSE
      BY DEF Init
    <3> QED  BY <1>2, <3>1, <3>2
  <2>4. intents \in Seq(Intents) /\ events \in Seq(Events)
    BY <1>2
  <2> QED  BY <1>2, <2>1, <2>2, <2>3, <2>4, OffType DEF TypeOK
<1>5. Numbered /\ Queued /\ Saving /\ Single
  BY <1>1, <1>2, <1>3 DEF Numbered, Queued, Saving, Single, In
<1>6. Dialled /\ Refusal /\ Over /\ Kept
  BY <1>1, <1>2, <1>3 DEF Dialled, Refusal, Over, Kept
<1>7. Tracked
  BY <1>2 DEF Tracked, In, Off
<1> QED  BY <1>4, <1>5, <1>6, <1>7 DEF IInv

LEMMA IInvStep == ASSUME IInv, [Next]_vars PROVE IInv'
<1>1. TypeOK'
  BY TypeStep DEF IInv
<1>2. CASE UNCHANGED vars
  <2>1. UNCHANGED <<visits, open, page, saves, service, finish, line, intents, events, hist>>
    BY <1>2 DEF vars, pageVars, nativeVars
  <2>2. Numbered' /\ Queued' /\ Saving' /\ Single'
    BY <2>1 DEF IInv, Numbered, Queued, Saving, Single, Alone, Current
  <2>3. Dialled' /\ Refusal' /\ Over' /\ Kept'
    BY <2>1 DEF IInv, Dialled, Refusal, Over, Kept, Calm, Alone, Current
  <2>4. Tracked'
    BY <2>1 DEF IInv, Tracked, Calm, Alone, Current
  <2> QED  BY <1>1, <2>2, <2>3, <2>4 DEF IInv
<1>3. CASE Poll \/ MyCallEnds \/ OtherRings \/ OtherAnswered \/ OtherEnds
  BY <1>1, <1>3, HearsIInv
<1>4. CASE NoStart \/ FinishCall
  BY <1>1, <1>4, EndsIInv
<1>5. CASE HandleStart \/ HandleDial \/ HandleStop
  BY <1>1, <1>5, HandleStartIInv, HandleDialIInv, HandleStopIInv
<1>6. CASE TapPause \/ TapStop
  BY <1>1, <1>6, TapsIInv
<1>7. CASE Open \/ Leave
  BY <1>1, <1>7, OpenIInv, LeaveIInv
<1>8. CASE Start \/ Resume \/ Pause \/ Stop
  BY <1>1, <1>8, StartIInv, ResumeIInv, PauseStopIInv
<1>9. CASE \E v \in Visits : NextAnswered(v)
  BY <1>1, <1>9, NextAnsweredIInv
<1>10. CASE \E mode \in {"next", "pause", "stop"} : SaveOutcome(mode)
  BY <1>1, <1>10, SaveOutcomeIInv
<1>11. CASE SaveAnswered
  BY <1>1, <1>11, SaveAnsweredIInv
<1>12. CASE Deliver
  BY <1>1, <1>12, DeliverIInv
<1> QED  BY <1>2, <1>3, <1>4, <1>5, <1>6, <1>7, <1>8, <1>9, <1>10, <1>11, <1>12 DEF Next

(* The inductive invariant holds throughout.                               *)
THEOREM Invariance == Spec => []IInv
<1>1. Init => IInv
  BY InitIInv
<1>2. IInv /\ [Next]_vars => IInv'
  BY IInvStep
<1> QED  BY <1>1, <1>2, PTL DEF Spec

(* Every variable keeps its type, whatever the numbers and the bounds.     *)
THEOREM PhoneTypeCorrect == Spec => []TypeOK
<1>1. IInv => TypeOK
  BY DEF IInv
<1> QED  BY <1>1, Invariance, PTL

(* The outcome screen speaks of the call the page dialled last, once it is *)
(* over; after a page was left at work, at least of a call to its number:  *)
(* events match the page by number alone, and none is lost or sent twice.  *)
THEOREM OutcomesOfTheirCalls == Spec => []OutcomeOfThisCall
<1>1. IInv => OutcomeOfThisCall
  <2> SUFFICES ASSUME IInv, ~ hist.cut, NEW v \in 1..visits,
                      page[v].phase \in {"outcome", "saving"}
               PROVE  \/ page[v].ended[2] = page[v].dial /\ line.mine # page[v].dial
                      \/ page[v].ended[1] = page[v].num /\ (hist.left \/ hist.away)
    BY DEF OutcomeOfThisCall
  <2>1. v \in Visits
    BY PhoneAssumption DEF IInv, TypeOK, Visits
  <2> QED  BY <2>1 DEF IInv, Over, Saving, Calm, Alone
<1> QED  BY <1>1, Invariance, PTL

(* No page asks for the next number, pauses or stops with the outcome of a *)
(* call it placed unsaved, as long as no page was left while it loaded or  *)
(* saved and no Stop cut into a save.                                      *)
THEOREM CallsAreKept == Spec => []NoCallLost
<1>1. IInv => NoCallLost
  <2>1. ASSUME IInv, NEW v \in 1..visits PROVE v \in Visits
    BY <2>1, PhoneAssumption DEF IInv, TypeOK, Visits
  <2> QED  BY <2>1 DEF IInv, Kept, Alone, NoCallLost
<1> QED  BY <1>1, Invariance, PTL
=============================================================================
