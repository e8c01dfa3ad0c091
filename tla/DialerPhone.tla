---------------------------- MODULE DialerPhone ----------------------------
(***************************************************************************)
(* The phone's side of the auto dialer: the Power Dialer screen, the       *)
(* Android service that places its calls and watches them, and the phone   *)
(* line.  The screen asks the server for a number, has it dialled, waits   *)
(* for the call's end, has the agent (or the agent's PC) give the outcome, *)
(* saves it and goes on.  An agent may leave the screen and open it again: *)
(* that is a new page, but what the old one waits for still comes to it.   *)
(*                                                                         *)
(* Intents go to the service, events come back, each in order; events keep *)
(* while no page listens.  Abstracted: permissions and SIM lists but for   *)
(* what they refuse, the outcome itself (a PC's reply is a save), and the  *)
(* PC's hang-up, which is one way for a call to end.                       *)
(*                                                                         *)
(* Timing taken for granted: a working listener hears a change of the line *)
(* before anything else happens; a listener may hear nothing at all, as    *)
(* one did (DialerService.kt:61-65); the 20 s of NO_START_TIMEOUT_MS and a *)
(* second caller's ringing are longer than a poll; a call is on the line   *)
(* as soon as it is placed, or never is; the phone deals with its intents  *)
(* and its events, if a page is open for them, before its agent's next tap *)
(* or the server's next answer.                                            *)
(*                                                                         *)
(* Also taken for granted: once startForeground was refused, it is refused *)
(* for every dial until a later start goes through.  The code does not see *)
(* to that: a start and a dial each try on their own (DialerService.kt:148,*)
(* 155, 540).  Were the dial after a refused start allowed, the start's    *)
(* error would meet a page whose call is placed.  OutcomeOfThisCall and    *)
(* NoCallLost rest on it.                                                  *)
(* Sources: frontend/app/dialer/page.tsx, DialerService.kt and             *)
(* CallManagerPlugin.kt in frontend/android.                               *)
(***************************************************************************)
EXTENDS Naturals, Sequences, FiniteSets

CONSTANTS
  Numbers, None,
  MaxDials,      \* bound on the calls a page tries
  MaxExtras      \* bound on the times the screen is opened again, calls that
                 \* are not the dialer's and further requests under way, together

Dials == 1..MaxDials
Visits == 1..MaxExtras + 1

ASSUME PhoneAssumption ==
  /\ MaxDials \in Nat /\ MaxExtras \in Nat
  /\ None \notin Numbers

VARIABLES
  visits, open,  \* how often the screen was opened, whether it is now
  page,          \* each page: phaseRef, itemRef, afterCallRef, pendingRef
  nexts,         \* GET /dialer/next under way, by page
  saves,         \* POST /dialer/result under way
  service,       \* the fields of DialerService
  finish,        \* calls that finishCall has yet to report
  line,          \* the phone line: the dialer's call, and another
  intents, events,
  hist           \* history: the dials tried, placed and saved; whether a page
                 \* was left while it loaded or saved (left) or in a call
                 \* (away), or the notification's Stop cut into a save

pageVars == <<visits, open, page, nexts, saves>>
nativeVars == <<service, finish, line>>
vars == <<pageVars, nativeVars, intents, events, hist>>

(* dial numbers the calls pages try; ended is the event that brought the   *)
(* outcome screen.                                                         *)
NewPage == [phase |-> "idle", num |-> None, dial |-> 0, after |-> "continue",
            pending |-> FALSE, ended |-> <<None, 0>>]

Off == [running |-> FALSE, listening |-> "no", active |-> None, dial |-> 0,
        offhook |-> FALSE, timer |-> FALSE, last |-> "IDLE", barred |-> FALSE]

Init ==
  /\ visits = 0 /\ open = FALSE
  /\ page = [v \in Visits |-> NewPage]
  /\ nexts = [v \in Visits |-> 0]
  /\ saves = {}
  /\ service = Off /\ finish = {}
  /\ line = [mine |-> 0, other |-> "no", others |-> 0]
  /\ intents = <<>> /\ events = <<>>
  /\ hist = [dials |-> 0, placed |-> {}, saved |-> {},
             left |-> FALSE, away |-> FALSE, cut |-> FALSE]

Within(n) == visits + line.others + n <= MaxExtras

(* Nothing is on its way within the phone, but events that no page is open *)
(* for: what taps and answers wait for.                                    *)
Settled == intents = <<>> /\ (open => events = <<>>)

-----------------------------------------------------------------------------
(* The service.                                                            *)

Event(kind, num, dial) == [kind |-> kind, num |-> num, dial |-> dial]
Error == Event("error", None, 0)

InCall == line.mine # 0 \/ line.other # "no"

StateOf(l) ==
  IF l.other = "ring" THEN "RINGING"
  ELSE IF l.mine # 0 \/ l.other = "talk" THEN "OFFHOOK" ELSE "IDLE"

(* What the service s does on hearing of the state st, with the events ev  *)
(* already sent.  The end of its call is reported by finishCall.           *)
Begins(s, st) == s.active # None /\ st # s.last /\ st = "OFFHOOK"

Ends(s, st) == s.active # None /\ st = "IDLE" /\ s.last = "OFFHOOK"

OnCallState(s, st, ev) ==
  /\ service' = [s EXCEPT !.last = st,
                          !.offhook = @ \/ Begins(s, st),
                          !.timer = @ /\ ~ Begins(s, st),
                          !.active = IF Ends(s, st) THEN None ELSE @,
                          !.dial = IF Ends(s, st) THEN 0 ELSE @]
  /\ finish' = IF Ends(s, st) THEN finish \cup {<<s.active, s.dial>>} ELSE finish
  /\ events' = IF Begins(s, st) THEN Append(ev, Event("started", s.active, s.dial))
               ELSE ev

PollState == IF InCall THEN "OFFHOOK" ELSE "IDLE"

(* Mutated form: a listener that could be attached is trusted.             *)
PollDue_NoListener ==
  service.active # None /\ service.last # PollState /\ service.listening = "no"
PollDue == service.active # None /\ service.last # PollState

Poll ==
  /\ PollDue
  /\ OnCallState(service, PollState, events)
  /\ UNCHANGED <<pageVars, line, intents, hist>>

MissedStart == InCall

(* noStartTimeout                                                          *)
NoStart ==
  /\ service.timer /\ service.active # None /\ ~ service.offhook
  /\ ~ PollDue
  /\ \/ /\ MissedStart
        /\ OnCallState([service EXCEPT !.timer = FALSE], "OFFHOOK", events)
     \/ /\ ~ MissedStart
        /\ service' = [service EXCEPT !.timer = FALSE, !.active = None,
                                      !.dial = 0]
        /\ events' = Append(events, Event("ended", service.active,
                                          service.dial))
        /\ UNCHANGED finish
  /\ UNCHANGED <<pageVars, line, intents, hist>>

(* finishCall, CALL_LOG_DELAY_MS after the call or twice that.             *)
FinishCall ==
  /\ \E f \in finish :
       /\ finish' = finish \ {f}
       /\ events' = Append(events, Event("ended", f[1], f[2]))
  /\ UNCHANGED <<pageVars, service, line, intents, hist>>

Attached(s, ear) ==
  IF s.listening # "no" THEN s
  ELSE [s EXCEPT !.listening = ear, !.last = StateOf(line)]

(* attachCallStateListener finds a phone that tells it of changes or not.  *)
Started(s) ==
  {[Attached(s, ear) EXCEPT !.running = TRUE, !.barred = FALSE] :
     ear \in {"yes", "deaf"}}

(* goForeground fails, and does for dials until a start goes through (the  *)
(* header's assumption).                                                   *)
NotStarted == service' = [Off EXCEPT !.barred = TRUE]

HandleStart ==
  /\ intents # <<>> /\ Head(intents).kind = "start"
  /\ \/ service' \in Started(service) /\ UNCHANGED events
     \/ NotStarted /\ events' = Append(events, Error)
  /\ intents' = Tail(intents)
  /\ UNCHANGED <<pageVars, finish, line, hist>>

Refused == Append(events, Error)

(* A call in progress, a missing SIM or Android stands in the way.         *)
NotDialled(s) ==
  /\ service' \in {s, [s EXCEPT !.active = None, !.dial = 0]}
  /\ InCall => service' = s
  /\ events' = Refused
  /\ UNCHANGED <<finish, line, hist>>

(* The call is on the line, or Android took it and nothing comes of it.    *)
Placed(s, i) ==
  LET t == [s EXCEPT !.active = i.num, !.dial = i.dial,
                    !.offhook = FALSE, !.timer = TRUE]
  IN  /\ ~ InCall
      /\ hist' = [hist EXCEPT !.placed = @ \cup {i.dial}]
      /\ \/ /\ line' = [line EXCEPT !.mine = i.dial]
            /\ IF t.listening = "yes" THEN OnCallState(t, "OFFHOOK", events)
               ELSE service' = t /\ UNCHANGED <<finish, events>>
         \/ service' = t /\ UNCHANGED <<line, finish, events>>

HandleDial ==
  /\ intents # <<>> /\ Head(intents).kind = "dial"
  /\ \/ /\ ~ service.running
        /\ NotStarted /\ events' = Append(events, Error)
        /\ UNCHANGED <<finish, line, hist>>
     \/ /\ ~ service.barred
        /\ \E s \in Started(service) : NotDialled(s) \/ Placed(s, Head(intents))
  /\ intents' = Tail(intents)
  /\ UNCHANGED pageVars

HandleStop ==
  /\ intents # <<>> /\ Head(intents).kind = "stop"
  /\ service' = Off
  /\ intents' = Tail(intents)
  /\ UNCHANGED <<pageVars, finish, line, events, hist>>

(* The buttons of the notification; one pause is as good as many.          *)
TapPause ==
  /\ service.running /\ Settled
  /\ \A k \in DOMAIN events : events[k].kind # "pause"
  /\ events' = Append(events, Event("pause", None, 0))
  /\ UNCHANGED <<pageVars, nativeVars, intents, hist>>

TapStop ==
  /\ service.running /\ Settled
  /\ events' = Append(events, Event("stop", None, 0))
  /\ service' = Off
  /\ UNCHANGED <<pageVars, finish, line, intents, hist>>

-----------------------------------------------------------------------------
(* The line.                                                               *)

LineBecomes(l) ==
  /\ service.active = None \/ service.last # "RINGING"
  /\ line' = l
  /\ IF service.listening = "yes" THEN OnCallState(service, StateOf(l), events)
     ELSE UNCHANGED <<service, finish, events>>
  /\ UNCHANGED <<pageVars, intents, hist>>

MyCallEnds == line.mine # 0 /\ LineBecomes([line EXCEPT !.mine = 0])

OtherRings ==
  /\ line.other = "no" /\ visits > 0 /\ Within(0)
  /\ LineBecomes([line EXCEPT !.other = "ring", !.others = @ + 1])

OtherAnswered == line.other = "ring" /\ LineBecomes([line EXCEPT !.other = "talk"])
OtherEnds == line.other # "no" /\ LineBecomes([line EXCEPT !.other = "no"])

-----------------------------------------------------------------------------
(* The page.                                                               *)

ToService(kind, num, dial) ==
  intents' = Append(intents, [kind |-> kind, num |-> num, dial |-> dial])

(* stopDialerSession sends an intent to a service that runs.               *)
StopService ==
  IF service.running THEN ToService("stop", None, 0) ELSE UNCHANGED intents

(* page v becomes p and asks for the next number.                          *)
QueueNext(v, p) ==
  /\ nexts[v] = 0 \/ Within(nexts[v] - 1)
  /\ page' = [page EXCEPT ![v] = [p EXCEPT !.phase = "loading"]]
  /\ nexts' = [nexts EXCEPT ![v] = @ + 1]

StopSession(v, p) ==
  /\ page' = [page EXCEPT ![v] = [p EXCEPT !.phase = "stopped", !.after = "continue"]]
  /\ StopService

(* startCall is passed on, or rejected.                                    *)
DialItem(v, p, queue) ==
  LET d == hist.dials + 1
      q == [p EXCEPT !.dial = d, !.pending = FALSE, !.ended = <<None, 0>>,
                    !.phase = "dialing"]
  IN  /\ d \in Dials
      /\ hist' = [hist EXCEPT !.dials = d]
      /\ \/ /\ page' = [page EXCEPT ![v] = q]
            /\ intents' = Append(queue, [kind |-> "dial", num |-> p.num, dial |-> d])
         \/ /\ page' = [page EXCEPT ![v] = [q EXCEPT !.pending = TRUE, !.phase = "paused"]]
            /\ intents' = queue

Open ==
  /\ ~ open /\ Settled /\ Within(0)
  /\ visits' = visits + 1 /\ open' = TRUE
  /\ page' = [page EXCEPT ![visits + 1] = NewPage]
  /\ UNCHANGED <<nexts, saves, nativeVars, intents, events, hist>>

(* The effect's cleanup.  What the page waits for is not given up; a page  *)
(* that waits for nothing is gone.                                         *)
Leave ==
  LET p == page[visits]
  IN  /\ open /\ Settled /\ open' = FALSE
      /\ IF p.phase \in {"idle", "stopped", "empty"} THEN UNCHANGED intents
         ELSE StopService
      /\ hist' = [hist EXCEPT !.left = @ \/ p.phase \in {"loading", "saving"},
                             !.away = @ \/ p.phase \in {"dialing", "onCall"}]
      /\ page' = IF nexts[visits] > 0 \/ \E s \in saves : s.page = visits THEN page
                 ELSE [page EXCEPT ![visits] = NewPage]
      /\ UNCHANGED <<visits, nexts, saves, nativeVars, events>>

Start ==
  LET p == page[visits]
  IN  /\ open /\ Settled /\ p.phase \in {"idle", "stopped", "empty"}
      /\ ToService("start", None, 0)
      /\ QueueNext(visits, [p EXCEPT !.after = "continue"])
      /\ UNCHANGED <<visits, open, saves, nativeVars, events, hist>>

Resume ==
  LET p == page[visits]
      started == Append(intents, [kind |-> "start", num |-> None, dial |-> 0])
  IN  /\ open /\ Settled /\ p.phase = "paused"
      /\ \/ /\ p.pending /\ p.num # None
            /\ DialItem(visits, p, started)
            /\ UNCHANGED nexts
         \/ /\ ~ (p.pending /\ p.num # None)
            /\ intents' = started
            /\ QueueNext(visits, p)
            /\ UNCHANGED hist
      /\ UNCHANGED <<visits, open, saves, nativeVars, events>>

Pause ==
  LET p == page[visits]
  IN  /\ open /\ Settled /\ p.phase \in {"dialing", "onCall"} /\ p.after = "continue"
      /\ page' = [page EXCEPT ![visits].after = "pause"]
      /\ UNCHANGED <<visits, open, nexts, saves, nativeVars, intents, events, hist>>

(* Mutated form: on the outcome screen too, Stop is at once.               *)
StopWaits_Call(p) == p.phase \in {"dialing", "onCall"}
StopWaits(p) == p.phase \in {"dialing", "onCall", "outcome", "saving"}

Stop ==
  LET p == page[visits]
  IN  /\ open /\ Settled /\ p.phase \notin {"idle", "stopped", "empty"}
      /\ \/ /\ StopWaits(p)
            /\ page' = [page EXCEPT ![visits].after = "stop"]
            /\ UNCHANGED intents
         \/ ~ StopWaits(p) /\ StopSession(visits, p)
      /\ UNCHANGED <<visits, open, nexts, saves, nativeVars, events, hist>>

NextAnswered(v) ==
  LET p == page[v]
  IN  /\ nexts[v] > 0 /\ Settled
      /\ nexts' = [nexts EXCEPT ![v] = @ - 1]
      /\ \/ p.phase # "loading" /\ UNCHANGED <<page, intents, hist>>
         \/ /\ p.phase = "loading"
            /\ page' = [page EXCEPT ![v].phase = "paused"]
            /\ UNCHANGED <<intents, hist>>
         \/ /\ p.phase = "loading"
            /\ page' = [page EXCEPT ![v].phase = "empty", ![v].num = None]
            /\ StopService
            /\ UNCHANGED hist
         \/ /\ p.phase = "loading"
            /\ \E n \in Numbers : DialItem(v, [p EXCEPT !.num = n], intents)
      /\ UNCHANGED <<visits, open, saves, nativeVars, events>>

(* The agent's tap, or the reply found on the PC; afterCall goes before    *)
(* what either asks for next.                                              *)
SaveOutcome(mode) ==
  LET p == page[visits]
  IN  /\ open /\ Settled /\ p.phase = "outcome"
      /\ p.after # "continue" => mode = "next"
      /\ page' = [page EXCEPT ![visits].phase = "saving"]
      /\ saves' = saves \cup {[page |-> visits, dial |-> p.dial, mode |-> mode]}
      /\ UNCHANGED <<visits, open, nexts, nativeVars, intents, events, hist>>

(* The server saved it or not; the page goes on only if it hears it did.   *)
SaveAnswered ==
  \E s \in saves, saved, heard \in BOOLEAN :
    LET p == page[s.page]
        q == [p EXCEPT !.after = "continue", !.pending = FALSE]
        then == IF p.after # "continue" THEN p.after ELSE s.mode
    IN  /\ Settled /\ (heard => saved)
        /\ saves' = saves \ {s}
        /\ hist' = [hist EXCEPT !.saved = IF saved THEN @ \cup {s.dial} ELSE @]
        /\ \/ /\ ~ heard
              /\ page' = [page EXCEPT ![s.page].phase = "outcome"]
              /\ UNCHANGED <<nexts, intents>>
           \/ heard /\ then = "stop" /\ StopSession(s.page, q) /\ UNCHANGED nexts
           \/ /\ heard /\ then = "pause"
              /\ page' = [page EXCEPT ![s.page] = [q EXCEPT !.phase = "paused"]]
              /\ UNCHANGED <<nexts, intents>>
           \/ heard /\ then = "next" /\ QueueNext(s.page, q) /\ UNCHANGED intents
        /\ UNCHANGED <<visits, open, nativeVars, events>>

-----------------------------------------------------------------------------
(* What the page does with an event.                                       *)

Waiting(p) == p.phase \in {"dialing", "onCall"}

OnStarted(p, e) ==
  IF p.phase = "dialing" /\ e.num = p.num THEN [p EXCEPT !.phase = "onCall"] ELSE p

(* Mutated form: any call's end ends the call on the page.                 *)
IsCurrent_Any(p, e) == TRUE
IsCurrent(p, e) == e.num = p.num

(* A call that went out on the wrong SIM makes the page pause.             *)
OnEnded(p, e) ==
  IF ~ (Waiting(p) /\ IsCurrent(p, e)) THEN {p}
  ELSE {[p EXCEPT !.phase = "outcome", !.ended = <<e.num, e.dial>>, !.after = a] :
        a \in {p.after, "pause"}}

OnError(p) ==
  [p EXCEPT !.pending = @ \/ p.phase = "dialing",
            !.phase = IF @ \in {"dialing", "loading"} THEN "paused" ELSE @]

StopEvent(p) ==
  \/ /\ Waiting(p) \/ p.phase = "outcome"
     /\ page' = [page EXCEPT ![visits].after = "stop"]
     /\ UNCHANGED <<intents, hist>>
  \/ /\ ~ (Waiting(p) \/ p.phase = "outcome")
     /\ StopSession(visits, p)
     /\ hist' = [hist EXCEPT !.cut = @ \/ p.phase = "saving"]

Deliver ==
  LET p == page[visits]
      e == Head(events)
  IN  /\ open /\ events # <<>>
      /\ events' = Tail(events)
      /\ \/ /\ e.kind # "stop"
            /\ \/ e.kind = "started" /\ page' = [page EXCEPT ![visits] = OnStarted(p, e)]
               \/ /\ e.kind = "ended"
                  /\ \E q \in OnEnded(p, e) : page' = [page EXCEPT ![visits] = q]
               \/ e.kind = "error" /\ page' = [page EXCEPT ![visits] = OnError(p)]
               \/ e.kind = "pause" /\ page' = [page EXCEPT ![visits].after = "pause"]
            /\ UNCHANGED <<intents, hist>>
         \/ e.kind = "stop" /\ StopEvent(p)
      /\ UNCHANGED <<visits, open, nexts, saves, nativeVars>>

-----------------------------------------------------------------------------
Next ==
  \/ Poll \/ NoStart \/ FinishCall
  \/ HandleStart \/ HandleDial \/ HandleStop \/ TapPause \/ TapStop
  \/ MyCallEnds \/ OtherRings \/ OtherAnswered \/ OtherEnds
  \/ Open \/ Leave \/ Start \/ Resume \/ Pause \/ Stop
  \/ \E v \in Visits : NextAnswered(v)
  \/ \E mode \in {"next", "pause", "stop"} : SaveOutcome(mode)
  \/ SaveAnswered \/ Deliver

Spec == Init /\ [][Next]_vars

(* The service's timers and intents run, its events reach an open page,    *)
(* and calls end.  The agent need do nothing, nor the server answer.       *)
Fairness ==
  /\ WF_vars(Poll) /\ WF_vars(NoStart) /\ WF_vars(FinishCall)
  /\ WF_vars(HandleStart \/ HandleDial \/ HandleStop)
  /\ WF_vars(MyCallEnds) /\ WF_vars(OtherEnds)
  /\ WF_vars(Deliver)

FairSpec == Spec /\ Fairness

-----------------------------------------------------------------------------
(* The outcome asked for is of the call the page dialled last, and that    *)
(* call is over.  Once a page was left while it loaded, saved or waited    *)
(* for a call, the call reported is to the same number at least, but may   *)
(* be an earlier one (isCurrent compares the number alone; the stale       *)
(* events of page.tsx:242-256, NO_START_TIMEOUT_MS and the retry of        *)
(* finishCall).  Not once the notification's Stop cut into a save: then an *)
(* outcome may be asked for under the wrong customer.                      *)
OutcomeOfThisCall ==
  \A v \in 1..visits :
    LET p == page[v]
    IN  p.phase \in {"outcome", "saving"} /\ ~ hist.cut =>
          \/ p.ended[2] = p.dial /\ line.mine # p.dial
          \/ p.ended[1] = p.num /\ (hist.left \/ hist.away)

(* A page leaves a customer it has called only with the outcome saved      *)
(* ("still save this call's outcome first", page.tsx:374; "so nothing is   *)
(* lost", 414), unless a page was left while it loaded or saved, or the    *)
(* notification's Stop came while it saved: what they wait for then runs   *)
(* beside the next call.                                                   *)
NoCallLost ==
  \A v \in 1..visits :
    LET p == page[v]
    IN  /\ p.phase \in {"loading", "paused", "stopped", "empty"}
        /\ p.dial \in hist.placed
        /\ ~ hist.left /\ ~ hist.cut
        => p.dial \in hist.saved

Calling == open /\ Waiting(page[visits])

(* A page that waits for its call hears of the end of it, whatever the     *)
(* listener hears and whether or not the call starts (the poll and the     *)
(* timeout of DialerService.kt:56-66); unless the session was stopped      *)
(* under it, or a page that was left dialled another number.               *)
CallsAreReported ==
  Calling ~> ~ Calling \/ (~ service.running /\ Settled) \/ hist.left \/ hist.cut

(* A call's page comes to its outcome or gives it up, as one that says it  *)
(* "Will stop after this call." (page.tsx:619) must.                       *)
CallsEnd == Calling ~> ~ Calling
=============================================================================
