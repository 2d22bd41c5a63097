------------------------------ MODULE Scanner ------------------------------
(***************************************************************************)
(* One steward's device at a gate: the event it admits to, its camera, the *)
(* scans and undos it has under way, and the count of admissions it shows, *)
(* with the gate API and the other gates behind it.                        *)
(*                                                                         *)
(* A session number only ever tells whether a start of the camera is the   *)
(* latest thing done to it, so it is modelled as the start that is current.*)
(* A stream bears the name of the start it was granted to.  A mutation's   *)
(* own callbacks run only for the latest call that was not reset.          *)
(***************************************************************************)
EXTENDS Naturals, FiniteSets

CONSTANTS Tickets, Events,
          EventOf,      \* the event each ticket is for
          NoEvent,      \* no event chosen at this gate
          Garbage,      \* codes no ticket has
          Presses,      \* presses of "Start camera" whose effects last at once
          NoStart,
          Scans,        \* scan requests under way at once
          NoScan,
          IsAdmin       \* whether the steward may undo an admission

ASSUME ScannerAssumption ==
    /\ IsFiniteSet(Tickets) /\ EventOf \in [Tickets -> Events] /\ NoEvent \notin Events
    /\ NoStart \notin [press: Presses, event: Events \cup {NoEvent}] /\ NoScan \notin Scans /\ IsAdmin \in BOOLEAN

VARIABLES
    ticket,     \* tickets.status
    eventId,    \* the event chosen, kept in local storage
    outcome,    \* the card on screen
    camera,     \* CameraState
    current,    \* sessionRef: the start that is still wanted
    prompting, playing,     \* starts that await getUserMedia, or play()
    live,       \* streams whose tracks run: the camera light is on
    streamRef, loops, loopRef,
    detecting,  \* busyRef, and what detect() is about to resolve with
    scan, watched, undo, undoWatched,
    shown,      \* cached admissions of each event
    poll        \* the refetch of each event's count

cameraVars == <<camera, current, prompting, playing, live, streamRef, loops, loopRef>>
scanVars == <<scan, watched, undo, undoWatched>>
countVars == <<shown, poll>>
deviceVars == <<ticket, eventId, outcome, cameraVars, detecting, scanVars, countVars>>

Codes == Tickets \cup Garbage
TicketStatus == {"ISSUED", "USED", "CANCELLED"}
Verdicts == {"admitted", "already", "refused"}
Card == [kind: Verdicts \cup {"none", "undone"}, of: Codes \cup {"nothing"},
         checked: Events \cup {NoEvent}]
NoCard == [kind |-> "none", of |-> "nothing", checked |-> NoEvent]
CameraKind == {"idle", "running", "failed"}
\* A start submits with the event of the closure it was pressed in.
Start == [press: Presses, event: Events \cup {NoEvent}]
Counts == 0 .. Cardinality(Tickets)

NoRequest == [at |-> "none"]
ScanInput == [at: {"sent"}, of: Codes, event: Events]
ScanAnswer == [at: {"answered"}, of: Codes, event: Events,
               result: Verdicts, count: Counts]
Undoing == [at: {"sent"}, of: Codes]
Undone == [at: {"answered"}, of: Codes, done: BOOLEAN, count: Counts]
Poll == [at: {"sent"}] \cup [at: {"answered"}, count: Counts]
NoDetect == [by |-> NoStart]

\* What the device shows and has asked for has its type: a stream that is held is
\* live, and no count of admissions is below none or above all of the tickets.
DeviceTypeOK ==
    /\ ticket \in [Tickets -> TicketStatus]
    /\ eventId \in Events \cup {NoEvent}
    /\ outcome \in Card
    /\ camera \in CameraKind
    /\ {current, streamRef, loopRef} \subseteq Start \cup {NoStart}
    /\ prompting \cup playing \cup live \cup loops \subseteq Start
    /\ detecting \in {NoDetect} \cup [by: Start, code: Codes]
    /\ scan \in [Scans -> {NoRequest} \cup ScanInput \cup ScanAnswer]
    /\ watched \in Scans \cup {NoScan}
    /\ undo \in {NoRequest} \cup Undoing \cup Undone /\ undoWatched \in BOOLEAN
    /\ shown \in [Events -> Counts]
    /\ poll \in [Events -> {NoRequest} \cup Poll]
    /\ streamRef # NoStart => streamRef \in live

DeviceInit ==
    /\ ticket = [t \in Tickets |-> "ISSUED"]
    /\ eventId \in Events \cup {NoEvent}
    /\ outcome = NoCard
    /\ camera = "idle" /\ current = NoStart
    /\ prompting = {} /\ playing = {}
    /\ live = {} /\ streamRef = NoStart /\ loops = {} /\ loopRef = NoStart
    /\ detecting = NoDetect
    /\ scan = [i \in Scans |-> NoRequest] /\ watched = NoScan
    /\ undo = NoRequest /\ undoWatched = FALSE
    /\ shown = [e \in Events |-> 0] /\ poll = [e \in Events |-> NoRequest]

-----------------------------------------------------------------------------
(* The gate API                                                             *)

Admitted(e) == Cardinality({t \in Tickets : EventOf[t] = e /\ ticket[t] = "USED"})

\* The decision on a code scanned at a gate of event e.  A wrong event, a ticket
\* cancelled or unknown, a closed event and an error only differ in wording.
Verdict(c, e) ==
    IF c \notin Tickets \/ EventOf[c] # e \/ ticket[c] = "CANCELLED" THEN "refused"
    ELSE IF ticket[c] = "USED" THEN "already" ELSE "admitted"

AnswerTo(i, result, count) ==
    scan' = [scan EXCEPT ![i] = [at |-> "answered", of |-> @.of, event |-> @.event,
                                 result |-> result, count |-> count]]

\* The scan is decided; its answer arrives, or is lost on the way back.
DecideScan(i) ==
    /\ scan[i].at = "sent"
    /\ LET c == scan[i].of
           verdict == Verdict(c, scan[i].event)
       IN /\ ticket' = IF verdict = "admitted" THEN [ticket EXCEPT ![c] = "USED"] ELSE ticket
          /\ \/ AnswerTo(i, verdict, Admitted(scan[i].event)
                                      + IF verdict = "admitted" THEN 1 ELSE 0)
             \/ AnswerTo(i, "refused", 0)
    /\ UNCHANGED <<eventId, outcome, cameraVars, detecting, watched, undo, undoWatched, countVars>>

\* The scan never gets through, or the event is not admitting.
ScanLost(i) ==
    /\ scan[i].at = "sent"
    /\ AnswerTo(i, "refused", 0)
    /\ UNCHANGED <<ticket, eventId, outcome, cameraVars, detecting, watched, undo,
                   undoWatched, countVars>>

Unadmit ==
    /\ undo.at = "sent"
    /\ LET t == undo.of
           found == ticket[t] = "USED"
       IN /\ ticket' = IF found THEN [ticket EXCEPT ![t] = "ISSUED"] ELSE ticket
          /\ \E arrives \in BOOLEAN :
                undo' = [at |-> "answered", of |-> t, done |-> found /\ arrives,
                         count |-> IF found /\ arrives THEN Admitted(EventOf[t]) - 1 ELSE 0]
    /\ UNCHANGED <<eventId, outcome, cameraVars, detecting, scan, watched, undoWatched, countVars>>

ReadAdmissions(e) ==
    /\ poll[e].at = "sent"
    /\ poll' = [poll EXCEPT ![e] = [at |-> "answered", count |-> Admitted(e)]]
    /\ UNCHANGED <<ticket, eventId, outcome, cameraVars, detecting, scanVars, shown>>

RefetchFails(e) ==
    /\ poll[e].at = "sent"
    /\ poll' = [poll EXCEPT ![e] = NoRequest]
    /\ UNCHANGED <<ticket, eventId, outcome, cameraVars, detecting, scanVars, shown>>

\* Other gates, other administrators, an order that is voided.
OtherGates ==
    /\ \E t \in Tickets :
          \/ ticket[t] = "ISSUED" /\ ticket' = [ticket EXCEPT ![t] = "USED"]
          \/ ticket[t] = "ISSUED" /\ ticket' = [ticket EXCEPT ![t] = "CANCELLED"]
          \/ ticket[t] = "USED" /\ ticket' = [ticket EXCEPT ![t] = "ISSUED"]
    /\ UNCHANGED <<eventId, outcome, cameraVars, detecting, scanVars, countVars>>

-----------------------------------------------------------------------------
(* The camera                                                               *)

\* Faulty variant: the light goes out, but the session is not bumped.
StopTracksOnly ==
    /\ UNCHANGED current
    /\ loops' = loops \ {loopRef} /\ loopRef' = NoStart
    /\ live' = live \ {streamRef} /\ streamRef' = NoStart
    /\ camera' = IF camera = "running" THEN "idle" ELSE camera

StopCamera ==
    /\ current' = NoStart
    /\ loops' = loops \ {loopRef} /\ loopRef' = NoStart
    /\ live' = live \ {streamRef} /\ streamRef' = NoStart
    /\ camera' = IF camera = "running" THEN "idle" ELSE camera

PressStop ==
    /\ camera = "running"
    /\ StopCamera
    /\ UNCHANGED <<ticket, eventId, outcome, prompting, playing, detecting, scanVars, countVars>>

InUse == prompting \cup playing \cup live \cup loops \cup {detecting.by}

\* The button shows whenever the camera is not known to run.
StartCamera(p) ==
    LET s == [press |-> p, event |-> eventId]
    IN /\ camera # "running"
       /\ \A u \in InUse \ {NoStart} : u.press # p
       /\ current' = s /\ prompting' = prompting \cup {s}
       /\ UNCHANGED <<ticket, eventId, outcome, camera, playing, live, streamRef, loops, loopRef,
                      detecting, scanVars, countVars>>

\* The permission prompt is answered, perhaps long after it was last wanted.
StreamGranted(s) ==
    /\ s \in prompting
    /\ prompting' = prompting \ {s}
    /\ \/ /\ current = s
          /\ streamRef' = s /\ live' = live \cup {s} /\ playing' = playing \cup {s}
       \/ /\ current # s
          /\ UNCHANGED <<streamRef, live, playing>>
    /\ UNCHANGED <<ticket, eventId, outcome, camera, current, loops, loopRef, detecting,
                   scanVars, countVars>>

\* No secure origin, no detector of QR codes, no permission, or no frames.
CameraFails(s) ==
    /\ s \in prompting \cup playing
    /\ prompting' = prompting \ {s} /\ playing' = playing \ {s}
    /\ camera' = "failed"
    /\ UNCHANGED <<ticket, eventId, outcome, current, live, streamRef, loops, loopRef, detecting,
                   scanVars, countVars>>

\* play() resolves, and the frames are read from now on.
Running(s) ==
    /\ s \in playing
    /\ playing' = playing \ {s}
    /\ camera' = "running"
    /\ loops' = loops \cup {s} /\ loopRef' = s
    /\ UNCHANGED <<ticket, eventId, outcome, current, prompting, live, streamRef, detecting,
                   scanVars, countVars>>

\* A tick asks for the next frame, and looks for a code if nobody does already.
Tick(s) ==
    /\ s \in loops
    /\ loopRef' = s
    /\ \/ loopRef # s /\ UNCHANGED detecting
       \/ /\ detecting = NoDetect /\ streamRef # NoStart
          /\ \E c \in Codes : detecting' = [by |-> s, code |-> c]
    /\ UNCHANGED <<ticket, eventId, outcome, camera, current, prompting, playing, live,
                   streamRef, loops, scanVars, countVars>>

-----------------------------------------------------------------------------
(* Scans                                                                    *)

SubmitCode(c, e) ==
    \E i \in Scans :
        /\ scan[i] = NoRequest
        /\ scan' = [scan EXCEPT ![i] = [at |-> "sent", of |-> c, event |-> e]]
        /\ watched' = i
        /\ undoWatched' = FALSE
        /\ UNCHANGED undo

PasteAndVerify(c) ==
    /\ eventId # NoEvent
    /\ SubmitCode(c, eventId)
    /\ UNCHANGED <<ticket, eventId, outcome, cameraVars, detecting, countVars>>

\* detect() resolves with a code; the first hit stops the camera.
Detected ==
    /\ detecting # NoDetect
    /\ detecting' = NoDetect
    /\ \/ /\ current = detecting.by
          /\ StopCamera
          /\ IF detecting.by.event # NoEvent
             THEN SubmitCode(detecting.code, detecting.by.event)
             ELSE UNCHANGED scanVars
       \/ /\ current # detecting.by
          /\ UNCHANGED <<camera, current, live, streamRef, loops, loopRef, scanVars>>
    /\ UNCHANGED <<ticket, eventId, outcome, prompting, playing, countVars>>

\* setQueryData(admissionsKey(...)), whatever a poll under way will say.
CountFrom(e, n) == [shown EXCEPT ![e] = n]

ScanAnswered(i) ==
    /\ scan[i].at = "answered"
    /\ LET a == scan[i]
       IN /\ shown' = IF a.result = "admitted" THEN CountFrom(a.event, a.count) ELSE shown
          /\ outcome' = IF watched = i
                        THEN [kind |-> a.result, of |-> a.of, checked |-> a.event]
                        ELSE outcome
    /\ watched' = IF watched = i THEN NoScan ELSE watched
    /\ scan' = [scan EXCEPT ![i] = NoRequest]
    /\ UNCHANGED <<ticket, eventId, cameraVars, detecting, undo, undoWatched, poll>>

-----------------------------------------------------------------------------
(* Undoing an admission                                                     *)

\* The ticket the card on screen lets an administrator reopen.
Undoable == IsAdmin /\ outcome.kind \in {"admitted", "already"}

UndoAdmission ==
    /\ Undoable
    /\ undo = NoRequest
    /\ undo' = [at |-> "sent", of |-> outcome.of] /\ undoWatched' = TRUE
    /\ UNCHANGED <<ticket, eventId, outcome, cameraVars, detecting, scan, watched, countVars>>

UndoAnswered ==
    /\ undo.at = "answered"
    /\ LET e == EventOf[undo.of]
       IN /\ shown' = IF undo.done THEN CountFrom(e, undo.count) ELSE shown
          /\ outcome' = IF undo.done /\ undoWatched
                        THEN [kind |-> "undone", of |-> undo.of, checked |-> e]
                        ELSE outcome
    /\ undo' = NoRequest /\ undoWatched' = FALSE
    /\ UNCHANGED <<ticket, eventId, cameraVars, detecting, scan, watched, poll>>

-----------------------------------------------------------------------------
(* The event at this gate, the count, leaving the page                      *)

ChooseEvent(e) ==
    /\ eventId' = e
    /\ StopCamera
    /\ outcome' = NoCard
    /\ undoWatched' = FALSE
    /\ UNCHANGED <<ticket, prompting, playing, detecting, scan, watched, undo, countVars>>

\* Faulty variant: the count is read once, and not polled.
RefetchOnce(e) ==
    /\ eventId = e /\ poll[e] = NoRequest /\ shown[e] = 0
    /\ poll' = [poll EXCEPT ![e] = [at |-> "sent"]]
    /\ UNCHANGED <<ticket, eventId, outcome, cameraVars, detecting, scanVars, shown>>

\* Every 15 seconds while the event is shown (bound: one poll is under way at once;
\* those of two events write nothing in common).
Refetch(e) ==
    /\ eventId = e /\ \A f \in Events : poll[f] = NoRequest
    /\ poll' = [poll EXCEPT ![e] = [at |-> "sent"]]
    /\ UNCHANGED <<ticket, eventId, outcome, cameraVars, detecting, scanVars, shown>>

AdmissionsFetched(e) ==
    /\ poll[e].at = "answered"
    /\ shown' = [shown EXCEPT ![e] = poll[e].count]
    /\ poll' = [poll EXCEPT ![e] = NoRequest]
    /\ UNCHANGED <<ticket, eventId, outcome, cameraVars, detecting, scanVars>>

\* The page is left and entered again: its state is new, a start under way finds
\* its session over and hangs up, and what was sent is answered to nobody.  The
\* event comes back from local storage, unless that is blocked.
Leave ==
    /\ current' = NoStart /\ camera' = "idle"
    /\ live' = live \ {streamRef} /\ streamRef' = NoStart
    /\ loops' = {} /\ loopRef' = NoStart
    /\ prompting' = {} /\ playing' = {}
    /\ detecting' = NoDetect
    /\ watched' = NoScan /\ undoWatched' = FALSE
    /\ outcome' = NoCard
    /\ eventId' \in {eventId, NoEvent}
    /\ UNCHANGED <<ticket, scan, undo, countVars>>

-----------------------------------------------------------------------------
CameraStep(s) ==
    \/ StreamGranted(s) \/ CameraFails(s)
    \/ Running(s) \/ Tick(s)

CountStep(e) == Refetch(e) \/ ReadAdmissions(e) \/ RefetchFails(e) \/ AdmissionsFetched(e)

DeviceNext ==
    \/ \E p \in Presses : StartCamera(p)
    \/ \E s \in Start : CameraStep(s)
    \/ \E c \in Codes : PasteAndVerify(c)
    \/ \E i \in Scans : DecideScan(i) \/ ScanLost(i) \/ ScanAnswered(i)
    \/ \E e \in Events : CountStep(e)
    \/ \E e \in Events \cup {NoEvent} : ChooseEvent(e)
    \/ PressStop \/ Detected \/ UndoAdmission \/ Unadmit \/ UndoAnswered
    \/ OtherGates \/ Leave

DeviceSpec == DeviceInit /\ [][DeviceNext]_deviceVars

\* The interval timer runs while the page shows an event, and a request that is
\* sent again and again gets through in the end.
DeviceFairSpec ==
    /\ DeviceSpec
    /\ WF_deviceVars(\E e \in Events : Refetch(e) \/ AdmissionsFetched(e))
    /\ SF_deviceVars(\E e \in Events : ReadAdmissions(e))

-----------------------------------------------------------------------------
(* A code the camera reads is checked against the event chosen now, however *)
(* long detect() took and whatever was pressed meanwhile (ticket-scanner.tsx, *)
(* tick and chooseEvent).                                                   *)
CameraScansThisGate ==
    [][\A i \in Scans :
          /\ detecting # NoDetect /\ detecting' = NoDetect
          /\ scan[i] = NoRequest /\ scan'[i] # NoRequest
          => scan'[i].event = eventId']_deviceVars

(* Once the admissions rest and an event stays chosen, the screen comes to  *)
(* show the count of every gate, whatever this device's own answers and the *)
(* polls under way wrote over each other (useGate.ts, useAdmissions).        *)
CountSettles ==
    <>[][UNCHANGED <<ticket, eventId>>]_deviceVars
    => <>[](eventId # NoEvent => shown[eventId] = Admitted(eventId))

(* A running stream can still be stopped: it is the one streamRef holds     *)
(* ("a camera light that never goes out is the classic bug here").          *)
CameraGoesOut == live \subseteq {streamRef}

(* A verdict on screen is a verdict for the event chosen ("a clean slate:    *)
(* nothing on screen was checked against it").                              *)
ShownForThisGate == outcome.checked \in {eventId, NoEvent}
=============================================================================
