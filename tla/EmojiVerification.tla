-------------------------- MODULE EmojiVerification --------------------------
(***************************************************************************)
(* The SAS verification driver of matrix_sdk/examples/emoji_verification.rs*)
(*                                                                         *)
(* One task runs the sync loop: each sync response is first applied to the*)
(* crypto machine (outside src/: the SAS objects change state there), then *)
(* the callback walks its to-device events and, unless this is the first  *)
(* sync, its room events, one handler at a time, and clears `initial`.    *)
(* A key event spawns a wait_for_confirmation task that prints the emoji, *)
(* blocks on one line of stdin and confirms or cancels; tasks and the     *)
(* callback interleave at their awaits.  The peer device, the user at the *)
(* terminal and the homeserver are the environment.  A SAS is abstracted *)
(* to the flags is_done and the handlers read.                            *)
(***************************************************************************)
EXTENDS Integers, Sequences, SequencesExt, FiniteSets

CONSTANTS
    Verifs,      \* verification flows peers start with us
    Foreign,     \* flows of other users, or of earlier sessions
    ForeignRoomKinds, \* which of their room events we may see
    SendFailures, \* which of accept, confirm and cancel may fail to send
    None         \* model value

VARIABLES
    channel,     \* to-device or in-room, per flow
    peer,        \* how far the peer device has got in its flow
    inbox,       \* events the homeserver holds for the next sync
    sas,         \* the SAS object the machine keeps per flow
    requested,   \* flows with an in-room request object in the machine
    initial,     \* initial_sync: AtomicBool
    phase,       \* main, login, then where the sync loop is: idle, to-device
                 \* or room events; exited once main has returned
    cbToDevice,  \* to-device events of the response the callback is on
    cbRoom,      \* room events of that response
    task,        \* the wait_for_confirmation task of each flow
    stdin,       \* lines typed and not yet read
    answers,     \* what the user typed for each flow's emoji
    reports,     \* "Successfully verified" lines printed per flow
    panicked,    \* a panic in the sync callback ended the program
    foreignSent  \* foreign events delivered so far

vars == <<channel, peer, inbox, sas, requested, initial, phase, cbToDevice,
          cbRoom, task, stdin, answers, reports, panicked, foreignSent>>

-----------------------------------------------------------------------------

Channels == {"ToDevice", "InRoom"}
Kinds == {"Start", "Request", "Key", "Mac"}
Event(k, v) == [kind |-> k, v |-> v]
NoSas == [exists |-> FALSE, accepted |-> FALSE, confirmed |-> FALSE,
          theirMac |-> FALSE, cancelled |-> FALSE]
TaskStates == {"none", "spawned", "reading", "confirming", "finished", "failed"}

(* sas.is_done(): our confirmation and the peer's MAC are both in *)
IsDone(v) == sas[v].confirmed /\ sas[v].theirMac /\ ~sas[v].cancelled

(* client.get_verification(...) returns Some(Verification::SasV1(sas)) *)
HasSas(v) == v \in Verifs /\ sas[v].exists

(* print_result(&sas) *)
PrintResult(v) == reports' = [reports EXCEPT ![v] = @ + 1]

Running == ~panicked /\ phase # "exited"

(* Mutant: the MAC arm prints without asking sas.is_done() *)
OnMacWithoutDoneCheck(v) == PrintResult(v)

(* The MAC arms: if sas.is_done() { print_result(&sas) } *)
OnMac(v) == IF IsDone(v) THEN PrintResult(v) ELSE UNCHANGED reports

(* sas.accept().await.unwrap() and request.accept().await.expect(..) in *)
(* the callback: the accept is sent and the SAS moves on, or the send    *)
(* fails and the unwrap panics the sync loop.                            *)
AcceptOrPanic(sasAfter) ==
    \/ /\ sas' = sasAfter
       /\ UNCHANGED panicked
    \/ /\ "accept" \in SendFailures
       /\ panicked' = TRUE
       /\ UNCHANGED sas

-----------------------------------------------------------------------------

Init ==
    /\ channel \in [Verifs -> Channels]
    /\ peer = [v \in Verifs |-> 0]
    /\ inbox = [toDevice |-> <<>>, room |-> <<>>]
    /\ sas = [v \in Verifs |-> NoSas]
    /\ requested = {}
    /\ initial = TRUE
    /\ phase = "main"
    /\ cbToDevice = <<>>
    /\ cbRoom = <<>>
    /\ task = [v \in Verifs |-> "none"]
    /\ stdin = <<>>
    /\ answers = [v \in Verifs |-> None]
    /\ reports = [v \in Verifs |-> 0]
    /\ panicked = FALSE
    /\ foreignSent = {}

(* main: with three arguments it calls login, otherwise it prints the  *)
(* usage line and exit(1)s.                                           *)
Main(hasArgs) ==
    /\ phase = "main"
    /\ phase' = IF hasArgs THEN "login" ELSE "exited"
    /\ UNCHANGED <<channel, peer, inbox, sas, requested, initial, cbToDevice, cbRoom,
                   task, stdin, answers, reports, panicked, foreignSent>>

(* How login's first steps can end: Url::parse(..).expect and            *)
(* Client::new(..).unwrap() panic on a bad URL, client.login(..)? returns *)
(* the error from main; either way the program ends before any sync.     *)
LoginOutcomes == {"LoggedIn", "BadUrl", "LoginError"}

(* login: parse the URL, build the client, log in, then create        *)
(* initial_sync = true and enter sync_with_callback.                   *)
Login(outcome) ==
    /\ phase = "login"
    /\ phase' = IF outcome = "LoggedIn" THEN "idle" ELSE "exited"
    /\ UNCHANGED <<channel, peer, inbox, sas, requested, initial, cbToDevice, cbRoom,
                   task, stdin, answers, reports, panicked, foreignSent>>

(* Environment: the peer sends the next event of its flow on its channel: *)
(* start (or an in-room request), its key once we accepted, then its MAC. *)
Post(v, k) ==
    inbox' = IF channel[v] = "ToDevice"
             THEN [inbox EXCEPT !.toDevice = Append(@, Event(k, v))]
             ELSE [inbox EXCEPT !.room = Append(@, Event(k, v))]

PeerSend(v) ==
    /\ \/ peer[v] = 0 /\ Post(v, IF channel[v] = "ToDevice" THEN "Start" ELSE "Request")
       \/ peer[v] = 1 /\ sas[v].accepted /\ Post(v, "Key")
       \/ peer[v] = 2 /\ Post(v, "Mac")
    /\ peer' = [peer EXCEPT ![v] = @ + 1]
    /\ UNCHANGED <<channel, sas, requested, initial, phase, cbToDevice, cbRoom,
                   task, stdin, answers, reports, panicked, foreignSent>>

(* Environment: an event of a flow the machine does not know: in a room  *)
(* we share, another user's verification (its request, key or MAC), or a *)
(* to-device key or MAC of a flow from before this session.             *)
ForeignEvent(f, ch, k) ==
    /\ [v |-> f, ch |-> ch, kind |-> k] \notin foreignSent
    /\ foreignSent' = foreignSent \cup {[v |-> f, ch |-> ch, kind |-> k]}
    /\ inbox' = IF ch = "ToDevice"
                THEN [inbox EXCEPT !.toDevice = Append(@, Event(k, f))]
                ELSE [inbox EXCEPT !.room = Append(@, Event(k, f))]
    /\ UNCHANGED <<channel, peer, sas, requested, initial, phase, cbToDevice,
                   cbRoom, task, stdin, answers, reports, panicked>>

(* The machine applies a sync response before the callback sees it: a   *)
(* start creates the SAS, a request to us a request object, a MAC is    *)
(* recorded on a SAS that is not cancelled.                              *)
Apply(s, e) ==
    CASE e.v \notin Verifs   -> s
      [] e.kind = "Start"    -> [s EXCEPT ![e.v].exists = TRUE]
      [] e.kind = "Mac"      -> [s EXCEPT ![e.v].theirMac = @ \/ ~s[e.v].cancelled]
      [] OTHER               -> s

AppliedEvents == inbox.toDevice \o inbox.room

(* client.sync_with_callback: the long poll returns (at once the first *)
(* time), the machine applies the response, the callback starts.       *)
Sync ==
    /\ Running
    /\ phase = "idle"
    /\ initial \/ AppliedEvents # <<>>
    /\ sas' = FoldLeft(Apply, sas, AppliedEvents)
    /\ requested' = requested \cup {v \in Verifs : Event("Request", v) \in ToSet(inbox.room)}
    /\ cbToDevice' = inbox.toDevice
    /\ cbRoom' = inbox.room
    /\ inbox' = [toDevice |-> <<>>, room |-> <<>>]
    /\ phase' = "toDevice"
    /\ UNCHANGED <<channel, peer, initial, task, stdin, answers, reports, panicked, foreignSent>>

(* One arm of the to-device match: start -> sas.accept(); key -> spawn *)
(* wait_for_confirmation; MAC -> print_result if sas.is_done().        *)
(* Events without a SAS (get_verification is None) are skipped.        *)
HandleToDeviceEvent ==
    LET e == Head(cbToDevice) IN
    /\ Running
    /\ phase = "toDevice"
    /\ cbToDevice # <<>>
    /\ cbToDevice' = Tail(cbToDevice)
    /\ \/ /\ e.kind = "Start"
          /\ HasSas(e.v)
          /\ AcceptOrPanic([sas EXCEPT ![e.v].accepted = TRUE])
          /\ UNCHANGED <<task, reports>>
       \/ /\ e.kind = "Key"
          /\ HasSas(e.v)
          /\ task' = [task EXCEPT ![e.v] = "spawned"]
          /\ UNCHANGED <<sas, reports, panicked>>
       \/ /\ e.kind = "Mac"
          /\ HasSas(e.v)
          /\ OnMac(e.v)
          /\ UNCHANGED <<sas, task, panicked>>
       \/ /\ ~HasSas(e.v)
          /\ UNCHANGED <<sas, task, reports, panicked>>
    /\ UNCHANGED <<channel, peer, inbox, requested, initial, phase, cbRoom,
                   stdin, answers, foreignSent>>

(* Mutant: the room events are handled in the first sync too *)
EndToDeviceEventsIgnoringInitial ==
    /\ Running
    /\ phase = "toDevice"
    /\ cbToDevice = <<>>
    /\ phase' = "room"
    /\ UNCHANGED <<channel, peer, inbox, sas, requested, initial, cbRoom,
                   cbToDevice, task, stdin, answers, reports, panicked, foreignSent>>

(* if !initial.load(..): the room events are handled only after the   *)
(* first sync; the first sync drops them and ends the callback.        *)
EndToDeviceEvents ==
    /\ Running
    /\ phase = "toDevice"
    /\ cbToDevice = <<>>
    /\ IF initial
       THEN /\ phase' = "idle"
            /\ cbRoom' = <<>>
            /\ initial' = FALSE
       ELSE /\ phase' = "room"
            /\ UNCHANGED <<cbRoom, initial>>
    /\ UNCHANGED <<channel, peer, inbox, sas, requested, cbToDevice, task, stdin,
                   answers, reports, panicked, foreignSent>>

(* One arm of the room-message match: a verification request ->        *)
(* get_verification_request(..).expect(..) and request.accept(); key and *)
(* MAC as for to-device events.                                           *)
HandleRoomEvent ==
    LET e == Head(cbRoom) IN
    /\ Running
    /\ phase = "room"
    /\ cbRoom # <<>>
    /\ cbRoom' = Tail(cbRoom)
    /\ \/ /\ e.kind = "Request"
          /\ e.v \in requested
          /\ AcceptOrPanic([sas EXCEPT ![e.v].exists = TRUE, ![e.v].accepted = TRUE])
          /\ UNCHANGED <<task, reports>>
       \/ /\ e.kind = "Request"
          /\ e.v \notin requested
          /\ panicked' = TRUE
          /\ UNCHANGED <<sas, task, reports>>
       \/ /\ e.kind = "Key"
          /\ HasSas(e.v)
          /\ task' = [task EXCEPT ![e.v] = "spawned"]
          /\ UNCHANGED <<sas, reports, panicked>>
       \/ /\ e.kind = "Mac"
          /\ HasSas(e.v)
          /\ OnMac(e.v)
          /\ UNCHANGED <<sas, task, panicked>>
       \/ /\ e.kind \in {"Key", "Mac"}
          /\ ~HasSas(e.v)
          /\ UNCHANGED <<sas, task, reports, panicked>>
    /\ UNCHANGED <<channel, peer, inbox, requested, initial, phase, cbToDevice,
                   stdin, answers, foreignSent>>

(* initial.store(false); LoopCtrl::Continue *)
EndCallback ==
    /\ Running
    /\ phase = "room"
    /\ cbRoom = <<>>
    /\ phase' = "idle"
    /\ initial' = FALSE
    /\ UNCHANGED <<channel, peer, inbox, sas, requested, cbToDevice, cbRoom, task,
                   stdin, answers, reports, panicked, foreignSent>>

(* wait_for_confirmation: println!("Does the emoji match: ..") *)
Prompt(v) ==
    /\ Running
    /\ task[v] = "spawned"
    /\ task' = [task EXCEPT ![v] = "reading"]
    /\ UNCHANGED <<channel, peer, inbox, sas, requested, initial, phase,
                   cbToDevice, cbRoom, stdin, answers, reports, panicked, foreignSent>>

(* read_line takes the next line typed, whichever prompt it answered;  *)
(* "yes" -> sas.confirm(), anything else -> sas.cancel().  When the     *)
(* send fails, the unwrap panics the task (tokio ends only that task);  *)
(* whether the SAS had already recorded the step is up to the SAS       *)
(* object, outside src/, so both outcomes are possible.                 *)
ReadLine(v) ==
    /\ Running
    /\ task[v] = "reading"
    /\ stdin # <<>>
    /\ stdin' = Tail(stdin)
    /\ IF Head(stdin).yes
       THEN \/ /\ sas' = [sas EXCEPT ![v].confirmed = TRUE]
               /\ task' = [task EXCEPT ![v] = "confirming"]
            \/ /\ "confirm" \in SendFailures
               /\ \E recorded \in BOOLEAN : sas' = [sas EXCEPT ![v].confirmed = @ \/ recorded]
               /\ task' = [task EXCEPT ![v] = "failed"]
       ELSE \/ /\ sas' = [sas EXCEPT ![v].cancelled = TRUE]
               /\ task' = [task EXCEPT ![v] = "finished"]
            \/ /\ "cancel" \in SendFailures
               /\ \E recorded \in BOOLEAN : sas' = [sas EXCEPT ![v].cancelled = @ \/ recorded]
               /\ task' = [task EXCEPT ![v] = "failed"]
    /\ UNCHANGED <<channel, peer, inbox, requested, initial, phase, cbToDevice,
                   cbRoom, answers, reports, panicked, foreignSent>>

FinishConfirm(v) ==
    /\ Running
    /\ task[v] = "confirming"
    /\ task' = [task EXCEPT ![v] = "finished"]
    /\ IF IsDone(v) THEN PrintResult(v) ELSE UNCHANGED reports
    /\ UNCHANGED <<channel, peer, inbox, sas, requested, initial, phase,
                   cbToDevice, cbRoom, stdin, answers, panicked, foreignSent>>

(* Environment: the user compares the emoji shown for v and types an answer *)
Answer(v, yes) ==
    /\ Running
    /\ task[v] \in {"reading", "confirming", "finished", "failed"}
    /\ answers[v] = None
    /\ answers' = [answers EXCEPT ![v] = yes]
    /\ stdin' = Append(stdin, [v |-> v, yes |-> yes])
    /\ UNCHANGED <<channel, peer, inbox, sas, requested, initial, phase,
                   cbToDevice, cbRoom, task, reports, panicked, foreignSent>>

Next ==
    \/ \E hasArgs \in BOOLEAN : Main(hasArgs)
    \/ \E outcome \in LoginOutcomes : Login(outcome)
    \/ \E v \in Verifs : Running /\ PeerSend(v)
    \/ \E f \in Foreign, k \in {"Key", "Mac"} : Running /\ ForeignEvent(f, "ToDevice", k)
    \/ \E f \in Foreign, k \in ForeignRoomKinds : Running /\ ForeignEvent(f, "InRoom", k)
    \/ Sync
    \/ HandleToDeviceEvent
    \/ EndToDeviceEvents
    \/ HandleRoomEvent
    \/ EndCallback
    \/ \E v \in Verifs : Prompt(v) \/ ReadLine(v) \/ FinishConfirm(v)
    \/ \E v \in Verifs, yes \in BOOLEAN : Answer(v, yes)

(* The sync loop keeps polling and running its callback; tokio keeps    *)
(* running every spawned task that is not blocked.                      *)
Fairness ==
    /\ WF_vars(\E hasArgs \in BOOLEAN : Main(hasArgs))
    /\ WF_vars(\E outcome \in LoginOutcomes : Login(outcome))
    /\ WF_vars(Sync)
    /\ WF_vars(HandleToDeviceEvent)
    /\ WF_vars(EndToDeviceEvents)
    /\ WF_vars(HandleRoomEvent)
    /\ WF_vars(EndCallback)
    /\ \A v \in Verifs : WF_vars(Prompt(v)) /\ WF_vars(ReadLine(v)) /\ WF_vars(FinishConfirm(v))

Spec == Init /\ [][Next]_vars /\ Fairness

-----------------------------------------------------------------------------

TypeOK ==
    /\ channel \in [Verifs -> Channels]
    /\ peer \in [Verifs -> 0..3]
    /\ task \in [Verifs -> TaskStates]
    /\ answers \in [Verifs -> BOOLEAN \cup {None}]
    /\ phase \in {"main", "login", "idle", "toDevice", "room", "exited"}
    /\ phase = "room" => ~initial

(* A "Successfully verified" report for a flow means the user typed yes *)
(* to that flow's emoji: the line a task reads is the answer to its own *)
(* prompt, and a MAC alone never reports.  About read_line in spawned   *)
(* wait_for_confirmation tasks and the is_done checks before print_result. *)
ReportMeansUserConfirmed ==
    \A v \in Verifs : reports[v] > 0 => answers[v] = TRUE

NoPanic == ~panicked
=============================================================================
