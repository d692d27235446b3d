------------------------------- MODULE Shell -------------------------------
(***************************************************************************)
(* Win32Shell: the UI thread from the first-launch chooser to the end of   *)
(* the main window's message loop, composed with the camera scanner it     *)
(* starts and stops and whose pool threads call back into it.              *)
(*                                                                         *)
(* A MessageBoxW pumps the messages of the whole UI thread while it is     *)
(* open: posted codes, timers and the tray menu are handled inside it, so  *)
(* message handlers nest.  "boxes" is that nesting, the innermost first;   *)
(* only the innermost can return.  A box that finds the main window        *)
(* enabled disables it until it is answered; one inside it leaves it as it *)
(* is.                                                                     *)
(*                                                                         *)
(* The engine is its trust list here.  A row of the list view is an index  *)
(* into a copy of an unordered map taken later than the rows were drawn,   *)
(* so the row the user selects stands for any device.                      *)
(***************************************************************************)
EXTENDS CameraScanner, Sequences

CONSTANTS
    Peers,      \* other devices
    Self,       \* this PC
    Windows,    \* window handles the QR window can get
    NoWindow    \* the null handle

ASSUME DevicesAssumption == Self \notin Peers
ASSUME WindowsAssumption == NoWindow \notin Windows

VARIABLES
    phase,      \* where run() is
    local,      \* the scan whose callback refers to the chooser's locals
    body,       \* how far that callback has got
    token, got, \* the chooser's token_json is not empty; got_token
    clicked,    \* a button of the paste dialog was clicked
    devices,    \* the engine's trust list
    boxes,      \* message boxes on the main window, the innermost first
    inbox,      \* WM_APP+20 messages, as the scans they come from
    handled,    \* handled[s]: WM_APP+20 messages of scan s that were handled
    qrOpen, qr, \* the QR windows on the screen, and qr_hwnd_
    alive       \* the main window exists and Quit was not chosen

chooser  == <<local, body, token, got, clicked>>
mainVars == <<devices, boxes, inbox, handled, qrOpen, qr, alive>>
shellVars == <<vars, phase, chooser, mainVars>>

\* camera_done is body = "done".
InChooser == {"chooser", "opening", "check", "wait", "leave", "stopping", "paste",
              "create", "join"}
Over == {"ended", "crashed"}

\* "owns": the box has disabled the main window.  The user is not asked to confirm the
\* removal of this PC.
Box == {b \in [kind : {"remove", "add", "notice"}, device : Peers \cup {Self},
               answer : {"open", "yes", "no"}, owns : BOOLEAN] :
           b.kind = "remove" => b.device # Self}

\* An open box that has disabled the main window.
Disabled == \E i \in 1..Len(boxes) : boxes[i].answer = "open" /\ boxes[i].owns

Ask(kind, d) == [kind |-> kind, device |-> d, answer |-> "open", owns |-> ~Disabled]
Notice == Ask("notice", Self)

ShellTypeOK ==
    /\ phase \in {"launch", "main", "closing"} \cup InChooser \cup Over
    /\ local \in 0..scans
    /\ body \in {"none", "token", "got", "done"}
    /\ token \in BOOLEAN /\ got \in BOOLEAN /\ clicked \in BOOLEAN
    /\ devices \subseteq Peers \cup {Self}
    /\ boxes \in Seq(Box)
    /\ inbox \in Seq(1..scans) /\ handled \in [Scans -> Nat]
    /\ qrOpen \subseteq Windows /\ qr \in Windows \cup {NoWindow}
    /\ alive \in BOOLEAN
    /\ alive => phase \in {"main", "crashed"}

ShellInit ==
    /\ Init
    /\ phase = "launch"
    /\ local = NoScan /\ body = "none"
    /\ token = FALSE /\ got = FALSE /\ clicked = FALSE
    /\ devices = {} /\ boxes = <<>> /\ inbox = <<>>
    /\ handled = [s \in Scans |-> 0]
    /\ qrOpen = {} /\ qr = NoWindow
    /\ alive = FALSE

\* The UI thread is not inside start() or stop().
Free == ui \in {"idle", "stopped"}

-----------------------------------------------------------------------------
(* First launch *)

\* The chooser's locals go with it.  If engine_.start() throws or the window cannot be
\* created, run() is over, without a stop() of the scanner.
OpenMain ==
    /\ \/ phase' = "main" /\ alive' = TRUE
       \/ Faults /\ phase' = "ended" /\ alive' = FALSE
    /\ token' = FALSE /\ got' = FALSE /\ clicked' = FALSE

\* try_load_persisted finds an identity; only this PC matters of what it loads.
LoadPersisted ==
    /\ phase = "launch"
    /\ \/ OpenMain /\ devices' = {Self}
       \/ phase' = "chooser" /\ UNCHANGED <<devices, alive, token, got, clicked>>
    /\ UNCHANGED <<vars, local, body, boxes, inbox, handled, qrOpen, qr>>

ChooseCreateOrCancel ==
    /\ phase = "chooser"
    /\ \/ OpenMain /\ devices' = {Self}
       \/ phase' = "ended" /\ UNCHANGED <<devices, alive, token, got, clicked>>
    /\ UNCHANGED <<vars, local, body, boxes, inbox, handled, qrOpen, qr>>

\* The answer to the scan prompt, OK or Cancel, is not looked at.
ChooseJoin ==
    /\ phase = "chooser" /\ phase' = "opening"
    /\ Start
    /\ local' = scans'
    /\ UNCHANGED <<body, token, got, clicked, mainVars>>

CameraOpens ==
    /\ phase = "opening" /\ phase' = "check"
    /\ SetRunning
    /\ UNCHANGED <<chooser, mainVars>>

CameraFails ==
    /\ phase = "opening" /\ phase' = "paste"
    /\ NoCamera \/ StartThrows
    /\ UNCHANGED <<chooser, mainVars>>

CheckDone ==
    /\ phase = "check"
    /\ phase' = IF body = "done" THEN "leave" ELSE "wait"
    /\ UNCHANGED <<vars, chooser, mainVars>>

\* GetMessage returns a message of this thread: Escape, or input, paint, ... .
\* The WM_APP+10 of the callback goes to the queue of the pool thread.
WaitMessage ==
    /\ phase = "wait" /\ phase' \in {"leave", "check"}
    /\ UNCHANGED <<vars, chooser, mainVars>>

StopWaiting ==
    /\ phase = "leave" /\ phase' = "stopping"
    /\ Stop
    /\ UNCHANGED <<chooser, mainVars>>

AfterScan ==
    /\ phase = "stopping" /\ Free
    /\ phase' = IF got THEN "create" ELSE "paste"
    /\ UNCHANGED <<vars, chooser, mainVars>>

\* run_join_paste_dialog.  Its buttons send WM_COMMAND, and its close box WM_CLOSE,
\* to the window procedure, DefWindowProcW; its loop looks for both among the
\* messages of the queue.
ClickInPaste ==
    /\ phase = "paste" /\ ~clicked
    /\ clicked' = TRUE
    /\ UNCHANGED <<vars, phase, local, body, token, got, mainVars>>

\* Only a WM_CLOSE another program posts ends the loop; the result, FALSE,
\* replaces got_token.
PasteClosed ==
    /\ phase = "paste" /\ phase' = "create"
    /\ got' = FALSE
    /\ UNCHANGED <<vars, local, body, token, clicked, mainVars>>

\* create_initial_mesh, with or without a token to join with.
CreatePlaceholder ==
    /\ phase = "create"
    /\ devices' = {Self}
    /\ IF got /\ token THEN phase' = "join" /\ UNCHANGED <<alive, token, got, clicked>>
                                ELSE OpenMain
    /\ UNCHANGED <<vars, local, body, boxes, inbox, handled, qrOpen, qr>>

\* The token may be invalid, or carry no address.
JoinWithToken ==
    /\ phase = "join"
    /\ OpenMain
    /\ \/ UNCHANGED devices
       \/ \E p \in Peers : devices' = devices \cup {p}
    /\ UNCHANGED <<vars, local, body, boxes, inbox, handled, qrOpen, qr>>

-----------------------------------------------------------------------------
(* The main window.  Messages are handled while no box is open, or inside the  *)
(* innermost one as long as it has no answer.                                  *)

Pumping == phase = "main" /\ alive /\ Free
           /\ (boxes # <<>> => Head(boxes).answer = "open")
Enabled == Pumping /\ ~Disabled

Push(b) == boxes' = <<b>> \o boxes

\* on_add_device_clicked after show_qr_window; MaxScans ends the scans, not the
\* program.
StartScan == IF running \/ scans = MaxScans THEN UNCHANGED vars ELSE Start

\* Handles are used again once their window is gone.
NewWindow == CHOOSE w \in Windows : w \notin qrOpen

\* The window of an earlier click stays open and is forgotten.
ClickAdd ==
    /\ Enabled
    /\ Windows # qrOpen
    /\ qr' = NewWindow /\ qrOpen' = qrOpen \cup {NewWindow}
    /\ StartScan
    /\ UNCHANGED <<phase, chooser, devices, boxes, inbox, handled, alive>>

\* "Could not generate QR code"; the scan starts when the box is closed.
ClickAddNoBitmap ==
    /\ Enabled /\ Faults
    /\ Push(Ask("add", Self))
    /\ UNCHANGED <<vars, phase, chooser, devices, inbox, handled, qrOpen, qr, alive>>

\* Mutant: nothing keeps the user from removing this PC.
ClickRemove_Unchecked(d) ==
    /\ Enabled
    /\ d \in devices
    /\ Push(Ask("remove", d))
    /\ UNCHANGED <<vars, phase, chooser, devices, inbox, handled, qrOpen, qr, alive>>

ClickRemove(d) ==
    /\ Enabled
    /\ d \in devices
    /\ Push(IF d = Self THEN Notice ELSE Ask("remove", d))
    /\ UNCHANGED <<vars, phase, chooser, devices, inbox, handled, qrOpen, qr, alive>>

\* The user answers a box, the innermost or one below it.
Answer(i) ==
    /\ alive /\ i \in 1..Len(boxes) /\ boxes[i].answer = "open"
    /\ \E a \in {"yes", "no"} :
          /\ a = "yes" => boxes[i].kind = "remove"
          /\ boxes' = [boxes EXCEPT ![i].answer = a]
    /\ UNCHANGED <<vars, phase, chooser, devices, inbox, handled, qrOpen, qr, alive>>

\* The innermost MessageBoxW returns to the handler that called it.
Returning(kind) ==
    /\ phase = "main" /\ Free
    /\ boxes # <<>> /\ Head(boxes).answer # "open" /\ Head(boxes).kind = kind
    /\ boxes' = Tail(boxes)

ReturnFromNotice ==
    /\ Returning("notice")
    /\ UNCHANGED <<vars, phase, chooser, devices, inbox, handled, qrOpen, qr, alive>>

ReturnFromAdd ==
    /\ Returning("add")
    /\ StartScan
    /\ UNCHANGED <<phase, chooser, devices, inbox, handled, qrOpen, qr, alive>>

\* on_remove_device_clicked after its prompt: d is in the copy made before it.
ReturnFromRemove ==
    /\ Returning("remove")
    /\ devices' = IF Head(boxes).answer = "yes" THEN devices \ {Head(boxes).device}
                                                ELSE devices
    /\ UNCHANGED <<vars, phase, chooser, inbox, handled, qrOpen, qr, alive>>

\* Mutant: a code whose join fails is posted once more.
HandleDecoded_Retries ==
    /\ Pumping /\ inbox # <<>>
    /\ handled' = [handled EXCEPT ![Head(inbox)] = @ + 1]
    /\ \/ inbox' = Append(Tail(inbox), Head(inbox)) /\ UNCHANGED <<devices, qrOpen, qr>>
       \/ /\ inbox' = Tail(inbox)
          /\ devices' = devices \/ \E p \in Peers : devices' = devices \cup {p}
          /\ qrOpen' = qrOpen \ {qr} /\ qr' = NoWindow
    /\ Push(Notice)
    /\ UNCHANGED <<vars, phase, chooser, alive>>

\* WM_APP+20: a valid token is joined, whether or not that succeeds, and the
\* window in qr_hwnd_ is closed; the scanner is left as it is.
HandleDecoded ==
    /\ Pumping /\ inbox # <<>>
    /\ inbox' = Tail(inbox)
    /\ handled' = [handled EXCEPT ![Head(inbox)] = @ + 1]
    /\ \/ UNCHANGED <<devices, qrOpen, qr>>
       \/ /\ devices' = devices \/ \E p \in Peers : devices' = devices \cup {p}
          /\ qrOpen' = qrOpen \ {qr} /\ qr' = NoWindow
    /\ Push(Notice)
    /\ UNCHANGED <<vars, phase, chooser, alive>>

\* Mutant: qr_hwnd_ is not cleared.
CloseQr_KeepsHandle(w) ==
    /\ Pumping /\ w \in qrOpen
    /\ Stop
    /\ qrOpen' = qrOpen \ {w}
    /\ UNCHANGED <<phase, chooser, devices, boxes, inbox, handled, qr, alive>>

\* WM_CLOSE of a QR window, the one in qr_hwnd_ or an older one.
CloseQr(w) ==
    /\ Pumping /\ w \in qrOpen
    /\ Stop
    /\ qrOpen' = qrOpen \ {w} /\ qr' = NoWindow
    /\ UNCHANGED <<phase, chooser, devices, boxes, inbox, handled, alive>>

\* Quit in the tray menu, which needs no enabled window: after engine_.stop(), which is
\* Lifecycle's, the windows and their messages go, and every open box returns without
\* a yes.
Quit ==
    /\ Pumping
    /\ alive' = FALSE
    /\ boxes' = [i \in 1..Len(boxes) |->
                    IF boxes[i].answer = "open" THEN [boxes[i] EXCEPT !.answer = "no"]
                                                ELSE boxes[i]]
    /\ qrOpen' = {} /\ inbox' = <<>>
    /\ UNCHANGED <<vars, phase, chooser, devices, handled, qr>>

\* The loop of run() gets WM_QUIT when the last handler has returned.
LeaveLoop ==
    /\ phase = "main" /\ ~alive /\ boxes = <<>> /\ Free
    /\ phase' = "closing"
    /\ Stop
    /\ UNCHANGED <<chooser, mainVars>>

End ==
    /\ phase = "closing" /\ Free
    /\ phase' = "ended"
    /\ UNCHANGED <<vars, chooser, mainVars>>

-----------------------------------------------------------------------------
(* Other threads *)

\* A beacon or a Revocation packet changes the trust list; no Revocation is sent
\* to the device it names.
PeersChange ==
    /\ phase = "main" /\ alive
    /\ \E p \in Peers : devices' \in {devices \cup {p}, devices \ {p}}
    /\ UNCHANGED <<vars, phase, chooser, boxes, inbox, handled, qrOpen, qr, alive>>

\* The callback given to start().  That of the main window posts the code; that
\* of the chooser writes the chooser's locals, which are gone if the user went
\* on meanwhile: it then goes unnoticed or ends the program.
Callback(h) ==
    /\ CallBack(h)
    /\ IF handler[h].cb # local
       THEN /\ inbox' = IF alive THEN Append(inbox, handler[h].cb) ELSE inbox
            /\ UNCHANGED <<phase, token, body>>
       ELSE /\ body' = "token"
            /\ \/ phase \in InChooser /\ token' = TRUE /\ UNCHANGED phase
               \/ phase \notin InChooser /\ phase' \in {phase, "crashed"} /\ UNCHANGED token
            /\ UNCHANGED inbox
    /\ UNCHANGED <<local, got, clicked, devices, boxes, handled, qrOpen, qr, alive>>

\* The rest of the chooser's callback.
CallbackGoesOn ==
    /\ body \in {"token", "got"}
    /\ body' = IF body = "token" THEN "got" ELSE "done"
    /\ \/ phase \in InChooser /\ UNCHANGED phase /\ got' = (got \/ body = "token")
       \/ phase \notin InChooser /\ phase' \in {phase, "crashed"} /\ UNCHANGED got
    /\ UNCHANGED <<vars, local, token, clicked, mainVars>>

ScannerStep ==
    /\ \/ OpenCapture \/ CreateReader \/ StartReader \/ Release
       \/ phase # "opening" /\ (SetRunning \/ NoCamera \/ StartThrows)
    /\ UNCHANGED <<phase, chooser, mainVars>>

HandlerOf(h) ==
    \/ /\ \/ CheckFired(h) \/ NothingDecoded(h) \/ Claim(h) \/ ClearRunning(h)
          \/ StopOwnReader(h)
       /\ UNCHANGED <<phase, chooser, mainVars>>
    \/ Callback(h)

Frame(h) == FrameArrives(h) /\ UNCHANGED <<phase, chooser, mainVars>>

-----------------------------------------------------------------------------
FirstLaunch == LoadPersisted \/ ChooseCreateOrCancel \/ ChooseJoin \/ CameraOpens
               \/ CameraFails \/ CheckDone \/ WaitMessage \/ StopWaiting \/ AfterScan
               \/ ClickInPaste \/ PasteClosed \/ CreatePlaceholder \/ JoinWithToken

MainWindow ==
    \/ ClickAdd \/ ClickAddNoBitmap \/ (\E d \in Peers \cup {Self} : ClickRemove(d))
    \/ \E i \in 1..Len(boxes) : Answer(i)
    \/ ReturnFromNotice \/ ReturnFromAdd \/ ReturnFromRemove
    \/ HandleDecoded \/ (\E w \in Windows : CloseQr(w))
    \/ Quit \/ LeaveLoop \/ End

OtherThreads == PeersChange \/ CallbackGoesOn \/ \E h \in Handlers : Frame(h) \/ HandlerOf(h)

ShellNext ==
    /\ phase \notin Over
    /\ FirstLaunch \/ MainWindow \/ OtherThreads \/ ScannerStep

ShellSpec == ShellInit /\ [][ShellNext]_shellVars

Unfinished == phase \notin Over

\* Threads that have something to do go on.  Nothing obliges the user, and no
\* message comes to the loop of the chooser by itself.
ShellFairness ==
    /\ \A h \in Handlers : WF_shellVars(Unfinished /\ HandlerOf(h))
    /\ WF_shellVars(Unfinished /\ CallbackGoesOn)
    /\ WF_shellVars(Unfinished /\ (ScannerStep \/ CameraOpens \/ CameraFails))
    /\ WF_shellVars(Unfinished /\ (CheckDone \/ StopWaiting \/ AfterScan))

FairShellSpec == ShellSpec /\ ShellFairness
-----------------------------------------------------------------------------
(* Properties *)

\* The code of scan s is with the handler that claimed it, in the queue of the main
\* window, or dealt with.
Queued(s) == \E i \in 1..Len(inbox) : inbox[i] = s
Kept(s)   == Taken(s) \/ Queued(s) \/ handled[s] > 0

Claiming(s) == ~fired /\ fired' /\ callback = s

\* camera_qr_scanner.cpp:181-206, win32_shell.cpp:353-360, 587-602.  From the claim on,
\* the code of every scan the main window has started is kept, the codes of earlier scans
\* included, whichever scans are stopped and started meanwhile, until the user quits.
\* (A code of the chooser's scan may be lost: its callback may run when the chooser's
\* locals are gone, and the result of the paste dialog replaces got_token.)
CodeIsKept ==
    [][ alive' => \A s \in Scans \ {local} : Kept(s) \/ Claiming(s) => Kept(s)' ]_shellVars

\* win32_shell.cpp:587-602.  No code is joined with twice, although the box of its
\* handler runs the handlers of further codes: it is in the queue once, and no longer
\* when it has been handled.
JoinedOnce ==
    /\ \A s \in Scans : handled[s] <= 1 /\ (Queued(s) => handled[s] = 0)
    /\ \A i, j \in 1..Len(inbox) : inbox[i] = inbox[j] => i = j

\* qr_hwnd_ is null or a window on the screen, so that the join handler never
\* destroys a handle that is not its own.
QrHandleIsLive == alive /\ qr # NoWindow => qr \in qrOpen

\* win32_shell.cpp:229, "Fall back to paste dialog if camera wasn't available or
\* scan was cancelled": when the user has answered the dialog, it ends.
AnswerEndsPaste == clicked ~> (phase # "paste")
=============================================================================
