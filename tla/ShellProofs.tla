---------------------------- MODULE ShellProofs ----------------------------
(***************************************************************************)
(* Theorems about the shell, for any number of devices, windows, handlers  *)
(* and scans.  What is proved of the scanner carries over, because the     *)
(* shell uses it as CameraScanner's specification allows.                  *)
(***************************************************************************)
EXTENDS Shell, CameraScannerProofs, SequenceTheorems

\* Every step of the shell is a step of the scanner or leaves it alone.
LEMMA StepRefines == [ShellNext]_shellVars => [Next]_vars
<1>. USE DEF Next, Starting, HandlerStep
<1>1. FirstLaunch => [Next]_vars
  BY DEF FirstLaunch, LoadPersisted, ChooseCreateOrCancel, ChooseJoin, CameraOpens,
         CameraFails, CheckDone, WaitMessage, StopWaiting, AfterScan, ClickInPaste,
         PasteClosed, CreatePlaceholder, JoinWithToken
<1>2. StartScan => [Next]_vars
  BY DEF StartScan
<1>3. MainWindow => [Next]_vars
  <2>. HIDE DEF Next
  <2>0. Stop => Next
    BY DEF Next
  <2>. QED BY <1>2, <2>0 DEF MainWindow, ClickAdd, ClickAddNoBitmap, ClickRemove, Answer,
         ReturnFromNotice, ReturnFromAdd, ReturnFromRemove, HandleDecoded, CloseQr, Quit,
         LeaveLoop, End
<1>4. OtherThreads => [Next]_vars
  BY DEF OtherThreads, PeersChange, CallbackGoesOn, Frame, HandlerOf, Callback
<1>5. ScannerStep => [Next]_vars
  BY DEF ScannerStep
<1>6. UNCHANGED shellVars => [Next]_vars
  BY DEF shellVars
<1>. QED BY <1>1, <1>3, <1>4, <1>5, <1>6 DEF ShellNext

THEOREM UsesScanner == ShellSpec => Spec
<1>1. ShellInit => Init
  BY DEF ShellInit
<1>. QED BY <1>1, StepRefines, PTL DEF ShellSpec, Spec

\* Run by the shell, too, no callback of a scan is called twice.
THEOREM ShellSingleFire == ShellSpec => []SingleFire
<1>. QED BY UsesScanner, SingleFireHolds, PTL

\* Run by the shell, too, the scanner keeps its promise about each callback.
THEOREM ShellImplementsOneShot == ShellSpec => ImplementsOneShot
BY UsesScanner, ImplementsOneShotHolds

(* The state of the shell *)

LEMMA ScansGrow == TypeOK /\ [Next]_vars => scans' \in {scans, scans + 1}
<1>1. UNCHANGED vars => scans' = scans
  BY DEF vars
<1>2. Next => scans' \in {scans, scans + 1}
  BY DEF Next, Start, Starting, OpenCapture, CreateReader, StartReader, SetRunning,
         NoCamera, StartThrows, Stop, Release, FrameArrives, HandlerStep, CheckFired,
         NothingDecoded, Claim, ClearRunning, StopOwnReader, CallBack
<1>. QED BY <1>1, <1>2

LEMMA BoxTypes ==
    /\ Notice \in Box /\ Ask("add", Self) \in Box
    /\ \A d \in Peers : Ask("remove", d) \in Box
BY DevicesAssumption DEF Notice, Ask, Box, Disabled

LEMMA PushType == ASSUME boxes \in Seq(Box), NEW b \in Box, Push(b)
                  PROVE  boxes' \in Seq(Box) /\ Len(boxes') = Len(boxes) + 1
BY DEF Push

LEMMA ReturnType == ASSUME boxes \in Seq(Box), NEW k, Returning(k)
                    PROVE  boxes' \in Seq(Box) /\ Head(boxes) \in Box /\ boxes # <<>>
BY DEF Returning

LEMMA AnswerType == ASSUME boxes \in Seq(Box), NEW i \in 1..Len(boxes), Answer(i)
                    PROVE  boxes' \in Seq(Box) /\ Len(boxes') = Len(boxes)
<1>1. PICK a \in {"yes", "no"} : /\ a = "yes" => boxes[i].kind = "remove"
                                 /\ boxes' = [boxes EXCEPT ![i].answer = a]
  BY DEF Answer
<1>2. boxes[i] \in Box
  OBVIOUS
<1>3. [boxes[i] EXCEPT !.answer = a] \in Box
  BY <1>2 DEF Box
<1>. QED BY <1>1, <1>3

LEMMA QuitType == ASSUME boxes \in Seq(Box), Quit
                  PROVE  boxes' \in Seq(Box) /\ Len(boxes') = Len(boxes)
<1>1. \A i \in 1..Len(boxes) : boxes[i] \in Box /\ [boxes[i] EXCEPT !.answer = "no"] \in Box
  BY DEF Box
<1>2. \A i \in 1..Len(boxes) : boxes'[i] \in Box
  BY <1>1 DEF Quit
<1>3. boxes' = [i \in 1..Len(boxes) |-> boxes'[i]]
  BY DEF Quit
<1>. QED BY <1>2, <1>3

\* The conjuncts of ShellTypeOK apart from boxes.
LaunchTypes ==
    /\ phase \in {"launch", "main", "closing"} \cup InChooser \cup Over
    /\ local \in 0..scans
    /\ body \in {"none", "token", "got", "done"}
    /\ token \in BOOLEAN /\ got \in BOOLEAN /\ clicked \in BOOLEAN
    /\ alive \in BOOLEAN
    /\ alive => phase \in {"main", "crashed"}

WindowTypes ==
    /\ devices \subseteq Peers \cup {Self}
    /\ qrOpen \subseteq Windows /\ qr \in Windows \cup {NoWindow}

InboxTypes == inbox \in Seq(1..scans) /\ handled \in [Scans -> Nat]

LEMMA ShellInitType == TypeOK /\ ShellInit => ShellTypeOK
<1>. SUFFICES ASSUME TypeOK, ShellInit PROVE ShellTypeOK
  OBVIOUS
<1>1. NoScan \in 0..scans
  BY DEF TypeOK, NoScan
<1>2. inbox \in Seq(1..scans) /\ boxes \in Seq(Box) /\ handled \in [Scans -> Nat]
  BY DEF ShellInit
<1>. QED BY <1>1, <1>2 DEF ShellInit, ShellTypeOK, InChooser, Over

LEMMA LaunchNext ==
    ASSUME TypeOK, TypeOK', LaunchTypes, ShellNext, scans' \in {scans, scans + 1}
    PROVE  LaunchTypes'
<1>0. local \in 0..scans' /\ scans \in Nat
  BY DEF TypeOK, LaunchTypes
<1>. USE DEF LaunchTypes, InChooser, Over, chooser, mainVars
<1>1. CASE FirstLaunch
  <2>1. ChooseJoin => local' \in 0..scans'
    BY DEF ChooseJoin, TypeOK
  <2>. QED BY <1>0, <1>1, <2>1 DEF FirstLaunch, OpenMain, LoadPersisted,
           ChooseCreateOrCancel, ChooseJoin, CameraOpens, CameraFails, CheckDone,
           WaitMessage, StopWaiting, AfterScan, ClickInPaste, PasteClosed,
           CreatePlaceholder, JoinWithToken
<1>2. CASE MainWindow
  <2>1. CASE LeaveLoop \/ End
    BY <1>0, <2>1 DEF LeaveLoop, End
  <2>2. CASE Quit
    BY <1>0, <2>2 DEF Quit, Pumping
  <2>3. CASE UNCHANGED <<phase, chooser, alive>>
    BY <1>0, <2>3
  <2>. QED BY <1>2, <2>1, <2>2, <2>3 DEF MainWindow, ClickAdd, ClickAddNoBitmap,
           ClickRemove, Answer, ReturnFromNotice, ReturnFromAdd, ReturnFromRemove,
           HandleDecoded, CloseQr
<1>3. CASE OtherThreads
  <2>1. CASE CallbackGoesOn
    BY <1>0, <2>1 DEF CallbackGoesOn
  <2>2. ASSUME NEW h \in Handlers, Callback(h) PROVE LaunchTypes'
    <3>1. UNCHANGED <<local, got, clicked, alive>> /\ body' \in {body, "token"}
      BY <2>2 DEF Callback
    <3>2. phase' \in {phase, "crashed"} /\ token' \in {token, TRUE}
      BY <2>2 DEF Callback
    <3>. QED BY <1>0, <3>1, <3>2
  <2>3. CASE UNCHANGED <<phase, chooser, alive>>
    BY <1>0, <2>3
  <2>. QED BY <1>3, <2>1, <2>2, <2>3 DEF OtherThreads, PeersChange, Frame, HandlerOf
<1>4. CASE ScannerStep
  BY <1>0, <1>4 DEF ScannerStep
<1>. QED BY <1>1, <1>2, <1>3, <1>4 DEF ShellNext

LEMMA WindowNext == ASSUME WindowTypes, ShellNext, boxes \in Seq(Box) PROVE WindowTypes'
<1>. USE DEF WindowTypes, chooser, mainVars
<1>1. CASE FirstLaunch
  BY <1>1 DEF FirstLaunch, LoadPersisted,
     ChooseCreateOrCancel, ChooseJoin, CameraOpens, CameraFails, CheckDone,
     WaitMessage, StopWaiting, AfterScan, ClickInPaste, PasteClosed,
     CreatePlaceholder, JoinWithToken
<1>2. CASE MainWindow
  <2>1. CASE ClickAdd
    <3>1. NewWindow \in Windows
      BY <2>1 DEF ClickAdd, NewWindow
    <3>. QED BY <2>1, <3>1 DEF ClickAdd
  <2>2. CASE HandleDecoded
    BY <2>2 DEF HandleDecoded
  <2>3. CASE ~ClickAdd /\ ~HandleDecoded
    BY <1>2, <2>3 DEF MainWindow, ClickAddNoBitmap, ClickRemove, Answer,
       ReturnFromNotice, ReturnFromAdd, ReturnFromRemove, CloseQr, Quit,
       LeaveLoop, End
  <2>. QED BY <2>1, <2>2, <2>3
<1>3. CASE OtherThreads
  BY <1>3 DEF OtherThreads, PeersChange, CallbackGoesOn, Frame, HandlerOf, Callback
<1>4. CASE ScannerStep
  BY <1>4 DEF ScannerStep
<1>. QED BY <1>1, <1>2, <1>3, <1>4 DEF ShellNext

LEMMA InboxNext ==
    ASSUME TypeOK, InboxTypes, ShellNext, scans' \in {scans, scans + 1}
    PROVE  InboxTypes'
<1>0. inbox \in Seq(1..scans') /\ scans \in Nat
  <2>1. 1..scans \subseteq 1..scans' /\ scans \in Nat
    BY DEF TypeOK
  <2>. QED BY <2>1 DEF InboxTypes
<1>. USE DEF InboxTypes, chooser, mainVars
<1>1. CASE UNCHANGED <<inbox, handled>>
  BY <1>0, <1>1
<1>2. CASE HandleDecoded
  <2>1. inbox # <<>> /\ inbox' = Tail(inbox)
        /\ handled' = [handled EXCEPT ![Head(inbox)] = @ + 1]
    BY <1>2 DEF HandleDecoded
  <2>2. inbox' \in Seq(1..scans')
    BY <1>0, <2>1
  <2>3. handled' \in [Scans -> Nat]
    <3>1. ASSUME NEW i \in Scans PROVE [handled EXCEPT ![Head(inbox)] = @ + 1][i] \in Nat
      OBVIOUS
    <3>. QED BY <2>1, <3>1
  <2>. QED BY <2>2, <2>3
<1>3. CASE Quit
  BY <1>3 DEF Quit, mainVars
<1>4. ASSUME NEW h \in Handlers, Callback(h) PROVE InboxTypes'
  <2>1. handler[h].cb \in 1..scans'
    BY <1>4, <1>0 DEF Callback, CallBack, TypeOK, Claimed
  <2>2. inbox' \in {inbox, Append(inbox, handler[h].cb)} /\ handled' = handled
    BY <1>4 DEF Callback
  <2>3. Append(inbox, handler[h].cb) \in Seq(1..scans')
    BY <1>0, <2>1
  <2>4. inbox' \in Seq(1..scans')
    BY <1>0, <2>2, <2>3
  <2>. QED BY <2>2, <2>4
<1>5. CASE FirstLaunch
  BY <1>1, <1>5 DEF FirstLaunch, LoadPersisted,
     ChooseCreateOrCancel, ChooseJoin, CameraOpens, CameraFails, CheckDone,
     WaitMessage, StopWaiting, AfterScan, ClickInPaste, PasteClosed,
     CreatePlaceholder, JoinWithToken
<1>6. CASE MainWindow
  BY <1>1, <1>2, <1>3, <1>6 DEF MainWindow, ClickAdd, ClickAddNoBitmap, ClickRemove, Answer,
     ReturnFromNotice, ReturnFromAdd, ReturnFromRemove, CloseQr, LeaveLoop, End
<1>7. CASE OtherThreads
  BY <1>1, <1>4, <1>7 DEF OtherThreads, PeersChange, CallbackGoesOn, Frame, HandlerOf
<1>8. CASE ScannerStep
  BY <1>1, <1>8 DEF ScannerStep
<1>. QED BY <1>5, <1>6, <1>7, <1>8 DEF ShellNext

LEMMA BoxesNext == ASSUME boxes \in Seq(Box), ShellNext PROVE boxes' \in Seq(Box)
<1>. USE DEF chooser, mainVars
<1>1. CASE UNCHANGED boxes
  BY <1>1
<1>2. CASE FirstLaunch
  BY <1>1, <1>2 DEF FirstLaunch, LoadPersisted,
     ChooseCreateOrCancel, ChooseJoin, CameraOpens, CameraFails, CheckDone,
     WaitMessage, StopWaiting, AfterScan, ClickInPaste, PasteClosed,
     CreatePlaceholder, JoinWithToken
<1>3. CASE MainWindow
  <2>1. CASE ClickAddNoBitmap \/ HandleDecoded
    BY <2>1, BoxTypes, PushType DEF ClickAddNoBitmap, HandleDecoded
  <2>2. ASSUME NEW d \in Peers \cup {Self}, ClickRemove(d)
        PROVE  boxes' \in Seq(Box)
    <3>1. (IF d = Self THEN Notice ELSE Ask("remove", d)) \in Box
      BY BoxTypes
    <3>. QED BY <2>2, <3>1, PushType DEF ClickRemove
  <2>3. CASE ReturnFromNotice \/ ReturnFromAdd \/ ReturnFromRemove
    BY <2>3, ReturnType DEF ReturnFromNotice, ReturnFromAdd, ReturnFromRemove
  <2>4. CASE Quit
    BY <2>4, QuitType
  <2>5. CASE ClickAdd \/ (\E w \in Windows : CloseQr(w)) \/ LeaveLoop \/ End
    BY <1>1, <2>5 DEF ClickAdd, CloseQr, LeaveLoop, End
  <2>. QED BY <1>3, <2>1, <2>2, <2>3, <2>4, <2>5, AnswerType DEF MainWindow
<1>4. CASE OtherThreads
  BY <1>1, <1>4 DEF OtherThreads, PeersChange, CallbackGoesOn, Frame, HandlerOf, Callback
<1>5. CASE ScannerStep
  BY <1>1, <1>5 DEF ScannerStep
<1>. QED BY <1>2, <1>3, <1>4, <1>5 DEF ShellNext

LEMMA ShellTypeNext ==
    TypeOK /\ TypeOK' /\ ShellTypeOK /\ [ShellNext]_shellVars => ShellTypeOK'
<1>. SUFFICES ASSUME TypeOK, TypeOK', ShellTypeOK, [ShellNext]_shellVars PROVE ShellTypeOK'
  OBVIOUS
<1>1. scans' \in {scans, scans + 1}
  BY StepRefines, ScansGrow
<1>2. CASE ShellNext
  <2>1. LaunchTypes /\ WindowTypes /\ InboxTypes /\ boxes \in Seq(Box)
    BY DEF ShellTypeOK, LaunchTypes, WindowTypes, InboxTypes
  <2>2. LaunchTypes' /\ WindowTypes' /\ InboxTypes' /\ boxes' \in Seq(Box)
    BY <1>1, <1>2, <2>1, LaunchNext, WindowNext, InboxNext, BoxesNext
  <2>. QED BY <2>2 DEF ShellTypeOK, LaunchTypes, WindowTypes, InboxTypes
<1>3. CASE UNCHANGED shellVars
  BY <1>3 DEF shellVars, vars, chooser, mainVars, ShellTypeOK
<1>. QED BY <1>2, <1>3

THEOREM ShellTypeCorrect == ShellSpec => [](TypeOK /\ ShellTypeOK)
<1>1. ShellSpec => []TypeOK
  BY UsesScanner, TypeCorrect, PTL
<1>. QED BY <1>1, ShellInitType, ShellTypeNext, PTL DEF ShellSpec

(* The QR window and the decoded code *)

\* Before the main window there is no QR window, and the only scan is the chooser's.
BeforeMain == {"launch"} \cup InChooser
EarlyInv ==
    /\ phase \in BeforeMain => qr = NoWindow /\ local = scans /\ ~alive
    /\ phase = "launch" => scans = 0 /\ ~fired

LEMMA HandlersOnlyMove ==
    ASSUME TypeOK, NEW h \in Handlers, Frame(h) \/ HandlerOf(h)
    PROVE  /\ UNCHANGED <<scans, callback, local, qr, qrOpen, alive, handled, devices, boxes>>
           /\ phase' \in {phase, "crashed"}
           /\ scans = 0 => UNCHANGED fired
<1>1. CASE Frame(h)
  BY <1>1 DEF Frame, FrameArrives, scanner, chooser, mainVars
<1>2. CASE Callback(h)
  BY <1>2 DEF Callback, CallBack, scanner
<1>3. CASE HandlerOf(h) /\ ~Callback(h)
  <2>1. scans = 0 => handler[h].at = "idle"
    BY DEF TypeOK
  <2>. QED BY <1>3, <2>1 DEF HandlerOf, CheckFired, NothingDecoded, Claim, ClearRunning,
           StopOwnReader, scanner, chooser, mainVars
<1>. QED BY <1>1, <1>2, <1>3

LEMMA EarlyStep == TypeOK /\ ShellTypeOK /\ EarlyInv /\ [ShellNext]_shellVars => EarlyInv'
<1>. SUFFICES ASSUME TypeOK, ShellTypeOK, EarlyInv, [ShellNext]_shellVars PROVE EarlyInv'
  OBVIOUS
<1>. USE DEF EarlyInv, BeforeMain, InChooser
<1>1. CASE FirstLaunch
  <2>1. CASE ChooseJoin
    BY <2>1 DEF ChooseJoin, Start, mainVars
  <2>2. CASE CameraOpens \/ CameraFails
    BY <2>2 DEF CameraOpens, CameraFails, SetRunning, NoCamera, StartThrows, scanner,
       chooser, mainVars
  <2>3. CASE StopWaiting
    BY <2>3 DEF StopWaiting, Stop, chooser, mainVars
  <2>4. CASE LoadPersisted \/ ChooseCreateOrCancel \/ CreatePlaceholder \/ JoinWithToken
    BY <2>4 DEF LoadPersisted, ChooseCreateOrCancel, CreatePlaceholder, JoinWithToken,
       OpenMain, vars
  <2>5. CASE CheckDone \/ WaitMessage \/ AfterScan \/ ClickInPaste \/ PasteClosed
    BY <2>5 DEF CheckDone, WaitMessage, AfterScan, ClickInPaste, PasteClosed, vars,
       chooser, mainVars
  <2>. QED BY <1>1, <2>1, <2>2, <2>3, <2>4, <2>5 DEF FirstLaunch
<1>2. CASE MainWindow
  <2>1. phase \in {"main", "closing", "crashed"} /\ phase' \in {phase, "closing", "ended"}
    BY <1>2 DEF MainWindow, ClickAdd, ClickAddNoBitmap, ClickRemove, Answer, Returning,
       ReturnFromNotice, ReturnFromAdd, ReturnFromRemove, HandleDecoded, CloseQr, Quit,
       LeaveLoop, End, Enabled, Pumping, ShellTypeOK
  <2>. QED BY <2>1
<1>3. CASE PeersChange \/ CallbackGoesOn
  BY <1>3 DEF PeersChange, CallbackGoesOn, vars, mainVars
<1>4. ASSUME NEW h \in Handlers, Frame(h) \/ HandlerOf(h) PROVE EarlyInv'
  BY <1>4, HandlersOnlyMove
<1>5. CASE ScannerStep
  BY <1>5 DEF ScannerStep, OpenCapture, CreateReader, StartReader, Release, SetRunning,
     NoCamera, StartThrows, scanner, chooser, mainVars
<1>6. CASE UNCHANGED shellVars
  BY <1>6 DEF shellVars, vars, chooser, mainVars
<1>. QED BY <1>1, <1>2, <1>3, <1>4, <1>5, <1>6 DEF ShellNext, OtherThreads

LEMMA LiveStep ==
    ShellTypeOK /\ TypeOK /\ EarlyInv /\ QrHandleIsLive /\ [ShellNext]_shellVars
        => QrHandleIsLive'
<1>. SUFFICES ASSUME ShellTypeOK, TypeOK, EarlyInv, QrHandleIsLive, [ShellNext]_shellVars
              PROVE  QrHandleIsLive'
  OBVIOUS
<1>. USE DEF QrHandleIsLive
<1>1. CASE UNCHANGED <<alive, qr, qrOpen>>
  BY <1>1
<1>2. CASE FirstLaunch
  <2>1. phase \in BeforeMain
    BY <1>2 DEF FirstLaunch, LoadPersisted, ChooseCreateOrCancel, ChooseJoin, CameraOpens,
       CameraFails, CheckDone, WaitMessage, StopWaiting, AfterScan, ClickInPaste,
       PasteClosed, CreatePlaceholder, JoinWithToken, BeforeMain, InChooser
  <2>2. UNCHANGED qr
    BY <1>2 DEF FirstLaunch, LoadPersisted, ChooseCreateOrCancel, ChooseJoin, CameraOpens,
       CameraFails, CheckDone, WaitMessage, StopWaiting, AfterScan, ClickInPaste,
       PasteClosed, CreatePlaceholder, JoinWithToken, mainVars
  <2>. QED BY <2>1, <2>2 DEF EarlyInv
<1>3. CASE MainWindow
  <2>1. CASE ClickAdd
    BY <2>1 DEF ClickAdd
  <2>2. CASE HandleDecoded
    BY <2>2 DEF HandleDecoded
  <2>3. ASSUME NEW w \in Windows, CloseQr(w) PROVE QrHandleIsLive'
    BY <2>3 DEF CloseQr
  <2>4. CASE Quit
    BY <2>4 DEF Quit
  <2>5. CASE ClickAddNoBitmap \/ (\E d \in Peers \cup {Self} : ClickRemove(d))
             \/ (\E i \in 1..Len(boxes) : Answer(i)) \/ LeaveLoop \/ End
             \/ ReturnFromNotice \/ ReturnFromAdd \/ ReturnFromRemove
    BY <1>1, <2>5 DEF ClickAddNoBitmap, ClickRemove, Answer, ReturnFromNotice, ReturnFromAdd,
       ReturnFromRemove, LeaveLoop, End, mainVars
  <2>. QED BY <1>3, <2>1, <2>2, <2>3, <2>4, <2>5 DEF MainWindow
<1>4. CASE PeersChange \/ CallbackGoesOn \/ ScannerStep
  BY <1>1, <1>4 DEF PeersChange, CallbackGoesOn, ScannerStep, mainVars
<1>5. ASSUME NEW h \in Handlers, Frame(h) \/ HandlerOf(h) PROVE QrHandleIsLive'
  BY <1>1, <1>5, HandlersOnlyMove
<1>6. CASE UNCHANGED shellVars
  BY <1>1, <1>6 DEF shellVars, mainVars
<1>. QED BY <1>2, <1>3, <1>4, <1>5, <1>6 DEF ShellNext, OtherThreads

\* The join handler destroys no window but the one on the screen that qr_hwnd_ names,
\* also after an older QR window was closed.
THEOREM QrHandleIsLiveHolds == ShellSpec => []QrHandleIsLive
<1>1. ShellInit => EarlyInv /\ QrHandleIsLive
  BY DEF ShellInit, Init, EarlyInv, QrHandleIsLive, BeforeMain, InChooser, NoScan
<1>. QED BY <1>1, ShellTypeCorrect, EarlyStep, LiveStep, PTL DEF ShellSpec

\* Which steps touch the queue, what has been handled and the counts of the callbacks.
LEMMA QueueSteps ==
    ASSUME [ShellNext]_shellVars
    PROVE  \/ UNCHANGED <<inbox, handled, calls>>
           \/ HandleDecoded \/ Quit \/ \E h \in Handlers : Callback(h)
<1>. USE DEF chooser, mainVars
<1>1. CASE FirstLaunch
  BY <1>1 DEF FirstLaunch, LoadPersisted, ChooseCreateOrCancel, ChooseJoin, CameraOpens,
     CameraFails, CheckDone, WaitMessage, StopWaiting, AfterScan, ClickInPaste, PasteClosed,
     CreatePlaceholder, JoinWithToken, Start, SetRunning, NoCamera, StartThrows, Stop, vars
<1>2. CASE MainWindow
  BY <1>2 DEF MainWindow, ClickAdd, ClickAddNoBitmap, ClickRemove, Answer, ReturnFromNotice,
     ReturnFromAdd, ReturnFromRemove, CloseQr, LeaveLoop, End, StartScan, Start, Stop, vars
<1>3. CASE OtherThreads
  BY <1>3 DEF OtherThreads, PeersChange, CallbackGoesOn, Frame, FrameArrives, HandlerOf,
     CheckFired, NothingDecoded, Claim, ClearRunning, StopOwnReader, vars
<1>4. CASE ScannerStep
  BY <1>4 DEF ScannerStep, OpenCapture, CreateReader, StartReader, Release, SetRunning,
     NoCamera, StartThrows
<1>5. CASE UNCHANGED shellVars
  BY <1>5 DEF shellVars, vars
<1>. QED BY <1>1, <1>2, <1>3, <1>4, <1>5 DEF ShellNext

\* A claimed code stays in the hands of its handler until the call, and only a claim
\* sets the flag.
LEMMA HandsHold ==
    ASSUME TypeOK, [ShellNext]_shellVars, NEW i \in Handlers, handler[i].at \in Claimed
    PROVE  \/ handler'[i].at \in Claimed /\ handler'[i].cb = handler[i].cb
           \/ Callback(i)
<1>1. CASE UNCHANGED handler
  BY <1>1
<1>2. ASSUME NEW h \in Handlers, Frame(h) \/ HandlerOf(h), ~Callback(h)
      PROVE  handler'[i].at \in Claimed /\ handler'[i].cb = handler[i].cb
  <2>1. CASE Frame(h) \/ CheckFired(h) \/ NothingDecoded(h) \/ Claim(h)
    BY <2>1 DEF Frame, FrameArrives, CheckFired, NothingDecoded, Claim, Return, Enter, Idle,
       TypeOK, Claimed
  <2>2. CASE ClearRunning(h) \/ StopOwnReader(h)
    BY <2>2 DEF ClearRunning, StopOwnReader, Enter, TypeOK, Claimed
  <2>. QED BY <1>2, <2>1, <2>2 DEF HandlerOf
<1>3. ASSUME NEW h \in Handlers, Callback(h), h # i
      PROVE  handler'[i].at \in Claimed /\ handler'[i].cb = handler[i].cb
  BY <1>3 DEF Callback, CallBack, Return, TypeOK
<1>4. CASE FirstLaunch
  BY <1>1, <1>4 DEF FirstLaunch, LoadPersisted, ChooseCreateOrCancel, ChooseJoin, CameraOpens,
     CameraFails, CheckDone, WaitMessage, StopWaiting, AfterScan, ClickInPaste, PasteClosed,
     CreatePlaceholder, JoinWithToken, Start, SetRunning, NoCamera, StartThrows, Stop, vars
<1>5. CASE MainWindow
  BY <1>1, <1>5 DEF MainWindow, ClickAdd, ClickAddNoBitmap, ClickRemove, Answer,
     ReturnFromNotice, ReturnFromAdd, ReturnFromRemove, HandleDecoded, CloseQr, Quit,
     LeaveLoop, End, StartScan, Start, Stop, vars
<1>6. CASE OtherThreads
  BY <1>1, <1>2, <1>3, <1>6 DEF OtherThreads, PeersChange, CallbackGoesOn, vars
<1>7. CASE ScannerStep
  BY <1>1, <1>7 DEF ScannerStep, OpenCapture, CreateReader, StartReader, Release, SetRunning,
     NoCamera, StartThrows
<1>8. CASE UNCHANGED shellVars
  BY <1>1, <1>8 DEF shellVars, vars
<1>. QED BY <1>4, <1>5, <1>6, <1>7, <1>8 DEF ShellNext

LEMMA OnlyClaimsFire ==
    ASSUME TypeOK, [ShellNext]_shellVars, ~fired, fired'
    PROVE  \E h \in Handlers : Claim(h)
<1>1. ~UNCHANGED fired
  OBVIOUS
<1>2. CASE FirstLaunch
  BY <1>1, <1>2 DEF FirstLaunch, LoadPersisted, ChooseCreateOrCancel, ChooseJoin, CameraOpens,
     CameraFails, CheckDone, WaitMessage, StopWaiting, AfterScan, ClickInPaste, PasteClosed,
     CreatePlaceholder, JoinWithToken, Start, SetRunning, NoCamera, StartThrows, Stop, vars,
     scanner
<1>3. CASE MainWindow
  BY <1>1, <1>3 DEF MainWindow, ClickAdd, ClickAddNoBitmap, ClickRemove, Answer,
     ReturnFromNotice, ReturnFromAdd, ReturnFromRemove, HandleDecoded, CloseQr, Quit,
     LeaveLoop, End, StartScan, Start, Stop, vars
<1>4. CASE OtherThreads
  BY <1>1, <1>4 DEF OtherThreads, PeersChange, CallbackGoesOn, Frame, FrameArrives, HandlerOf,
     Callback, CallBack, CheckFired, NothingDecoded, ClearRunning, StopOwnReader, vars, scanner
<1>5. CASE ScannerStep
  BY <1>1, <1>5 DEF ScannerStep, OpenCapture, CreateReader, StartReader, Release, SetRunning,
     NoCamera, StartThrows, scanner
<1>6. CASE UNCHANGED shellVars
  BY <1>1, <1>6 DEF shellVars, vars
<1>. QED BY <1>2, <1>3, <1>4, <1>5, <1>6 DEF ShellNext

\* What is in the queue is dealt with or still there after its first message has been
\* handled.
LEMMA HandledOrQueued ==
    ASSUME ShellTypeOK, scans \in 0..MaxScans, HandleDecoded, NEW s \in Scans,
           Queued(s) \/ handled[s] > 0
    PROVE  Queued(s)' \/ handled'[s] > 0
<1>1. inbox \in Seq(1..scans) /\ inbox # <<>> /\ inbox' = Tail(inbox)
      /\ handled' = [handled EXCEPT ![Head(inbox)] = @ + 1] /\ handled \in [Scans -> Nat]
  BY DEF HandleDecoded, ShellTypeOK
<1>2. CASE handled[s] > 0
  <2>1. handled'[s] \in {handled[s], handled[s] + 1} /\ handled[s] \in Nat
    BY <1>1
  <2>. QED BY <1>2, <2>1
<1>3. ASSUME NEW i \in 1..Len(inbox), inbox[i] = s PROVE Queued(s)' \/ handled'[s] > 0
  <2>1. CASE i = 1
    <3>1. Head(inbox) = s
      BY <1>1, <1>3, <2>1
    <3>2. handled'[s] = handled[s] + 1 /\ handled[s] \in Nat
      BY <1>1, <3>1
    <3>. QED BY <3>2
  <2>2. CASE i # 1
    <3>1. i - 1 \in 1..Len(Tail(inbox)) /\ Tail(inbox)[i - 1] = inbox[i]
      BY <1>1, <2>2
    <3>. QED BY <1>1, <1>3, <3>1 DEF Queued
  <2>. QED BY <2>1, <2>2
<1>. QED BY <1>2, <1>3 DEF Queued

LEMMA KeptStep ==
    ASSUME TypeOK, ShellTypeOK, [ShellNext]_shellVars, alive', NEW s \in Scans, s # local,
           Kept(s) \/ Claiming(s)
    PROVE  Kept(s)'
<1>0. scans \in 0..MaxScans /\ inbox \in Seq(1..scans)
  BY DEF TypeOK, ShellTypeOK
<1>1. CASE Claiming(s)
  <2>1. PICK h \in Handlers : Claim(h)
    BY <1>1, OnlyClaimsFire DEF Claiming
  <2>2. handler'[h].at = "claimed" /\ handler'[h].cb = s
    BY <1>1, <2>1 DEF Claim, Claiming, TypeOK
  <2>. QED BY <2>2 DEF Kept, Taken, Claimed
<1>2. ASSUME NEW i \in Handlers, handler[i].at \in Claimed, handler[i].cb = s
      PROVE  Kept(s)'
  <2>1. CASE handler'[i].at \in Claimed /\ handler'[i].cb = s
    BY <2>1 DEF Kept, Taken
  <2>2. CASE Callback(i)
    <3>1. alive /\ inbox' = Append(inbox, s)
      BY <1>2, <2>2 DEF Callback
    <3>2. s \in 1..scans
      BY <1>2 DEF TypeOK
    <3>3. Len(inbox') = Len(inbox) + 1 /\ inbox'[Len(inbox) + 1] = s
      BY <1>0, <3>1, <3>2
    <3>4. Len(inbox) + 1 \in 1..Len(inbox')
      BY <1>0, <3>3
    <3>. QED BY <3>3, <3>4 DEF Kept, Queued
  <2>. QED BY <1>2, <2>1, <2>2, HandsHold
<1>3. CASE Queued(s) \/ handled[s] > 0
  <2>1. CASE UNCHANGED <<inbox, handled, calls>>
    BY <1>3, <2>1 DEF Kept, Queued
  <2>2. CASE HandleDecoded
    BY <1>0, <1>3, <2>2, HandledOrQueued DEF Kept
  <2>3. ASSUME NEW h \in Handlers, Callback(h) PROVE Kept(s)'
    <3>1. handled' = handled /\ inbox' \in {inbox, Append(inbox, handler[h].cb)}
      BY <2>3 DEF Callback
    <3>2. handler[h].cb \in 1..scans
      BY <2>3 DEF Callback, CallBack, TypeOK, Claimed
    <3>3. Len(inbox') >= Len(inbox) /\ \A j \in 1..Len(inbox) : inbox'[j] = inbox[j]
      <4>1. CASE inbox' = inbox
        BY <1>0, <4>1
      <4>2. CASE inbox' = Append(inbox, handler[h].cb)
        BY <1>0, <3>2, <4>2
      <4>. QED BY <3>1, <4>1, <4>2
    <3>4. ASSUME NEW j \in 1..Len(inbox), inbox[j] = s PROVE Queued(s)'
      <4>1. Len(inbox) \in Nat /\ Len(inbox') \in Nat
        BY <1>0, <3>1, <3>2
      <4>2. j \in 1..Len(inbox') /\ inbox'[j] = s
        BY <3>3, <3>4, <4>1
      <4>. QED BY <4>2 DEF Queued
    <3>5. Queued(s) => Queued(s)'
      BY <3>4 DEF Queued
    <3>. QED BY <1>3, <3>1, <3>5 DEF Kept
  <2>. QED BY <2>1, <2>2, <2>3, QueueSteps DEF Quit
<1>. QED BY <1>1, <1>2, <1>3 DEF Kept, Taken

LEMMA KeptAction ==
    TypeOK /\ ShellTypeOK /\ [ShellNext]_shellVars =>
        [alive' => \A s \in Scans \ {local} : Kept(s) \/ Claiming(s) => Kept(s)']_shellVars
BY KeptStep

\* No code that a handler has claimed for a scan of the main window is lost before the
\* user quits, whichever scans are stopped and started around it.
THEOREM CodeIsKeptHolds == ShellSpec => CodeIsKept
<1>. QED BY ShellTypeCorrect, KeptAction, PTL DEF ShellSpec, CodeIsKept

\* What is queued or handled has been called back, so it is not called back again.
CalledInv == \A s \in Scans : Queued(s) \/ handled[s] > 0 => calls[s] > 0

LEMMA JoinedCallback ==
    ASSUME TypeOK, ShellTypeOK, JoinedOnce, CalledInv, SingleFire', NEW h \in Handlers,
           Callback(h)
    PROVE  JoinedOnce' /\ CalledInv'
<1>. DEFINE c == handler[h].cb
<1>0. /\ inbox \in Seq(1..scans) /\ scans \in 0..MaxScans /\ MaxScans \in Nat
      /\ calls \in [Scans -> Nat] /\ handled \in [Scans -> Nat]
  BY ScannerAssumption DEF TypeOK, ShellTypeOK
<1>1. c \in 1..scans /\ calls' = [calls EXCEPT ![c] = @ + 1] /\ handled' = handled
      /\ inbox' \in {inbox, Append(inbox, c)}
  BY DEF Callback, CallBack, TypeOK, Claimed
<1>. HIDE DEF c
<1>2. c \in Scans
  BY <1>0, <1>1 DEF Scans
<1>3. calls[c] = 0
  BY <1>0, <1>1, <1>2 DEF SingleFire
<1>4. ~Queued(c) /\ ~(handled[c] > 0)
  BY <1>2, <1>3 DEF CalledInv
<1>5. \A s \in Scans : calls'[s] >= calls[s] /\ (s = c => calls'[s] > 0)
  BY <1>0, <1>1, <1>2
<1>6. \A i \in 1..Len(inbox') :
         \/ i \in 1..Len(inbox) /\ inbox'[i] = inbox[i]
         \/ i = Len(inbox) + 1 /\ inbox'[i] = c
  <2>1. CASE inbox' = inbox
    BY <2>1
  <2>2. CASE inbox' = Append(inbox, c)
    <3>1. Len(inbox') = Len(inbox) + 1 /\ inbox'[Len(inbox) + 1] = c
          /\ \A j \in 1..Len(inbox) : inbox'[j] = inbox[j]
      BY <1>0, <1>1, <2>2
    <3>2. Len(inbox) \in Nat
      BY <1>0
    <3>. QED BY <3>1, <3>2
  <2>. QED BY <1>1, <2>1, <2>2
<1>7. \A s : Queued(s)' => Queued(s) \/ s = c
  BY <1>6 DEF Queued
<1>8. CalledInv'
  <2>. SUFFICES ASSUME NEW s \in Scans, Queued(s)' \/ handled[s] > 0 PROVE calls'[s] > 0
    BY <1>1 DEF CalledInv
  <2>1. CASE s = c
    BY <1>5, <2>1
  <2>2. CASE s # c
    <3>1. calls[s] > 0 /\ calls[s] \in Nat /\ calls'[s] = calls[s]
      BY <1>0, <1>1, <1>7, <2>2 DEF CalledInv
    <3>. QED BY <3>1
  <2>. QED BY <2>1, <2>2
<1>9. \A s \in Scans : handled'[s] <= 1 /\ (Queued(s)' => handled'[s] = 0)
  <2>. SUFFICES ASSUME NEW s \in Scans
                PROVE  handled[s] <= 1 /\ (Queued(s)' => handled[s] = 0)
    BY <1>1
  <2>1. handled[c] = 0
    BY <1>0, <1>2, <1>4
  <2>. QED BY <1>7, <2>1 DEF JoinedOnce
<1>10. \A i, j \in 1..Len(inbox') : inbox'[i] = inbox'[j] => i = j
  <2>. SUFFICES ASSUME NEW i \in 1..Len(inbox'), NEW j \in 1..Len(inbox'),
                       inbox'[i] = inbox'[j]
                PROVE  i = j
    OBVIOUS
  <2>. QED BY <1>4, <1>6 DEF JoinedOnce, Queued
<1>. QED BY <1>8, <1>9, <1>10 DEF JoinedOnce

LEMMA JoinedHandled ==
    ASSUME TypeOK, ShellTypeOK, JoinedOnce, CalledInv, HandleDecoded
    PROVE  JoinedOnce' /\ CalledInv'
<1>. DEFINE c == Head(inbox)
<1>0. /\ inbox \in Seq(1..scans) /\ scans \in 0..MaxScans /\ MaxScans \in Nat
      /\ handled \in [Scans -> Nat] /\ inbox # <<>> /\ inbox' = Tail(inbox)
      /\ handled' = [handled EXCEPT ![c] = @ + 1] /\ calls' = calls
  BY ScannerAssumption DEF TypeOK, ShellTypeOK, HandleDecoded, vars
<1>1. c = inbox[1] /\ 1 \in 1..Len(inbox) /\ c \in Scans
  BY <1>0 DEF Scans
<1>. HIDE DEF c
<1>2. \A i \in 1..Len(inbox') : i + 1 \in 1..Len(inbox) /\ inbox'[i] = inbox[i + 1]
  BY <1>0
<1>3. \A s : Queued(s)' => Queued(s) /\ s # c
  <2>. SUFFICES ASSUME NEW i \in 1..Len(inbox')
                PROVE  Queued(inbox'[i]) /\ inbox'[i] # c
    BY DEF Queued
  <2>1. i + 1 \in 1..Len(inbox) /\ inbox'[i] = inbox[i + 1] /\ i + 1 # 1
    BY <1>2
  <2>. QED BY <1>1, <2>1 DEF Queued, JoinedOnce
<1>4. Queued(c) /\ handled[c] = 0
  BY <1>1 DEF Queued, JoinedOnce
<1>5. handled'[c] = 1 /\ \A s \in Scans : s # c => handled'[s] = handled[s]
  BY <1>0, <1>1, <1>4
<1>6. CalledInv'
  <2>. SUFFICES ASSUME NEW s \in Scans, Queued(s)' \/ handled'[s] > 0 PROVE calls[s] > 0
    BY <1>0 DEF CalledInv
  <2>. QED BY <1>3, <1>4, <1>5 DEF CalledInv
<1>7. \A s \in Scans : handled'[s] <= 1 /\ (Queued(s)' => handled'[s] = 0)
  BY <1>3, <1>5 DEF JoinedOnce
<1>8. \A i, j \in 1..Len(inbox') : inbox'[i] = inbox'[j] => i = j
  <2>. SUFFICES ASSUME NEW i \in 1..Len(inbox'), NEW j \in 1..Len(inbox'),
                       inbox'[i] = inbox'[j]
                PROVE  i = j
    OBVIOUS
  <2>1. i + 1 = j + 1
    BY <1>2 DEF JoinedOnce
  <2>. QED BY <2>1
<1>. QED BY <1>6, <1>7, <1>8 DEF JoinedOnce

LEMMA JoinedStep ==
    TypeOK /\ ShellTypeOK /\ JoinedOnce /\ CalledInv /\ SingleFire' /\ [ShellNext]_shellVars
        => JoinedOnce' /\ CalledInv'
<1>. SUFFICES ASSUME TypeOK, ShellTypeOK, JoinedOnce, CalledInv, SingleFire',
                     [ShellNext]_shellVars
              PROVE  JoinedOnce' /\ CalledInv'
  OBVIOUS
<1>1. CASE UNCHANGED <<inbox, handled, calls>>
  BY <1>1 DEF JoinedOnce, CalledInv, Queued
<1>2. CASE Quit
  <2>1. inbox' = <<>> /\ UNCHANGED <<handled, calls>>
    BY <1>2 DEF Quit, vars
  <2>. QED BY <2>1 DEF JoinedOnce, CalledInv, Queued
<1>. QED BY <1>1, <1>2, QueueSteps, JoinedCallback, JoinedHandled

\* No code is joined with twice, for any number of scans, handlers and message boxes: it
\* follows from the single call of each callback and from the queue.
THEOREM JoinedOnceHolds == ShellSpec => []JoinedOnce
<1>1. ShellInit => JoinedOnce /\ CalledInv
  BY DEF ShellInit, JoinedOnce, CalledInv, Queued
<1>. QED BY <1>1, ShellTypeCorrect, ShellSingleFire, JoinedStep, PTL DEF ShellSpec
=============================================================================
