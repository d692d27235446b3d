--------------------------- MODULE CameraScanner ---------------------------
(***************************************************************************)
(* CameraQrScanner between its two sides: the UI thread, which starts and  *)
(* stops scans, and the threads of the WinRT pool on which FrameArrived    *)
(* handlers run.  A handler of one scan may still be busy when the UI has  *)
(* stopped that scan and started the next: StopAsync does not wait for it. *)
(*                                                                         *)
(* Scans are numbered; the callback, the frame reader and the capture of a *)
(* scan go by its number, and NoScan is a null pointer.                    *)
(***************************************************************************)
EXTENDS Integers

CONSTANTS
    Handlers,   \* threads of the WinRT pool
    Faults,     \* TRUE: calls into WinRT may throw or return a failed status
    MaxScans    \* bound on the calls of start() that get past its first line

ASSUME ScannerAssumption == Faults \in BOOLEAN /\ MaxScans \in Nat

VARIABLES
    running,    \* running_
    fired,      \* impl_->fired
    callback,   \* impl_->callback
    capture,    \* impl_->capture
    reader,     \* impl_->frame_reader
    streaming,  \* the readers that raise FrameArrived
    ui,         \* where the UI thread is
    handler,    \* handler[h]: step, the reader it serves, the callback it took
    scans,      \* number of the current scan
    calls       \* calls[s]: how often the callback of scan s has been called

scanner == <<running, fired, callback, capture, reader, streaming>>
vars == <<running, fired, callback, capture, reader, streaming, ui, handler,
          scans, calls>>

NoScan == 0
Scans == 1..MaxScans

\* Steps of a handler, the last three with the callback in its hands.
Claimed == {"claimed", "stopping", "calling"}
Steps   == {"idle", "arrived", "decoding"} \cup Claimed

Idle == [at |-> "idle", reader |-> NoScan, cb |-> NoScan]

TypeOK ==
    /\ running \in BOOLEAN /\ fired \in BOOLEAN
    /\ scans \in 0..MaxScans
    /\ callback = scans
    /\ capture \in 0..scans /\ reader \in 0..scans
    /\ streaming \subseteq {reader} \ {NoScan}
    /\ ui \in {"idle", "opening", "captured", "reading", "started", "stopping", "stopped"}
    /\ ui \in {"opening", "captured", "reading"} => scans > 0
    /\ ui = "reading" => reader = scans
    /\ handler \in [Handlers -> [at : Steps, reader : 0..MaxScans, cb : 0..MaxScans]]
    /\ \A h \in Handlers :
          /\ handler[h].at # "idle" => handler[h].reader \in 1..scans
          /\ handler[h].at \in Claimed => handler[h].cb \in 1..scans
    /\ calls \in [Scans -> Nat]

Init ==
    /\ running = FALSE /\ fired = FALSE
    /\ callback = NoScan /\ capture = NoScan /\ reader = NoScan
    /\ streaming = {}
    /\ ui = "idle"
    /\ handler = [h \in Handlers |-> Idle]
    /\ scans = 0
    /\ calls = [s \in Scans |-> 0]

-----------------------------------------------------------------------------
(* start(), on the UI thread *)

\* "Add Device", or the join path of the first launch.
Start ==
    /\ ui \in {"idle", "stopped"} /\ ~running
    /\ scans < MaxScans
    /\ scans' = scans + 1
    /\ callback' = scans + 1 /\ fired' = FALSE
    /\ ui' = "opening"
    /\ UNCHANGED <<running, capture, reader, streaming, handler, calls>>

OpenCapture ==
    /\ ui = "opening" /\ ui' = "captured"
    /\ capture' = scans
    /\ UNCHANGED <<running, fired, callback, reader, streaming, handler, scans, calls>>

\* The previous reader, if it is still there, loses its last reference.
CreateReader ==
    /\ ui = "captured" /\ ui' = "reading"
    /\ reader' = scans
    /\ streaming' = {}
    /\ UNCHANGED <<running, fired, callback, capture, handler, scans, calls>>

\* The status StartAsync returns is not looked at.
StartReader ==
    /\ ui = "reading" /\ ui' = "started"
    /\ \/ streaming' = {reader}
       \/ Faults /\ UNCHANGED streaming
    /\ UNCHANGED <<running, fired, callback, capture, reader, handler, scans, calls>>

SetRunning ==
    /\ ui = "started" /\ ui' = "idle"
    /\ running' = TRUE
    /\ UNCHANGED <<fired, callback, capture, reader, streaming, handler, scans, calls>>

NoCamera ==
    /\ ui = "opening" /\ ui' = "idle"
    /\ UNCHANGED <<scanner, handler, scans, calls>>

StartThrows ==
    /\ Faults
    /\ ui \in {"opening", "captured", "reading"} /\ ui' = "idle"
    /\ running' = FALSE
    /\ UNCHANGED <<fired, callback, capture, reader, streaming, handler, scans, calls>>

-----------------------------------------------------------------------------
(* stop(), on the UI thread: the QR window is closed, or the program ends *)

Stop ==
    /\ ui \in {"idle", "stopped"}
    /\ ui' = IF running THEN "stopping" ELSE "stopped"
    /\ running' = FALSE
    /\ UNCHANGED <<fired, callback, capture, reader, streaming, handler, scans, calls>>

\* Mutant: stop() clears the callback too.
Release_Callback ==
    /\ ui = "stopping" /\ ui' = "stopped"
    /\ streaming' = {} /\ reader' = NoScan /\ capture' = NoScan
    /\ callback' = NoScan
    /\ UNCHANGED <<running, fired, handler, scans, calls>>

\* If StopAsync throws, neither the reader nor the capture is released.
Release ==
    /\ ui = "stopping" /\ ui' = "stopped"
    /\ \/ streaming' = {} /\ reader' = NoScan /\ capture' = NoScan
       \/ Faults /\ UNCHANGED <<streaming, reader, capture>>
    /\ UNCHANGED <<running, fired, callback, handler, scans, calls>>

-----------------------------------------------------------------------------
(* The FrameArrived handler *)

Enter(h, at) == handler' = [handler EXCEPT ![h].at = at]
Return(h)    == handler' = [handler EXCEPT ![h] = Idle]

FrameArrives(h) ==
    /\ handler[h] = Idle
    /\ streaming # {} /\ running
    /\ handler' = [handler EXCEPT ![h] =
                      [at |-> "arrived", reader |-> reader, cb |-> NoScan]]
    /\ UNCHANGED <<scanner, ui, scans, calls>>

CheckFired(h) ==
    /\ handler[h].at = "arrived"
    /\ IF fired THEN Return(h) ELSE Enter(h, "decoding")
    /\ UNCHANGED <<scanner, ui, scans, calls>>

\* No frame, or no QR code in it.
NothingDecoded(h) ==
    /\ handler[h].at = "decoding"
    /\ Return(h)
    /\ UNCHANGED <<scanner, ui, scans, calls>>

\* Mutant: the flag is not looked at again after decoding.
Claim_Unchecked(h) ==
    /\ handler[h].at = "decoding"
    /\ fired' = TRUE
    /\ handler' = [handler EXCEPT ![h].at = "claimed", ![h].cb = callback]
    /\ UNCHANGED <<running, callback, capture, reader, streaming, ui, scans, calls>>

\* Mutant: each scan keeps its callback with its reader, so start() replaces none.
Claim_ByReader(h) ==
    /\ handler[h].at = "decoding"
    /\ fired' = TRUE
    /\ IF fired THEN Return(h)
       ELSE handler' = [handler EXCEPT ![h].at = "claimed", ![h].cb = handler[h].reader]
    /\ UNCHANGED <<running, callback, capture, reader, streaming, ui, scans, calls>>

\* Under callback_mutex: the second look at the flag, and the callback of the current scan.
Claim(h) ==
    /\ handler[h].at = "decoding"
    /\ fired' = TRUE
    /\ IF fired THEN Return(h)
       ELSE handler' = [handler EXCEPT ![h].at = "claimed", ![h].cb = callback]
    /\ UNCHANGED <<running, callback, capture, reader, streaming, ui, scans, calls>>

\* Mutant: as stop() does, return early if the scanner is not running.
ClearRunning_OrReturn(h) ==
    /\ handler[h].at = "claimed"
    /\ running' = FALSE
    /\ IF running THEN Enter(h, "stopping") ELSE Return(h)
    /\ UNCHANGED <<fired, callback, capture, reader, streaming, ui, scans, calls>>

ClearRunning(h) ==
    /\ handler[h].at = "claimed"
    /\ running' = FALSE
    /\ Enter(h, "stopping")
    /\ UNCHANGED <<fired, callback, capture, reader, streaming, ui, scans, calls>>

\* The reader that raised the event, which may no longer be the current one.
StopOwnReader(h) ==
    /\ handler[h].at = "stopping"
    /\ \/ streaming' = streaming \ {handler[h].reader}
       \/ Faults /\ UNCHANGED streaming
    /\ Enter(h, "calling")
    /\ UNCHANGED <<running, fired, callback, capture, reader, ui, scans, calls>>

CallBack(h) ==
    /\ handler[h].at = "calling"
    /\ calls' = [calls EXCEPT ![handler[h].cb] = @ + 1]
    /\ Return(h)
    /\ UNCHANGED <<scanner, ui, scans>>

-----------------------------------------------------------------------------
Starting == OpenCapture \/ CreateReader \/ StartReader \/ SetRunning
            \/ NoCamera \/ StartThrows

HandlerStep(h) == CheckFired(h) \/ NothingDecoded(h) \/ Claim(h) \/ ClearRunning(h)
                  \/ StopOwnReader(h) \/ CallBack(h)

Next ==
    \/ Start \/ Starting \/ Stop \/ Release
    \/ \E h \in Handlers : FrameArrives(h) \/ HandlerStep(h)

Spec == Init /\ [][Next]_vars

-----------------------------------------------------------------------------
(* Properties *)

\* camera_qr_scanner.hpp:38, "called exactly once": however many frames are
\* being decoded, and although start() resets the flag under the handlers of an
\* earlier scan, no callback is called twice.
SingleFire == \A s \in Scans : calls[s] <= 1

\* camera_qr_scanner.hpp:54, "Stops the frame reader and releases the camera":
\* after stop() and before the next start() the scanner holds neither, at the
\* latest when its handlers are done.
StopReleasesCamera ==
    ui = "stopped" /\ (\A h \in Handlers : handler[h] = Idle)
        => reader = NoScan /\ capture = NoScan

\* The callback of scan s as its owner sees it.
Taken(s) == \E h \in Handlers : handler[h].at \in Claimed /\ handler[h].cb = s

stage == [s \in Scans |->
    IF s > scans THEN "new"
    ELSE IF Taken(s) THEN "taken"
    ELSE IF s = scans /\ ~fired THEN "armed"
    ELSE "over"]

Promise == INSTANCE OneShot

\* The scanner keeps the promise of module OneShot: start() ends the chance of the
\* callback before it, also with handlers of that scan still at work, a handler takes
\* only the callback that is armed, and calls it once, whatever happened since.
ImplementsOneShot == Promise!Spec
=============================================================================
