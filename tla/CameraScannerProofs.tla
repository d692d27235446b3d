------------------------ MODULE CameraScannerProofs ------------------------
(***************************************************************************)
(* No callback of CameraScanner is called twice, for any number of         *)
(* handlers and scans, with or without failing calls into WinRT.           *)
(***************************************************************************)
EXTENDS CameraScanner, TLAPS

\* Handler h has taken the callback of scan s and has not called it yet.
Holds(h, s) == handler[h].at \in Claimed /\ handler[h].cb = s

\* The strengthening of SingleFire.  At most one handler holds the callback of a
\* scan and none once it has been called; while the scan is the current one
\* "fired" is set from the claim on; a scan to come has not been called.
OneHolder == \A s \in Scans : \A h, i \in Handlers : Holds(h, s) /\ Holds(i, s) => h = i

HeldIsUncalled == \A s \in Scans : \A h \in Handlers : Holds(h, s) => calls[s] = 0

FiredFromClaim == \A s \in Scans :
    /\ \A h \in Handlers : s = scans /\ Holds(h, s) => fired
    /\ s = scans /\ calls[s] # 0 => fired

FutureIsUncalled == \A s \in Scans : s > scans => calls[s] = 0

SingleInv == OneHolder /\ HeldIsUncalled /\ FiredFromClaim /\ FutureIsUncalled

\* The type invariant in parts.
HandlerTypes ==
    /\ handler \in [Handlers -> [at : Steps, reader : 0..MaxScans, cb : 0..MaxScans]]
    /\ \A h \in Handlers :
          /\ handler[h].at # "idle" => handler[h].reader \in 1..scans
          /\ handler[h].at \in Claimed => handler[h].cb \in 1..scans

Flags ==
    /\ running \in BOOLEAN /\ fired \in BOOLEAN
    /\ ui \in {"idle", "opening", "captured", "reading", "started", "stopping", "stopped"}
    /\ calls \in [Scans -> Nat]

Numbers ==
    /\ scans \in 0..MaxScans
    /\ callback = scans
    /\ capture \in 0..scans /\ reader \in 0..scans
    /\ streaming \subseteq {reader} \ {NoScan}
    /\ ui \in {"opening", "captured", "reading"} => scans > 0
    /\ ui = "reading" => reader = scans

ScannerTypes == Flags /\ Numbers

LEMMA TypeParts == TypeOK <=> ScannerTypes /\ HandlerTypes
BY DEF TypeOK, ScannerTypes, Flags, Numbers, HandlerTypes

LEMMA IdleType == Idle \in [at : Steps, reader : 0..MaxScans, cb : 0..MaxScans] /\ Idle.at = "idle"
BY ScannerAssumption DEF Idle, Steps, NoScan

LEMMA InitInv == Init => TypeOK /\ SingleFire /\ SingleInv
<1>. SUFFICES ASSUME Init PROVE TypeOK /\ SingleFire /\ SingleInv
  OBVIOUS
<1>1. ScannerTypes
  <2>1. Flags
    BY DEF Init, Flags
  <2>2. Numbers
    BY ScannerAssumption DEF Init, Numbers, NoScan
  <2>. QED BY <2>1, <2>2 DEF ScannerTypes
<1>2. HandlerTypes
  BY IdleType DEF Init, HandlerTypes, Claimed
<1>3. \A h \in Handlers : handler[h].at = "idle"
  BY IdleType DEF Init
<1>4. \A s \in Scans : calls[s] = 0
  BY DEF Init
<1>5. \A h \in Handlers : \A s \in Scans : ~Holds(h, s)
  BY <1>3 DEF Holds, Claimed
<1>. QED BY <1>1, <1>2, <1>4, <1>5, TypeParts
         DEF SingleFire, SingleInv, OneHolder, HeldIsUncalled, FiredFromClaim, FutureIsUncalled

\* A record of a handler that is replaced by a good one stays good.
LEMMA HandlerChange ==
    ASSUME HandlerTypes, NEW h \in Handlers, scans' = scans,
           NEW r \in [at : Steps, reader : 0..MaxScans, cb : 0..MaxScans],
           handler' = [handler EXCEPT ![h] = r],
           r.at # "idle" => r.reader \in 1..scans,
           r.at \in Claimed => r.cb \in 1..scans
    PROVE  HandlerTypes'
<1>1. handler' \in [Handlers -> [at : Steps, reader : 0..MaxScans, cb : 0..MaxScans]]
  BY DEF HandlerTypes
<1>2. \A i \in Handlers : handler'[i] = IF i = h THEN r ELSE handler[i]
  BY DEF HandlerTypes
<1>. QED BY <1>1, <1>2 DEF HandlerTypes

LEMMA ReturnKeeps ==
    ASSUME HandlerTypes, NEW h \in Handlers, scans' = scans, Return(h)
    PROVE  HandlerTypes'
BY HandlerChange, IdleType DEF Return, Claimed

LEMMA EnterKeeps ==
    ASSUME HandlerTypes, NEW h \in Handlers, scans' = scans, NEW at \in Steps,
           Enter(h, at), handler[h].at # "idle", at \in Claimed => handler[h].at \in Claimed
    PROVE  HandlerTypes'
<1>. DEFINE r == [handler[h] EXCEPT !.at = at]
<1>1. r \in [at : Steps, reader : 0..MaxScans, cb : 0..MaxScans]
  BY DEF HandlerTypes
<1>2. r.at = at /\ r.reader = handler[h].reader /\ r.cb = handler[h].cb
  BY DEF HandlerTypes
<1>3. handler' = [handler EXCEPT ![h] = r]
  BY DEF Enter, HandlerTypes
<1>4. r.at # "idle" => r.reader \in 1..scans
  BY <1>2 DEF HandlerTypes
<1>5. r.at \in Claimed => r.cb \in 1..scans
  BY <1>2 DEF HandlerTypes
<1>. HIDE DEF r
<1>. QED BY <1>1, <1>3, <1>4, <1>5, HandlerChange

\* Every step keeps the types.
LEMMA TypeStep == TypeOK /\ [Next]_vars => TypeOK'
<1>. SUFFICES ASSUME ScannerTypes, HandlerTypes, [Next]_vars
              PROVE  ScannerTypes' /\ HandlerTypes'
  BY DEF TypeOK, ScannerTypes, Flags, Numbers, HandlerTypes
<1>. USE ScannerAssumption DEF scanner, NoScan
<1>1. CASE Start
  <2>1. Flags' /\ Numbers'
    <3>1. Flags'
      BY <1>1 DEF Start, ScannerTypes, Flags
    <3>2. Numbers'
      BY <1>1 DEF Start, ScannerTypes, Numbers
    <3>. QED BY <3>1, <3>2
  <2>2. \A k \in 1..scans : k \in 1..scans'
    BY <1>1 DEF Start, ScannerTypes, Numbers
  <2>3. handler' = handler
    BY <1>1 DEF Start
  <2>. QED BY <2>1, <2>2, <2>3 DEF HandlerTypes, ScannerTypes
<1>2. CASE Starting \/ Stop \/ Release \/ UNCHANGED vars
  <2>1. Flags'
    BY <1>2 DEF Starting, OpenCapture, CreateReader, StartReader, SetRunning, NoCamera,
                StartThrows, Stop, Release, vars, ScannerTypes, Flags
  <2>3. Numbers'
    <3>1. CASE OpenCapture
      BY <3>1 DEF OpenCapture, ScannerTypes, Numbers
    <3>2. CASE CreateReader
      BY <3>2 DEF CreateReader, ScannerTypes, Numbers
    <3>3. CASE StartReader
      <4>1. UNCHANGED <<running, fired, callback, capture, reader, scans>> /\ ui' = "started"
        BY <3>3 DEF StartReader
      <4>2. reader # NoScan
        BY <3>3 DEF StartReader, ScannerTypes, Numbers
      <4>3. streaming' \subseteq {reader} \ {NoScan}
        BY <3>3, <4>2 DEF StartReader, ScannerTypes, Numbers
      <4>. QED BY <4>1, <4>3 DEF ScannerTypes, Numbers
    <3>4. CASE SetRunning \/ NoCamera \/ StartThrows \/ Stop \/ UNCHANGED vars
      BY <3>4 DEF SetRunning, NoCamera, StartThrows, Stop, vars, ScannerTypes, Numbers
    <3>5. CASE Release
      <4>1. CASE UNCHANGED <<streaming, reader, capture>>
        BY <3>5, <4>1 DEF Release, ScannerTypes, Numbers
      <4>2. CASE streaming' = {} /\ reader' = NoScan /\ capture' = NoScan
        BY <3>5, <4>2 DEF Release, ScannerTypes, Numbers
      <4>. QED BY <3>5, <4>1, <4>2 DEF Release
    <3>. QED BY <1>2, <3>1, <3>2, <3>3, <3>4, <3>5 DEF Starting
  <2>2. UNCHANGED <<handler, scans>>
    BY <1>2 DEF Starting, OpenCapture, CreateReader, StartReader, SetRunning, NoCamera,
                StartThrows, Stop, Release, vars
  <2>. QED BY <2>1, <2>2, <2>3 DEF HandlerTypes, ScannerTypes
<1>3. ASSUME NEW h \in Handlers, FrameArrives(h) PROVE ScannerTypes' /\ HandlerTypes'
  <2>. DEFINE r == [at |-> "arrived", reader |-> reader, cb |-> NoScan]
  <2>1. ScannerTypes' /\ scans' = scans
    BY <1>3 DEF FrameArrives, ScannerTypes, Flags, Numbers
  <2>2. reader \in 1..scans /\ reader \in 0..MaxScans /\ 0 \in 0..MaxScans
    <3>1. reader # 0
      BY <1>3 DEF FrameArrives, ScannerTypes, Numbers
    <3>. QED BY <3>1 DEF ScannerTypes, Numbers
  <2>3. r \in [at : Steps, reader : 0..MaxScans, cb : 0..MaxScans]
    BY <2>2 DEF Steps
  <2>4. r.at \notin Claimed /\ r.reader \in 1..scans
    BY <2>2 DEF Claimed
  <2>5. handler' = [handler EXCEPT ![h] = r]
    BY <1>3 DEF FrameArrives
  <2>. HIDE DEF r
  <2>. QED BY <2>1, <2>3, <2>4, <2>5, HandlerChange
<1>4. ASSUME NEW h \in Handlers, HandlerStep(h) PROVE ScannerTypes' /\ HandlerTypes'
  <2>1. scans' = scans
    BY <1>4 DEF HandlerStep, CheckFired, NothingDecoded, Claim, ClearRunning, StopOwnReader, CallBack
  <2>2. CASE CheckFired(h) \/ NothingDecoded(h)
    <3>1. ScannerTypes'
      BY <2>2 DEF CheckFired, NothingDecoded, ScannerTypes, Flags, Numbers
    <3>2. Return(h) \/ (Enter(h, "decoding") /\ handler[h].at = "arrived")
      BY <2>2 DEF CheckFired, NothingDecoded
    <3>. QED BY <2>1, <3>1, <3>2, ReturnKeeps, EnterKeeps DEF Steps, Claimed
  <2>3. CASE Claim(h)
    <3>. DEFINE r == [handler[h] EXCEPT !.at = "claimed", !.cb = callback]
    <3>1. ScannerTypes'
      BY <2>3 DEF Claim, ScannerTypes, Flags, Numbers
    <3>2. CASE fired
      BY <2>1, <2>3, <3>1, <3>2, ReturnKeeps DEF Claim
    <3>3. CASE ~fired
      <4>1. handler' = [handler EXCEPT ![h] = r]
        BY <2>3, <3>3 DEF Claim, HandlerTypes
      <4>2. handler[h].reader \in 1..scans /\ callback = scans
        BY <2>3 DEF Claim, HandlerTypes, ScannerTypes, Flags, Numbers
      <4>3. scans \in 1..scans /\ scans \in 0..MaxScans
        BY <4>2 DEF ScannerTypes, Flags, Numbers
      <4>4. r \in [at : Steps, reader : 0..MaxScans, cb : 0..MaxScans]
        BY <4>2, <4>3 DEF HandlerTypes, Steps, Claimed
      <4>5. r.reader = handler[h].reader /\ r.cb = scans
        BY <4>2 DEF HandlerTypes
      <4>. HIDE DEF r
      <4>. QED BY <2>1, <3>1, <4>1, <4>2, <4>3, <4>4, <4>5, HandlerChange
    <3>. QED BY <3>2, <3>3
  <2>4. CASE ClearRunning(h) \/ StopOwnReader(h)
    <3>1. ScannerTypes'
      BY <2>4 DEF ClearRunning, StopOwnReader, ScannerTypes, Flags, Numbers
    <3>. QED BY <2>1, <2>4, <3>1, EnterKeeps DEF ClearRunning, StopOwnReader, Steps, Claimed
  <2>5. CASE CallBack(h)
    <3>1. \A n \in Nat : n + 1 \in Nat
      OBVIOUS
    <3>2. calls' \in [Scans -> Nat]
      BY <2>5, <3>1 DEF CallBack, ScannerTypes, Flags, Numbers
    <3>. QED BY <2>1, <2>5, <3>2, ReturnKeeps DEF CallBack, ScannerTypes, Flags, Numbers
  <2>. QED BY <1>4, <2>2, <2>3, <2>4, <2>5 DEF HandlerStep
<1>. QED BY <1>1, <1>2, <1>3, <1>4 DEF Next

\* Steps of the UI thread other than Start, and steps of a handler before it has
\* claimed anything, change nothing the invariant speaks of.
LEMMA SilentStep ==
    ASSUME TypeOK, SingleFire, SingleInv,
           UNCHANGED <<fired, scans, calls>>,
           \A h \in Handlers : \A s \in Scans : Holds(h, s)' => Holds(h, s)
    PROVE  SingleFire' /\ SingleInv'
BY DEF SingleFire, SingleInv, OneHolder, HeldIsUncalled, FiredFromClaim, FutureIsUncalled

\* Every step keeps the strengthened invariant.
LEMMA SingleStep ==
    TypeOK /\ SingleFire /\ SingleInv /\ [Next]_vars => SingleFire' /\ SingleInv'
<1>. SUFFICES ASSUME TypeOK, SingleFire, SingleInv, [Next]_vars
              PROVE  SingleFire' /\ SingleInv'
  OBVIOUS
<1>. USE DEF scanner
<1>1. CASE Start
  <2>1. \A h \in Handlers : handler'[h] = handler[h]
    BY <1>1 DEF Start
  <2>2. scans' = scans + 1 /\ calls' = calls /\ scans \in Nat /\ scans' \in Scans
    BY <1>1, ScannerAssumption DEF Start, TypeOK, Scans
  <2>3. \A h \in Handlers : ~Holds(h, scans')
    BY <2>2 DEF TypeOK, Holds
  <2>4. calls'[scans'] = 0
    BY <2>2 DEF SingleInv, FutureIsUncalled
  <2>. QED BY <2>1, <2>2, <2>3, <2>4
           DEF SingleFire, SingleInv, OneHolder, HeldIsUncalled, FiredFromClaim,
               FutureIsUncalled, Holds, Scans
<1>2. CASE Starting \/ Stop \/ Release \/ UNCHANGED vars
  <2>1. UNCHANGED <<fired, scans, calls, handler>>
    BY <1>2 DEF Starting, OpenCapture, CreateReader, StartReader, SetRunning, NoCamera,
                StartThrows, Stop, Release, vars
  <2>. QED BY <2>1, SilentStep DEF Holds
<1>3. ASSUME NEW h \in Handlers, FrameArrives(h) \/ HandlerStep(h)
      PROVE  SingleFire' /\ SingleInv'
  <2>1. CASE FrameArrives(h) \/ CheckFired(h) \/ NothingDecoded(h)
    <3>1. UNCHANGED <<fired, scans, calls>>
      BY <2>1 DEF FrameArrives, CheckFired, NothingDecoded
    <3>2. \A i \in Handlers : i = h \/ handler'[i] = handler[i]
      BY <2>1 DEF FrameArrives, CheckFired, NothingDecoded, Return, Enter, TypeOK
    <3>3. handler'[h].at \notin Claimed
      BY <2>1 DEF FrameArrives, CheckFired, NothingDecoded, Return, Enter, TypeOK, Idle, Claimed
    <3>. QED BY <3>1, <3>2, <3>3, SilentStep DEF Holds
  <2>2. CASE ClearRunning(h) \/ StopOwnReader(h)
    <3>1. UNCHANGED <<fired, scans, calls>>
      BY <2>2 DEF ClearRunning, StopOwnReader
    <3>2. \A i \in Handlers : handler'[i].cb = handler[i].cb
      BY <2>2 DEF ClearRunning, StopOwnReader, Enter, TypeOK
    <3>3. \A i \in Handlers : handler'[i].at \in Claimed => handler[i].at \in Claimed
      BY <2>2 DEF ClearRunning, StopOwnReader, Enter, TypeOK, Claimed
    <3>. QED BY <3>1, <3>2, <3>3, SilentStep DEF Holds
  <2>3. CASE Claim(h) /\ fired
    <3>1. UNCHANGED <<fired, scans, calls>>
      BY <2>3 DEF Claim, TypeOK
    <3>2. handler' = [handler EXCEPT ![h] = Idle]
      BY <2>3 DEF Claim, Return
    <3>3. \A i \in Handlers : i = h \/ handler'[i] = handler[i]
      BY <3>2 DEF TypeOK
    <3>4. handler'[h].at \notin Claimed
      BY <3>2 DEF TypeOK, Idle, Claimed
    <3>. QED BY <3>1, <3>3, <3>4, SilentStep DEF Holds
  <2>4. CASE Claim(h) /\ ~fired
    <3>1. fired' /\ UNCHANGED <<scans, calls>> /\ callback = scans
      BY <2>4 DEF Claim, TypeOK
    <3>2. handler' = [handler EXCEPT ![h].at = "claimed", ![h].cb = scans]
      BY <2>4, <3>1 DEF Claim
    <3>3. \A i \in Handlers : i = h \/ handler'[i] = handler[i]
      BY <3>2 DEF TypeOK
    <3>4. \A s \in Scans : Holds(h, s)' => s = scans
      BY <3>2 DEF TypeOK, Holds
    <3>5. \A i \in Handlers : \A s \in Scans : s = scans => ~Holds(i, s) /\ calls[s] = 0
      BY <2>4 DEF SingleInv, FiredFromClaim
    <3>. QED BY <3>1, <3>3, <3>4, <3>5
             DEF SingleFire, SingleInv, OneHolder, HeldIsUncalled, FiredFromClaim,
                 FutureIsUncalled, Holds
  <2>5. CASE CallBack(h)
    <3>1. PICK c \in Scans : c = handler[h].cb /\ Holds(h, c) /\ c \in 1..scans
      BY <2>5, ScannerAssumption DEF CallBack, TypeOK, Holds, Claimed, Scans
    <3>2. calls[c] = 0
      BY <3>1 DEF SingleInv, HeldIsUncalled
    <3>3. UNCHANGED <<fired, scans>>
      BY <2>5 DEF CallBack
    <3>4. calls'[c] = 1 /\ \A s \in Scans : s = c \/ calls'[s] = calls[s]
      BY <2>5, <3>1, <3>2 DEF CallBack, TypeOK
    <3>5. \A i \in Handlers : i = h \/ handler'[i] = handler[i]
      BY <2>5 DEF CallBack, Return, TypeOK
    <3>6. handler'[h].at \notin Claimed
      BY <2>5 DEF CallBack, Return, TypeOK, Idle, Claimed
    <3>7. \A i \in Handlers : ~Holds(i, c)'
      BY <3>1, <3>5, <3>6 DEF SingleInv, OneHolder, Holds
    <3>8. c = scans => fired
      BY <3>1 DEF SingleInv, FiredFromClaim
    <3>9. ~(c > scans)
      BY <3>1 DEF TypeOK
    <3>10. \A i \in Handlers : \A s \in Scans : Holds(i, s)' => Holds(i, s) /\ s # c
      BY <3>5, <3>6, <3>7 DEF Holds
    <3>11. SingleFire'
      BY <3>4 DEF SingleFire
    <3>12. HeldIsUncalled' /\ OneHolder'
      BY <3>4, <3>10 DEF SingleInv, HeldIsUncalled, OneHolder
    <3>13. FiredFromClaim' /\ FutureIsUncalled'
      BY <3>1, <3>3, <3>4, <3>8, <3>9, <3>10
         DEF SingleInv, FiredFromClaim, FutureIsUncalled
    <3>. QED BY <3>11, <3>12, <3>13 DEF SingleInv
  <2>. QED BY <1>3, <2>1, <2>2, <2>3, <2>4, <2>5 DEF HandlerStep
<1>. QED BY <1>1, <1>2, <1>3 DEF Next

\* Every reachable state is well-typed; in particular only the reader the
\* scanner holds can be streaming.
THEOREM TypeCorrect == Spec => []TypeOK
<1>1. Init => TypeOK
  BY InitInv
<1>. QED BY <1>1, TypeStep, PTL DEF Spec

\* camera_qr_scanner.hpp:38, "called exactly once": the recheck of "fired" under
\* callback_mutex (camera_qr_scanner.cpp:179-184) is enough, whatever scans are
\* stopped and started around it.
THEOREM SingleFireHolds == Spec => []SingleFire
<1>1. Init => TypeOK /\ SingleFire /\ SingleInv
  BY InitInv
<1>2. TypeOK /\ SingleFire /\ SingleInv /\ [Next]_vars => (TypeOK /\ SingleFire /\ SingleInv)'
  BY TypeStep, SingleStep
<1>. QED BY <1>1, <1>2, PTL DEF Spec

-----------------------------------------------------------------------------
(* The scanner implements OneShot *)

LEMMA TakenIsHeld == \A s \in Scans : Taken(s) <=> \E h \in Handlers : Holds(h, s)
BY DEF Taken, Holds

\* What nobody has taken anew or called, and no start() has replaced, stays as it is.
LEMMA StageKept ==
    ASSUME UNCHANGED <<fired, scans>>, \A s \in Scans : Taken(s)' <=> Taken(s)
    PROVE  stage' = stage
BY DEF stage

\* The next start() arms its own callback and takes the one before it out of reach.
LEMMA StartBegins == ASSUME TypeOK, Start PROVE Promise!Next
<1>1. scans' = scans + 1 /\ ~fired' /\ UNCHANGED <<handler, calls>>
      /\ scans \in Nat /\ scans' \in Scans
  BY ScannerAssumption DEF Start, TypeOK, Scans
<1>2. ~Taken(scans')
  BY <1>1 DEF TypeOK, Taken
<1>3. \A s \in Scans : Taken(s)' <=> Taken(s)
  BY <1>1 DEF Taken
<1>4. stage[scans'] = "new"
  BY <1>1 DEF stage
<1>5. ASSUME NEW s \in Scans
      PROVE  stage'[s] = IF s = scans' THEN "armed"
                         ELSE IF stage[s] = "armed" THEN "over" ELSE stage[s]
  <2>1. s \in Nat
    BY DEF Scans
  <2>2. CASE s = scans'
    BY <1>1, <1>2, <1>3, <2>2 DEF stage
  <2>3. CASE s # scans'
    <3>1. s > scans' <=> s > scans
      BY <1>1, <2>1, <2>3
    <3>. QED BY <1>1, <1>3, <2>3, <3>1 DEF stage
  <2>. QED BY <2>2, <2>3
<1>6. stage' = [s \in Scans |-> stage'[s]]
  BY DEF stage
<1>7. Promise!Begin(scans')
  BY <1>1, <1>4, <1>5, <1>6 DEF Promise!Begin
<1>. QED BY <1>1, <1>7 DEF Promise!Next

\* Only a handler that finds the flag clear takes a callback, the current one.
LEMMA ClaimTakes ==
    ASSUME TypeOK, SingleInv, NEW h \in Handlers, Claim(h), ~fired
    PROVE  Promise!Next
<1>1. fired' /\ UNCHANGED <<scans, calls>> /\ callback = scans
  BY DEF Claim, TypeOK
<1>2. scans \in Scans
  <2>1. handler[h].at # "idle"
    BY DEF Claim
  <2>2. handler[h].reader \in 1..scans /\ scans \in 0..MaxScans
    BY <2>1 DEF TypeOK
  <2>. QED BY <2>2, ScannerAssumption DEF Scans
<1>3. handler' = [handler EXCEPT ![h].at = "claimed", ![h].cb = scans]
  BY <1>1 DEF Claim
<1>4. handler'[h].at = "claimed" /\ handler'[h].cb = scans
      /\ \A i \in Handlers : i = h \/ handler'[i] = handler[i]
  BY <1>3 DEF TypeOK
<1>5. handler[h].at \notin Claimed
  BY DEF Claim, Claimed
<1>6. \A s \in Scans : Taken(s)' <=> Taken(s) \/ s = scans
  BY <1>4, <1>5 DEF Taken, Claimed
<1>7. ~Taken(scans)
  BY <1>2, TakenIsHeld DEF SingleInv, FiredFromClaim
<1>8. stage[scans] = "armed"
  BY <1>2, <1>7 DEF stage, Scans
<1>9. ASSUME NEW s \in Scans PROVE stage'[s] = IF s = scans THEN "taken" ELSE stage[s]
  <2>1. s = scans => ~(s > scans)
    BY DEF Scans
  <2>. QED BY <1>1, <1>6, <2>1 DEF stage
<1>10. stage' = [stage EXCEPT ![scans] = "taken"]
  BY <1>2, <1>9 DEF stage
<1>11. Promise!Take(scans)
  BY <1>1, <1>8, <1>10 DEF Promise!Take
<1>. QED BY <1>2, <1>11 DEF Promise!Next

\* A callback that is called was taken, and nobody else holds it.
LEMMA CallBackCalls ==
    ASSUME TypeOK, SingleInv, NEW h \in Handlers, CallBack(h)
    PROVE  Promise!Next
<1>1. PICK c \in Scans : c = handler[h].cb /\ Holds(h, c) /\ c \in 1..scans
  BY ScannerAssumption DEF CallBack, TypeOK, Holds, Claimed, Scans
<1>2. UNCHANGED <<fired, scans>> /\ calls' = [calls EXCEPT ![c] = @ + 1]
  BY <1>1 DEF CallBack, scanner
<1>3. handler'[h].at \notin Claimed
      /\ \A i \in Handlers : i = h \/ handler'[i] = handler[i]
  BY DEF CallBack, Return, TypeOK, Idle, Claimed
<1>4. ~Taken(c)'
  BY <1>1, <1>3 DEF Taken, Holds, SingleInv, OneHolder
<1>5. \A s \in Scans : s = c \/ (Taken(s)' <=> Taken(s))
  BY <1>1, <1>3 DEF Taken, Holds
<1>6. c = scans => fired
  BY <1>1 DEF SingleInv, FiredFromClaim
<1>7. ~(c > scans)
  BY <1>1 DEF TypeOK
<1>8. stage[c] = "taken"
  BY <1>1, <1>7, TakenIsHeld DEF stage
<1>9. ASSUME NEW s \in Scans PROVE stage'[s] = IF s = c THEN "over" ELSE stage[s]
  BY <1>2, <1>4, <1>5, <1>6, <1>7 DEF stage
<1>10. stage' = [stage EXCEPT ![c] = "over"]
  BY <1>9 DEF stage
<1>11. Promise!Call(c)
  BY <1>2, <1>8, <1>10 DEF Promise!Call
<1>. QED BY <1>1, <1>11 DEF Promise!Next

LEMMA OneShotStep ==
    TypeOK /\ SingleInv /\ [Next]_vars => [Promise!Next]_(Promise!vars)
<1>. SUFFICES ASSUME TypeOK, SingleInv, [Next]_vars
              PROVE  Promise!Next \/ UNCHANGED Promise!vars
  OBVIOUS
<1>1. CASE Start
  BY <1>1, StartBegins
<1>2. CASE Starting \/ Stop \/ Release \/ UNCHANGED vars
  <2>1. UNCHANGED <<fired, scans, calls, handler>>
    BY <1>2 DEF Starting, OpenCapture, CreateReader, StartReader, SetRunning, NoCamera,
                StartThrows, Stop, Release, vars, scanner
  <2>. QED BY <2>1, StageKept DEF Taken, Promise!vars
<1>3. ASSUME NEW h \in Handlers, FrameArrives(h) \/ HandlerStep(h)
      PROVE  Promise!Next \/ UNCHANGED Promise!vars
  <2>1. CASE FrameArrives(h) \/ CheckFired(h) \/ NothingDecoded(h)
    <3>1. UNCHANGED <<fired, scans, calls>>
      BY <2>1 DEF FrameArrives, CheckFired, NothingDecoded, scanner
    <3>2. \A i \in Handlers : i = h \/ handler'[i] = handler[i]
      BY <2>1 DEF FrameArrives, CheckFired, NothingDecoded, Return, Enter, TypeOK
    <3>3. handler[h].at \notin Claimed /\ handler'[h].at \notin Claimed
      BY <2>1 DEF FrameArrives, CheckFired, NothingDecoded, Return, Enter, TypeOK, Idle, Claimed
    <3>. QED BY <3>1, <3>2, <3>3, StageKept DEF Taken, Promise!vars
  <2>2. CASE ClearRunning(h) \/ StopOwnReader(h)
    <3>1. UNCHANGED <<fired, scans, calls>>
      BY <2>2 DEF ClearRunning, StopOwnReader
    <3>2. \A i \in Handlers : handler'[i].cb = handler[i].cb
      BY <2>2 DEF ClearRunning, StopOwnReader, Enter, TypeOK
    <3>3. \A i \in Handlers : handler'[i].at \in Claimed <=> handler[i].at \in Claimed
      BY <2>2 DEF ClearRunning, StopOwnReader, Enter, TypeOK, Claimed
    <3>. QED BY <3>1, <3>2, <3>3, StageKept DEF Taken, Promise!vars
  <2>3. CASE Claim(h) /\ fired
    <3>1. UNCHANGED <<fired, scans, calls>>
      BY <2>3 DEF Claim, TypeOK
    <3>2. handler' = [handler EXCEPT ![h] = Idle] /\ handler[h].at \notin Claimed
      BY <2>3 DEF Claim, Return, Claimed
    <3>3. \A i \in Handlers : i = h \/ handler'[i] = handler[i]
      BY <3>2 DEF TypeOK
    <3>4. handler'[h].at \notin Claimed
      BY <3>2 DEF TypeOK, Idle, Claimed
    <3>. QED BY <3>1, <3>2, <3>3, <3>4, StageKept DEF Taken, Promise!vars
  <2>4. CASE Claim(h) /\ ~fired
    BY <2>4, ClaimTakes
  <2>5. CASE CallBack(h)
    BY <2>5, CallBackCalls
  <2>. QED BY <1>3, <2>1, <2>2, <2>3, <2>4, <2>5 DEF HandlerStep
<1>. QED BY <1>1, <1>2, <1>3 DEF Next

\* The scanner, whatever is stopped, started and failing around its handlers, refines
\* OneShot: the flag and the callback, both under callback_mutex, are enough for it.
THEOREM ImplementsOneShotHolds == Spec => ImplementsOneShot
<1>1. Init => Promise!Init
  <2>1. \A s \in Scans : s > 0
    BY DEF Scans
  <2>. QED BY <2>1 DEF Init, Promise!Init, stage
<1>2. Init => TypeOK /\ SingleFire /\ SingleInv
  BY InitInv
<1>3. TypeOK /\ SingleFire /\ SingleInv /\ [Next]_vars => (TypeOK /\ SingleFire /\ SingleInv)'
  BY TypeStep, SingleStep
<1>. QED BY <1>1, <1>2, <1>3, OneShotStep, PTL DEF Spec, ImplementsOneShot, Promise!Spec
=============================================================================
