--------------------------- MODULE WsStreamProofs ---------------------------
(***************************************************************************)
(* Theorems about WsStream, for either exchange, every idle limit and any  *)
(* number of faults, signals and changes of the peer.                      *)
(***************************************************************************)
EXTENDS WsStream, TLAPS

-----------------------------------------------------------------------------
(* Type correctness                                                        *)

LEMMA BoundsTyped ==
  /\ MaxIdle \in Nat \ {0}
  /\ MaxFaults \in Nat /\ MaxSignals \in Nat /\ MaxChanges \in Nat
BY WsStreamAssumption, Zenon

LEMMA InitTyped == Init => TypeOK
<1> SUFFICES ASSUME Init PROVE TypeOK
  OBVIOUS
<1>1. /\ idle \in 0..MaxIdle /\ quiet \in 0..MaxIdle
      /\ signals \in 0..MaxSignals /\ faults \in 0..MaxFaults
      /\ changes \in 0..MaxChanges
  BY BoundsTyped DEF Init
<1>2. /\ venue \in Venues /\ pc = "check" /\ watch = "off" /\ asked = "never"
      /\ hung = FALSE /\ stop = FALSE /\ keep = TRUE /\ active = FALSE
      /\ connected = FALSE /\ peer = "sends" /\ fresh = FALSE
  BY Zenon DEF Init
<1> QED
  BY <1>1, <1>2 DEF TypeOK, Locations

LEMMA MainTyped ==
  ASSUME TypeOK, Main
  PROVE  TypeOK'
<1> USE BoundsTyped DEF TypeOK, Locations, At, bounds
<1>1. CASE Check
  BY <1>1 DEF Check
<1>2. CASE LockToRegister
  BY <1>2 DEF LockToRegister
<1>3. CASE Register
  BY <1>3 DEF Register
<1>4. CASE StartWatchdog
  BY <1>4 DEF StartWatchdog
<1>5. CASE Connect
  BY <1>5 DEF Connect
<1>6. CASE ConnectFails
  BY <1>6 DEF ConnectFails
<1>7. CASE Opening
  BY <1>7 DEF Opening
<1>8. CASE Opened
  BY <1>8 DEF Opened
<1>9. CASE SessionEnds
  BY <1>9 DEF SessionEnds
<1>10. CASE LockToClear
  BY <1>10 DEF LockToClear
<1>11. CASE Clear
  BY <1>11 DEF Clear
<1>12. CASE Delay
  BY <1>12 DEF Delay
<1> QED
  BY <1>1, <1>2, <1>3, <1>4, <1>5, <1>6, <1>7, <1>8, <1>9, <1>10, <1>11, <1>12
     DEF Main

LEMMA ThreadsTyped ==
  ASSUME TypeOK,
         \/ Receive \/ CallbackRaises
         \/ WatchdogStops \/ FindIdle \/ CloseIdle \/ WatchdogDies
  PROVE  TypeOK'
<1> USE BoundsTyped DEF TypeOK, Locations, At, bounds, Fault
<1>1. CASE Receive
  BY <1>1 DEF Receive
<1>2. CASE CallbackRaises
  <2>1. faults' \in 0..MaxFaults /\ idle' \in 0..MaxIdle /\ quiet' \in 0..MaxIdle
    BY <1>2 DEF CallbackRaises
  <2>2. connected' \in BOOLEAN /\ ~connected' /\ fresh' \in BOOLEAN
    BY <1>2, Zenon DEF CallbackRaises
  <2>3. UNCHANGED <<venue, pc, hung, stop, keep, active, watch, peer, asked, signals, changes>>
    BY <1>2 DEF CallbackRaises
  <2> QED
    BY <2>1, <2>2, <2>3
<1>3. CASE WatchdogStops
  BY <1>3 DEF WatchdogStops
<1>4. CASE CloseIdle
  BY <1>4 DEF CloseIdle
<1>5. CASE WatchdogDies
  BY <1>5 DEF WatchdogDies
<1>6. CASE FindIdle
  BY <1>6 DEF FindIdle
<1> QED
  BY <1>1, <1>2, <1>3, <1>4, <1>5, <1>6

LEMMA OutsideTyped ==
  ASSUME TypeOK, SigTerm \/ PeerChanges \/ Tick
  PROVE  TypeOK'
<1> USE BoundsTyped DEF TypeOK, Locations, bounds
<1>1. CASE SigTerm
  BY <1>1 DEF SigTerm
<1>2. CASE PeerChanges
  BY <1>2 DEF PeerChanges
<1>3. CASE Tick
  BY <1>3 DEF Tick
<1> QED
  BY <1>1, <1>2, <1>3

LEMMA NextTyped == TypeOK /\ [Next]_vars => TypeOK'
<1> SUFFICES ASSUME TypeOK, [Next]_vars PROVE TypeOK'
  OBVIOUS
<1>1. CASE UNCHANGED vars
  BY <1>1 DEF vars, bounds, TypeOK
<1> QED
  BY <1>1, MainTyped, ThreadsTyped, OutsideTyped DEF Next

\* Every variable keeps its type; in particular a watchdog thread runs only
\* beside a session, and the registered app is that of the current session.
THEOREM StreamTypeCorrect == Spec => []TypeOK
BY InitTyped, NextTyped, PTL DEF Spec

-----------------------------------------------------------------------------
(* Healthy sessions stay open                                              *)

\* Inside an open session the time of the last message is never older than the
\* silence of the session, for on_open has reset what the session before it left;
\* a session the watchdog is closing has been silent since it was found silent.
IdleOfThisSession ==
  pc = "open" => /\ idle <= quiet
                 /\ watch = "closing" /\ ~fresh => quiet >= MaxIdle

LEMMA IdleInit == Init => IdleOfThisSession
BY DEF Init, IdleOfThisSession

LEMMA IdleNext == TypeOK /\ IdleOfThisSession /\ [Next]_vars => IdleOfThisSession'
<1> SUFFICES ASSUME TypeOK, IdleOfThisSession, [Next]_vars, pc' = "open"
             PROVE  /\ idle' <= quiet'
                    /\ watch' = "closing" /\ ~fresh' => quiet' >= MaxIdle
  BY DEF IdleOfThisSession
<1>1. /\ idle \in 0..MaxIdle /\ quiet \in 0..MaxIdle
      /\ idle \in Nat /\ quiet \in Nat /\ MaxIdle \in Nat
  BY BoundsTyped DEF TypeOK
<1>2. CASE Main
  <2>1. Opened
    BY <1>2 DEF Main, At, Check, LockToRegister, Register, StartWatchdog, Connect,
       ConnectFails, Opening, SessionEnds, LockToClear, Clear, Delay
  <2>2. idle' = 0 /\ quiet' = quiet /\ fresh'
    BY <2>1 DEF Opened
  <2> QED
    BY <1>1, <2>2
<1>3. CASE Tick
  <2>1. pc = "open" /\ watch' = watch /\ fresh' = fresh
    BY <1>3 DEF Tick
  <2>2. /\ idle' = IF idle < MaxIdle THEN idle + 1 ELSE idle
        /\ quiet' = IF quiet < MaxIdle THEN quiet + 1 ELSE quiet
    BY <1>3 DEF Tick
  <2> QED
    BY <1>1, <2>1, <2>2 DEF IdleOfThisSession
<1>4. CASE Receive \/ CallbackRaises
  <2>1. idle' = 0 /\ quiet' = 0 /\ fresh'
    BY <1>4, Zenon DEF Receive, CallbackRaises
  <2> QED
    BY <2>1
<1>5. CASE FindIdle
  <2>1. /\ pc = "open" /\ idle' = idle /\ quiet' = quiet
        /\ idle >= MaxIdle
    BY <1>5, Zenon DEF FindIdle, Idle
  <2> QED
    BY <1>1, <2>1 DEF IdleOfThisSession
<1>6. CASE WatchdogStops \/ CloseIdle \/ WatchdogDies
  <2>1. pc' = pc /\ idle' = idle /\ quiet' = quiet /\ watch' # "closing"
    BY <1>6 DEF WatchdogStops, CloseIdle, WatchdogDies
  <2> QED
    BY <2>1 DEF IdleOfThisSession
<1>7. CASE SigTerm \/ PeerChanges \/ UNCHANGED vars
  <2>1. /\ pc' = pc /\ idle' = idle /\ quiet' = quiet
        /\ watch' = watch /\ fresh' = fresh
    BY <1>7, Zenon DEF SigTerm, PeerChanges, vars
  <2> QED
    BY <2>1 DEF IdleOfThisSession
<1> QED
  BY <1>2, <1>3, <1>4, <1>5, <1>6, <1>7 DEF Next

LEMMA CloseNeedsSilence ==
  ASSUME IdleOfThisSession, CloseIdle, pc = "open", ~fresh
  PROVE  quiet >= MaxIdle
BY DEF IdleOfThisSession, CloseIdle

\* An open session the watchdog closes has been silent for the idle limit, or
\* had its first message between the watchdog's look and its close, for either
\* exchange, every limit and whatever the sessions before it went through.
THEOREM HealthyStaysOpen == Spec => NoHealthyClose
<1>1. Spec => [](TypeOK /\ IdleOfThisSession)
  BY InitTyped, NextTyped, IdleInit, IdleNext, PTL DEF Spec
<1>2. TypeOK /\ IdleOfThisSession
      => [CloseIdle /\ pc = "open" /\ ~fresh => quiet >= MaxIdle]_vars
  BY CloseNeedsSilence
<1> QED
  BY <1>1, <1>2, PTL DEF NoHealthyClose
=============================================================================
