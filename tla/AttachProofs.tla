---------------------------- MODULE AttachProofs ----------------------------
(***************************************************************************)
(* What an attach guarantees for every number of events and every set of   *)
(* window sizes.  The keys themselves are left open here: what localPrefix *)
(* makes of them is for AttachKeysProofs.                                  *)
(***************************************************************************)
EXTENDS Attach, FiniteSetTheorems, TLAPS

-----------------------------------------------------------------------------
(* The inductive invariant, in parts.                                      *)

\* The types, but for the keys.
ShapeInv ==
  /\ pc \in {"checks", "watch", "raw", "connect", "cancel", "run", "write", "close",
             "restore", "out"}
  /\ signal \in [on : BOOLEAN, full : BOOLEAN]
  /\ setup \in {"none", "working", "done", "failed"}
  /\ conn \in {"none", "open", "closed"}
  /\ gateway \in [open : BOOLEAN, keys : {gateway.keys}, size : Good]
  /\ wire \in Seq(Frame) /\ said \in Nat /\ shown \in Nat
  /\ held \in Frame \cup {"none", "end"}
  /\ box \in Frame \cup {"none"}
  /\ frame \in [kind : {"none", "keys", "size", "proof"}, keys : {frame.keys}, size : Good,
                detach : {frame.detach}]
  /\ window \in [size : Size, winch : BOOLEAN, held : Size \cup {"none"},
                 box : Size \cup {"none"}, seen : BOOLEAN]

\* Signals are caught as long as the mode of the terminal may be changed, and a
\* connection belongs to a setup that succeeded.
ModeInv ==
  /\ pc \in {"checks", "watch"} => ~signal.on
  /\ pc \notin {"checks", "watch", "out"} => signal.on
  /\ pc \in {"checks", "watch", "raw"} => tty = "cooked" /\ setup = "none"
  /\ pc \in {"checks", "watch", "raw", "connect", "run", "write"} => exit = "none"
  /\ setup # "done" => conn = "none"
  /\ pc \in {"run", "write", "close"} => setup = "done"
  /\ pc = "restore" => conn # "open" /\ setup # "working"
  /\ RawRestored /\ NothingLeftOpen

Outs(s) == Cardinality({i \in 1..Len(s) : s[i] = "out"})
One(f)  == IF f = "out" THEN 1 ELSE 0

\* The gateway's reason comes last, and output is shown or still on its way.
LastInv ==
  /\ box \in Reason => held = "end"
  /\ held \in Reason \cup {"end"} => wire = <<>> /\ ~gateway.open
  /\ \A i \in 1..Len(wire) : wire[i] \in Reason => i = Len(wire) /\ ~gateway.open
  /\ pc # "out" /\ exit # "9" => said = shown + Outs(wire) + One(held) + One(box)
  /\ exit \in {"ok", "3", "5", "11"} => shown = said /\ ~gateway.open

\* Where the last size of the window is.
FollowInv ==
  window.seen /\ ~window.winch /\ pc # "out" =>
    IF window.held # "none" THEN window.held = window.size
    ELSE IF window.box # "none" THEN window.box = window.size
    ELSE IF pc = "write" /\ frame.kind = "size" THEN frame.size = window.size
    ELSE window.size \in Good /\ gateway.open => gateway.size = window.size

-----------------------------------------------------------------------------
(* The shape of the state, and what only some steps touch.                 *)

LEMMA NoFrameTyped ==
  /\ AnySize \in Good /\ NoFrame = [kind |-> "none", keys |-> <<>>, size |-> AnySize, detach |-> FALSE]
  /\ "none" \notin Size
BY AttachAssumption DEF AnySize, NoFrame, Size

\* The steps of the main goroutine and of the setup.
Controls ==
  \/ StartStep \/ SetupEnds \/ MainStep \/ OnSignal \/ PanicUnwinds
  \/ (\E g \in {"setup", "socket", "input", "resize"} : PanicKills(g)) \/ Signal

\* The steps of the others, which leave it where it is.
Moves ==
  \/ SocketHands \/ InputReads \/ InputHands \/ ResizeReads \/ ResizeHands
  \/ Type \/ HangUp \/ WindowChanges \/ GatewaySays \/ GatewayCloses

LEMMA AllSteps ==
  ASSUME [Next]_vars
  PROVE  Controls \/ Moves \/ LoopStep \/ SocketReads \/ UNCHANGED vars
BY DEF Next, Program, Environment, Feeders, Controls, Moves

LEMMA MovesKeep ==
  ASSUME Moves \/ UNCHANGED vars
  PROVE  UNCHANGED <<pc, exit, tty, signal, setup, conn>>
BY DEF Moves, SocketHands, InputReads, InputHands, ResizeReads, ResizeHands, Type, HangUp,
       WindowChanges, GatewaySays, GatewayCloses, vars

LEMMA FrameShape ==
  ASSUME NEW k \in {"keys", "proof", "size"}, NEW d, NEW t, NEW z \in Good,
         frame' = [kind |-> k, keys |-> d, size |-> z, detach |-> t]
  PROVE  frame' \in [kind : {"none", "keys", "size", "proof"}, keys : {frame'.keys}, size : Good,
                     detach : {frame'.detach}]
OBVIOUS

LEMMA GoneFrame ==
  ASSUME frame' = NoFrame
  PROVE  frame' \in [kind : {"none", "keys", "size", "proof"}, keys : {frame'.keys}, size : Good,
                     detach : {frame'.detach}]
BY NoFrameTyped

LEMMA TakeKeysFrame ==
  ASSUME TakeKeys
  PROVE  /\ \/ frame' = frame /\ pc' \in {pc, "close"}
            \/ pc' = "write" /\ frame'.kind = "keys"
               /\ frame' \in [kind : {"none", "keys", "size", "proof"}, keys : {frame'.keys},
                              size : Good, detach : {frame'.detach}]
         /\ pc = "run" /\ exit' \in {exit, "detached"} /\ (pc' # "close" => exit' = exit)
         /\ UNCHANGED <<tty, signal, setup, conn, gateway, outs, window>>
<1> DEFINE r == LocalPrefix(SubSeq(keys.typed, keys.got + 1, keys.boxed), pending)
<1>1. /\ pc = "run" /\ UNCHANGED <<tty, signal, setup, conn, gateway, outs, window>>
      /\ IF r.out # <<>>
         THEN /\ pc' = "write" /\ UNCHANGED exit
              /\ frame' = [NoFrame EXCEPT !.kind = "keys", !.keys = r.out, !.detach = r.detach]
         ELSE /\ IF r.detach THEN Leave("detached") ELSE UNCHANGED <<pc, exit>>
              /\ UNCHANGED frame
  BY DEF TakeKeys
<1> HIDE DEF r
<1>2. CASE r.out # <<>>
  <2>1. frame' = [kind |-> "keys", keys |-> r.out, size |-> AnySize, detach |-> r.detach]
    BY <1>1, <1>2, NoFrameTyped
  <2> QED BY <1>1, <1>2, <2>1, NoFrameTyped, FrameShape
<1>3. CASE ~(r.out # <<>>)
  BY <1>1, <1>3 DEF Leave
<1> QED BY <1>2, <1>3

LEMMA WriteEndsKeeps ==
  ASSUME ShapeInv, WriteEnds
  PROVE  /\ gateway' \in [open : BOOLEAN, keys : {gateway'.keys}, size : Good]
         /\ gateway'.open = gateway.open
         /\ gateway'.size = IF gateway.open /\ frame.kind = "size" THEN frame.size ELSE gateway.size
         /\ pc = "write" /\ pc' \in {"run", "close"} /\ (pc' = "run" => exit' = exit)
         /\ exit' \in {exit, "detached", "1"} /\ frame' = NoFrame
         /\ UNCHANGED <<tty, signal, setup, conn, outs, ins, window>>
<1>1. /\ pc = "write" /\ pc' \in {"run", "close"} /\ (pc' = "run" => exit' = exit)
      /\ exit' \in {exit, "detached", "1"} /\ frame' = NoFrame
      /\ UNCHANGED <<tty, signal, setup, conn, outs, ins, window>>
  BY DEF WriteEnds, Leave
<1>2. gateway \in [open : BOOLEAN, keys : {gateway.keys}, size : Good] /\ frame.size \in Good
  BY DEF ShapeInv
<1> DEFINE q == gateway.keys \o frame.keys
<1>3. gateway' = CASE gateway.open /\ frame.kind = "keys" -> [gateway EXCEPT !.keys = q]
                   [] gateway.open /\ frame.kind = "size" -> [gateway EXCEPT !.size = frame.size]
                   [] OTHER -> gateway
  BY DEF WriteEnds
<1> HIDE DEF q
<1>4. CASE ~gateway.open
  BY <1>1, <1>2, <1>3, <1>4
<1>5. CASE gateway.open /\ frame.kind = "keys"
  BY <1>1, <1>2, <1>3, <1>5
<1>6. CASE gateway.open /\ frame.kind # "keys"
  BY <1>1, <1>2, <1>3, <1>6
<1> QED BY <1>4, <1>5, <1>6


LEMMA ControlsShape ==
  ASSUME ShapeInv, Controls
  PROVE  ShapeInv'
<1> DEFINE F == [kind : {"none", "keys", "size", "proof"}, keys : {frame'.keys}, size : Good,
                 detach : {frame'.detach}]
<1>1. /\ pc' \in {"checks", "watch", "raw", "connect", "cancel", "run", "write", "close",
                  "restore", "out"}
      /\ signal' \in [on : BOOLEAN, full : BOOLEAN]
      /\ setup' \in {"none", "working", "done", "failed"}
      /\ conn' \in {"none", "open", "closed"}
  <2>1. pc' \in {"checks", "watch", "raw", "connect", "cancel", "run", "write", "close",
                 "restore", "out"}
    BY DEF ShapeInv, Controls, StartStep, Checks, Watch, EnterRaw, SetupEnds, Connected,
     MainStep, SetupCancelled, WriteEnds, Close, Restore, Gone, OnSignal, SignalInSetup,
     TakeSignal, Leave, PanicUnwinds, PanicKills, Signal
  <2>2. signal' \in [on : BOOLEAN, full : BOOLEAN]
    BY DEF ShapeInv, Controls, StartStep, Checks, Watch, EnterRaw, SetupEnds, Connected,
     MainStep, SetupCancelled, WriteEnds, Close, Restore, Gone, OnSignal, SignalInSetup,
     TakeSignal, Leave, PanicUnwinds, PanicKills, Signal
  <2>3. setup' \in {"none", "working", "done", "failed"}
    BY DEF ShapeInv, Controls, StartStep, Checks, Watch, EnterRaw, SetupEnds, Connected,
     MainStep, SetupCancelled, WriteEnds, Close, Restore, Gone, OnSignal, SignalInSetup,
     TakeSignal, Leave, PanicUnwinds, PanicKills, Signal
  <2>4. conn' \in {"none", "open", "closed"}
    BY DEF ShapeInv, Controls, StartStep, Checks, Watch, EnterRaw, SetupEnds, Connected,
     MainStep, SetupCancelled, WriteEnds, Close, Restore, Gone, OnSignal, SignalInSetup,
     TakeSignal, Leave, PanicUnwinds, PanicKills, Signal
  <2> QED BY <2>1, <2>2, <2>3, <2>4
<1>2. CASE WriteEnds
  BY <1>1, <1>2, WriteEndsKeeps, GoneFrame DEF ShapeInv, outs
<1>3. CASE Restore \/ PanicUnwinds \/ \E g \in {"setup", "socket", "input", "resize"} : PanicKills(g)
  <2>1. Gone /\ gateway' = gateway
    BY <1>3 DEF Restore, PanicUnwinds, PanicKills
  <2>2. window' \in [size : Size, winch : BOOLEAN, held : Size \cup {"none"},
                     box : Size \cup {"none"}, seen : BOOLEAN]
    BY <2>1 DEF Gone, ShapeInv
  <2>3. frame' = NoFrame /\ held' = "none" /\ box' = "none" /\ UNCHANGED <<wire, said, shown>>
    BY <2>1 DEF Gone
  <2> QED BY <1>1, <2>1, <2>2, <2>3, GoneFrame DEF ShapeInv
<1>4. CASE gateway' = gateway /\ run' = run
  BY <1>1, <1>4 DEF ShapeInv, run, outs
<1> QED
  BY <1>2, <1>3, <1>4
  DEF Controls, StartStep, Checks, Watch, EnterRaw, SetupEnds, Connected, MainStep,
      SetupCancelled, Close, OnSignal, SignalInSetup, TakeSignal, Signal

LEMMA MovesShape ==
  ASSUME ShapeInv, Moves
  PROVE  ShapeInv'
<1>0. UNCHANGED <<pc, exit, tty, signal, setup, conn>>
  BY MovesKeep
<1>1. CASE SocketHands
  BY <1>0, <1>1 DEF SocketHands, ShapeInv, Reason, Frame
<1>2. CASE InputReads \/ InputHands \/ Type \/ HangUp
  BY <1>0, <1>2 DEF InputReads, InputHands, Type, HangUp, ShapeInv, outs
<1>3. CASE ResizeReads \/ ResizeHands \/ WindowChanges
  <2>1. window' \in [size : Size, winch : BOOLEAN, held : Size \cup {"none"},
                     box : Size \cup {"none"}, seen : BOOLEAN]
    <3>1. CASE ResizeReads
      BY <3>1 DEF ResizeReads, ShapeInv
    <3>2. CASE ResizeHands
      BY <3>2 DEF ResizeHands, ShapeInv
    <3>3. CASE WindowChanges
      <4>1. PICK z \in Size :
              window' = [window EXCEPT !.size = z, !.winch = signal.on, !.seen = signal.on]
        BY <3>3 DEF WindowChanges
      <4>2. signal.on \in BOOLEAN
        BY DEF ShapeInv
      <4> QED BY <4>1, <4>2 DEF ShapeInv
    <3> QED BY <1>3, <3>1, <3>2, <3>3
  <2>2. UNCHANGED <<gateway, wire, said, shown, held, box, frame>>
    BY <1>3 DEF ResizeReads, ResizeHands, WindowChanges, outs
  <2> QED BY <1>0, <2>1, <2>2 DEF ShapeInv
<1>4. CASE GatewaySays \/ GatewayCloses
  <2>1. \E f \in Frame : wire' = Append(wire, f)
    BY <1>4 DEF GatewaySays, GatewayCloses, Frame
  <2>2. wire' \in Seq(Frame)
    BY <2>1 DEF ShapeInv
  <2>3. said' \in Nat
    BY <1>4 DEF GatewaySays, GatewayCloses, ShapeInv
  <2>4. gateway' \in [open : BOOLEAN, keys : {gateway'.keys}, size : Good]
    BY <1>4 DEF GatewaySays, GatewayCloses, ShapeInv
  <2> QED BY <1>0, <1>4, <2>2, <2>3, <2>4 DEF GatewaySays, GatewayCloses, ShapeInv
<1> QED BY <1>1, <1>2, <1>3, <1>4 DEF Moves

LEMMA LoopShape ==
  ASSUME ShapeInv, LoopStep \/ SocketReads \/ UNCHANGED vars
  PROVE  ShapeInv'
<1>1. CASE TakeOutput \/ TakeClose
  BY <1>1 DEF TakeOutput, TakeClose, Leave, ShapeInv
<1>2. CASE TakeChallenge
  <2>1. \/ frame' = frame
        \/ frame' = [kind |-> "proof", keys |-> <<>>, size |-> AnySize, detach |-> FALSE]
    BY <1>2, NoFrameTyped DEF TakeChallenge
  <2>2. frame' \in [kind : {"none", "keys", "size", "proof"}, keys : {frame'.keys}, size : Good,
                    detach : {frame'.detach}]
    BY <2>1, NoFrameTyped, FrameShape DEF ShapeInv
  <2> QED BY <1>2, <2>2 DEF TakeChallenge, Leave, ShapeInv
<1>3. CASE TakeKeys
  BY <1>3, TakeKeysFrame DEF ShapeInv, outs
<1>4. CASE TakeInputEnd
  BY <1>4 DEF TakeInputEnd, Leave, ShapeInv, outs
<1>5. CASE TakeSize
  <2>1. window' \in [size : Size, winch : BOOLEAN, held : Size \cup {"none"},
                     box : Size \cup {"none"}, seen : BOOLEAN]
    BY <1>5 DEF TakeSize, ShapeInv
  <2>2. \/ frame' = frame /\ pc' = pc
        \/ /\ pc' = "write" /\ window.box \in Good
           /\ frame' = [kind |-> "size", keys |-> <<>>, size |-> window.box, detach |-> FALSE]
    BY <1>5, NoFrameTyped DEF TakeSize
  <2>3. frame' \in [kind : {"none", "keys", "size", "proof"}, keys : {frame'.keys}, size : Good,
                    detach : {frame'.detach}]
    BY <2>2, FrameShape DEF ShapeInv
  <2> QED BY <1>5, <2>1, <2>2, <2>3 DEF TakeSize, ShapeInv, outs
<1>6. CASE SocketReads
  <2>1. Head(wire) \in Frame /\ wire' \in Seq(Frame)
    BY <1>6 DEF SocketReads, ShapeInv
  <2> QED BY <1>6, <2>1 DEF SocketReads, ShapeInv
<1>7. CASE UNCHANGED vars
  BY <1>7 DEF vars, run, outs, ShapeInv
<1> QED BY <1>1, <1>2, <1>3, <1>4, <1>5, <1>6, <1>7 DEF LoopStep

LEMMA ShapeInvariant == Spec => []ShapeInv
<1>1. Init => ShapeInv
  <2> SUFFICES ASSUME Init PROVE ShapeInv
    OBVIOUS
  <2>1. /\ gateway \in [open : BOOLEAN, keys : {gateway.keys}, size : Good]
        /\ signal \in [on : BOOLEAN, full : BOOLEAN]
        /\ window \in [size : Size, winch : BOOLEAN, held : Size \cup {"none"},
                       box : Size \cup {"none"}, seen : BOOLEAN]
    BY NoFrameTyped DEF Init, Size
  <2>2. wire \in Seq(Frame)
    BY DEF Init
  <2>3. frame \in [kind : {"none", "keys", "size", "proof"}, keys : {frame.keys}, size : Good,
                   detach : {frame.detach}]
    BY NoFrameTyped DEF Init
  <2> QED BY <2>1, <2>2, <2>3 DEF Init, ShapeInv
<1>2. ShapeInv /\ [Next]_vars => ShapeInv'
  BY AllSteps, ControlsShape, MovesShape, LoopShape
<1> QED BY <1>1, <1>2, PTL DEF Spec

-----------------------------------------------------------------------------
(* The terminal and the connection.                                        *)

LEMMA StartMode ==
  ASSUME ShapeInv, ModeInv, StartStep \/ SetupEnds \/ Signal
  PROVE  ModeInv'
<1>0. signal \in [on : BOOLEAN, full : BOOLEAN]
  BY DEF ShapeInv
<1>1. CASE Checks
  BY <1>1 DEF Checks, ModeInv, RawRestored, NothingLeftOpen
<1>2. CASE Watch
  BY <1>0, <1>2 DEF Watch, ModeInv, RawRestored, NothingLeftOpen
<1>3. CASE EnterRaw
  BY <1>3 DEF EnterRaw, ModeInv, RawRestored, NothingLeftOpen
<1>4. CASE Connected
  BY <1>4 DEF Connected, ModeInv, RawRestored, NothingLeftOpen
<1>5. CASE SetupEnds
  BY <1>5 DEF SetupEnds, ModeInv, RawRestored, NothingLeftOpen
<1>6. CASE Signal
  BY <1>0, <1>6 DEF Signal, ModeInv, ShapeInv, RawRestored, NothingLeftOpen
<1> QED BY <1>1, <1>2, <1>3, <1>4, <1>5, <1>6 DEF StartStep

LEMMA EndMode ==
  ASSUME ShapeInv, ModeInv, MainStep \/ OnSignal
  PROVE  ModeInv'
<1>0. signal \in [on : BOOLEAN, full : BOOLEAN]
  BY DEF ShapeInv
<1>1. CASE SetupCancelled
  BY <1>1 DEF SetupCancelled, ModeInv, RawRestored, NothingLeftOpen
<1>2. CASE WriteEnds
  BY <1>2, WriteEndsKeeps DEF ModeInv, RawRestored, NothingLeftOpen
<1>3. CASE Close
  BY <1>3 DEF Close, ModeInv, RawRestored, NothingLeftOpen
<1>4. CASE Restore
  BY <1>4 DEF Restore, Gone, ModeInv, RawRestored, NothingLeftOpen
<1>5. CASE SignalInSetup
  BY <1>0, <1>5 DEF SignalInSetup, ModeInv, RawRestored, NothingLeftOpen
<1>6. CASE TakeSignal
  BY <1>0, <1>6 DEF TakeSignal, Leave, ModeInv, RawRestored, NothingLeftOpen
<1> QED BY <1>1, <1>2, <1>3, <1>4, <1>5, <1>6 DEF MainStep, OnSignal

LEMMA PanicMode ==
  ASSUME ModeInv,
         PanicUnwinds \/ \E g \in {"setup", "socket", "input", "resize"} : PanicKills(g)
  PROVE  ModeInv'
<1>1. CASE PanicUnwinds
  BY <1>1 DEF PanicUnwinds, Gone, ModeInv, RawRestored, NothingLeftOpen
<1>2. ASSUME NEW g \in {"setup", "socket", "input", "resize"}, PanicKills(g) PROVE ModeInv'
  BY <1>2 DEF PanicKills, Gone, ModeInv, RawRestored, NothingLeftOpen
<1> QED BY <1>1, <1>2

LEMMA LoopMode ==
  ASSUME ShapeInv, ModeInv, LoopStep \/ SocketReads
  PROVE  ModeInv'
<1>1. /\ UNCHANGED <<tty, signal, setup>> /\ conn' \in {conn, "closed"} /\ pc \in {"run", "write"}
      /\ pc' = "close" \/ (pc' \in {"run", "write"} /\ exit' = exit)
  <2>1. CASE TakeKeys
    BY <2>1, TakeKeysFrame
  <2>2. CASE ~TakeKeys
    BY <2>2 DEF LoopStep, TakeOutput, TakeChallenge, TakeClose, TakeInputEnd, TakeSize,
                SocketReads, Running, Leave
  <2> QED BY <2>1, <2>2
<1> QED BY <1>1 DEF ModeInv, RawRestored, NothingLeftOpen

LEMMA ModeInvariant == Spec => []ModeInv
<1>1. Init => ModeInv
  BY DEF Init, ModeInv, RawRestored, NothingLeftOpen
<1>2. ASSUME ShapeInv, ModeInv, [Next]_vars PROVE ModeInv'
  <2>1. CASE Moves \/ UNCHANGED vars
    BY <1>2, <2>1, MovesKeep DEF ModeInv, RawRestored, NothingLeftOpen
  <2> QED BY <1>2, <2>1, AllSteps, StartMode, EndMode, PanicMode, LoopMode DEF Controls
<1> QED BY <1>1, <1>2, ShapeInvariant, PTL DEF Spec

\* When the process has ended the terminal is not left raw, whatever ended it
\* but a panic in one of the goroutines, at any point of an attach of any length
\* (attach, its deferred restore).
THEOREM RawRestoredCorrect == Spec => []RawRestored
<1>1. ModeInv => RawRestored
  BY DEF ModeInv
<1> QED BY <1>1, ModeInvariant, PTL

\* No connection is open, and none is being set up, when attach returns from
\* Connect, also where the signal came while the dial was succeeding
\* (Connect, connectSocket).
THEOREM NothingLeftOpenCorrect == Spec => []NothingLeftOpen
<1>1. ModeInv => NothingLeftOpen
  BY DEF ModeInv
<1> QED BY <1>1, ModeInvariant, PTL

-----------------------------------------------------------------------------
(* How much output a sequence of frames holds.                             *)

OutsAt(s) == {i \in 1..Len(s) : s[i] = "out"}

LEMMA OutsFinite ==
  ASSUME NEW s \in Seq(Frame)
  PROVE  IsFiniteSet(OutsAt(s)) /\ Outs(s) = Cardinality(OutsAt(s)) /\ Outs(s) \in Nat
<1>1. IsFiniteSet(1..Len(s)) /\ OutsAt(s) \in SUBSET (1..Len(s))
  BY FS_Interval DEF OutsAt
<1>2. IsFiniteSet(OutsAt(s))
  BY <1>1, FS_Subset
<1> QED BY <1>2, FS_CardinalityType DEF Outs, OutsAt

LEMMA OutsEmpty == Outs(<<>>) = 0
<1>1. {i \in 1..Len(<<>>) : <<>>[i] = "out"} = {}
  OBVIOUS
<1> QED BY <1>1, FS_EmptySet DEF Outs

LEMMA OutsAppend ==
  ASSUME NEW s \in Seq(Frame), NEW f \in Frame
  PROVE  Outs(Append(s, f)) = Outs(s) + One(f)
<1> DEFINE t == Append(s, f)
           n == Len(s) + 1
<1>1. t \in Seq(Frame) /\ Len(t) = n /\ t[n] = f /\ \A i \in 1..Len(s) : t[i] = s[i]
  OBVIOUS
<1>2. Len(s) \in Nat /\ n \notin OutsAt(s)
  BY DEF OutsAt
<1>3. OutsAt(t) = IF f = "out" THEN OutsAt(s) \cup {n} ELSE OutsAt(s)
  BY <1>1, <1>2 DEF OutsAt
<1> HIDE DEF t
<1>4. Cardinality(OutsAt(t)) = Cardinality(OutsAt(s)) + One(f)
  <2>1. CASE f = "out"
    <3>1. Cardinality(OutsAt(s) \cup {n}) = Cardinality(OutsAt(s)) + 1
      BY <1>2, OutsFinite, FS_AddElement
    <3> QED BY <1>3, <2>1, <3>1 DEF One
  <2>2. CASE f # "out"
    BY <1>3, <2>2, OutsFinite DEF One
  <2> QED BY <2>1, <2>2
<1>5. Outs(t) = Cardinality(OutsAt(t)) /\ Outs(s) = Cardinality(OutsAt(s))
  BY <1>1, OutsFinite
<1> QED BY <1>4, <1>5 DEF t

LEMMA OutsTail ==
  ASSUME NEW s \in Seq(Frame), s # <<>>
  PROVE  Outs(s) = One(Head(s)) + Outs(Tail(s))
<1> DEFINE t == Tail(s)
           U == OutsAt(s) \ {1}
           g == [i \in U |-> i - 1]
<1>1. t \in Seq(Frame) /\ Len(t) = Len(s) - 1 /\ Len(s) \in Nat \ {0}
      /\ \A i \in 1..Len(t) : t[i] = s[i + 1]
  OBVIOUS
<1>2. IsFiniteSet(OutsAt(s)) /\ IsFiniteSet(U) /\ IsFiniteSet(OutsAt(t))
  BY <1>1, OutsFinite, FS_RemoveElement
<1> HIDE DEF t
<1>3. g \in Bijection(U, OutsAt(t))
  <2>1. \A i \in U : i \in 2..Len(s) /\ s[i] = "out"
    BY <1>1 DEF OutsAt
  <2>2. \A i \in U : i - 1 \in OutsAt(t)
    <3> SUFFICES ASSUME NEW i \in U PROVE i - 1 \in OutsAt(t)
      OBVIOUS
    <3>1. i \in 2..Len(s) /\ s[i] = "out"
      BY <2>1
    <3>2. i - 1 \in 1..Len(t) /\ (i - 1) + 1 = i
      BY <1>1, <3>1
    <3>3. t[i - 1] = s[(i - 1) + 1]
      BY <1>1, <3>2
    <3> QED BY <3>1, <3>2, <3>3 DEF OutsAt
  <2>3. \A j \in OutsAt(t) : j + 1 \in U /\ (j + 1) - 1 = j
    <3> SUFFICES ASSUME NEW j \in OutsAt(t) PROVE j + 1 \in U /\ (j + 1) - 1 = j
      OBVIOUS
    <3>1. j \in 1..Len(t) /\ t[j] = "out"
      BY DEF OutsAt
    <3>2. s[j + 1] = "out"
      BY <1>1, <3>1
    <3> QED BY <1>1, <3>1, <3>2 DEF OutsAt
  <2>4. \A i, j \in U : i - 1 = j - 1 => i = j
    BY <2>1
  <2> HIDE DEF U
  <2>5. g \in [U -> OutsAt(t)]
    BY <2>2
  <2>6. g \in Injection(U, OutsAt(t))
    BY <2>4, <2>5 DEF Injection, IsInjective
  <2>7. g \in Surjection(U, OutsAt(t))
    BY <2>3, <2>5 DEF Surjection
  <2> QED BY <2>6, <2>7 DEF Bijection
<1>4. Cardinality(OutsAt(t)) = Cardinality(U)
  BY <1>2, <1>3, FS_Bijection DEF ExistsBijection
<1>5. 1 \in OutsAt(s) <=> Head(s) = "out"
  BY <1>1 DEF OutsAt
<1>6. Cardinality(U) = Cardinality(OutsAt(s)) - One(Head(s))
  BY <1>2, <1>5, FS_RemoveElement, FS_CardinalityType DEF One
<1>7. /\ Outs(t) = Cardinality(OutsAt(t)) /\ Outs(s) = Cardinality(OutsAt(s))
      /\ Outs(s) \in Nat /\ Outs(t) \in Nat
  BY <1>1, OutsFinite
<1> QED BY <1>4, <1>6, <1>7 DEF t, One

-----------------------------------------------------------------------------
(* Output comes before the gateway's reason.                               *)

Told == {"ok", "3", "5", "11"}

LEMMA LastStays ==
  ASSUME LastInv, UNCHANGED <<wire, said, shown, held, box>>, gateway'.open = gateway.open,
         pc' # "out" /\ exit' # "9" => pc # "out" /\ exit # "9",
         exit' \in Told => exit' = exit
  PROVE  LastInv'
BY DEF LastInv, Told

LEMMA GoneLast ==
  ASSUME LastInv, Gone, gateway' = gateway, exit' \in {exit, "panic", "crash"}
  PROVE  LastInv'
BY DEF Gone, LastInv, Reason

LEMMA ControlsLast ==
  ASSUME ShapeInv, ModeInv, LastInv, Controls
  PROVE  LastInv'
<1>1. CASE Restore \/ PanicUnwinds \/ \E g \in {"setup", "socket", "input", "resize"} : PanicKills(g)
  <2>1. Gone /\ gateway' = gateway /\ exit' \in {exit, "panic", "crash"}
    BY <1>1 DEF Restore, PanicUnwinds, PanicKills
  <2> QED BY <2>1, GoneLast
<1>2. CASE WriteEnds
  <2>1. /\ exit = "none" /\ exit' \in {exit, "detached", "1"} /\ gateway'.open = gateway.open
        /\ pc = "write" /\ UNCHANGED <<wire, said, shown, held, box>>
    BY <1>2, WriteEndsKeeps DEF outs, ModeInv
  <2> QED BY <2>1, LastStays DEF Told
<1>3. CASE StartStep \/ OnSignal
  <2>1. /\ exit = "none" /\ exit' \in {"none", "2", "setup", "signal"} /\ gateway' = gateway
        /\ pc # "out" /\ run' = run
    BY <1>3 DEF StartStep, Checks, Watch, EnterRaw, Connected, OnSignal, SignalInSetup,
                TakeSignal, Leave, ModeInv
  <2> QED BY <2>1, LastStays DEF run, outs, Told
<1>4. CASE SetupEnds \/ SetupCancelled \/ Close \/ Signal
  <2>1. /\ exit' \in {exit, "killed"} /\ gateway' = gateway /\ pc # "out" /\ run' = run
        /\ exit' = exit \/ pc' = "out"
    BY <1>4 DEF SetupEnds, SetupCancelled, Close, Signal
  <2> QED BY <2>1, LastStays DEF run, outs, Told
<1> QED BY <1>1, <1>2, <1>3, <1>4 DEF Controls, MainStep

LEMMA MovesLast ==
  ASSUME ShapeInv, LastInv, Moves
  PROVE  LastInv'
<1>0. UNCHANGED <<pc, exit>>
  BY MovesKeep
<1>1. CASE SocketHands
  <2>1. /\ box = "none" /\ held \in Frame /\ box' = held /\ UNCHANGED <<wire, said, shown, gateway>>
        /\ held' = IF held \in Reason THEN "end" ELSE "none"
    BY <1>1 DEF SocketHands
  <2>2. said \in Nat /\ shown \in Nat /\ Outs(wire) \in Nat
    BY OutsFinite DEF ShapeInv
  <2>3. One(held) + One(box) = One(held') + One(box')
    BY <2>1 DEF One, Reason
  <2>4. One(held) \in Nat /\ One(box) \in Nat /\ One(held') \in Nat /\ One(box') \in Nat
    BY DEF One
  <2>5. pc # "out" /\ exit # "9" => said = shown + Outs(wire) + One(held') + One(box')
    <3>1. pc # "out" /\ exit # "9" => said = shown + Outs(wire) + One(held) + One(box)
      BY DEF LastInv
    <3>2. ASSUME NEW a \in Nat, NEW b \in Nat, NEW c \in Nat, NEW d \in Nat,
                 a + b = c + d
          PROVE  \A s, o \in Nat : s + o + a + b = s + o + c + d
      BY <3>2
    <3> QED BY <2>2, <2>3, <2>4, <3>1, <3>2
  <2> QED BY <1>0, <2>1, <2>5 DEF LastInv, Reason
<1>2. CASE InputReads \/ InputHands \/ ResizeReads \/ ResizeHands \/ Type \/ HangUp \/ WindowChanges
  <2>1. UNCHANGED <<wire, said, shown, held, box, gateway>>
    BY <1>2 DEF InputReads, InputHands, ResizeReads, ResizeHands, Type, HangUp, WindowChanges, outs
  <2> QED BY <1>0, <2>1, LastStays
<1>3. CASE GatewaySays \/ GatewayCloses
  <2>1. PICK f \in Frame :
          /\ wire' = Append(wire, f) /\ said' = said + One(f) /\ gateway.open
          /\ UNCHANGED <<shown, held, box>>
          /\ f \in Reason => ~gateway'.open
    BY <1>3 DEF GatewaySays, GatewayCloses, Frame, Reason, One, ShapeInv
  <2>2. wire \in Seq(Frame) /\ Outs(wire') = Outs(wire) + One(f) /\ Outs(wire) \in Nat
    BY <2>1, OutsAppend, OutsFinite DEF ShapeInv
  <2>3. /\ Len(wire') = Len(wire) + 1 /\ wire'[Len(wire) + 1] = f /\ Len(wire) \in Nat
        /\ \A i \in 1..Len(wire) : wire'[i] = wire[i]
    BY <2>1, <2>2
  <2>4. \A i \in 1..Len(wire') : wire'[i] \in Reason => i = Len(wire') /\ ~gateway'.open
    <3> SUFFICES ASSUME NEW i \in 1..Len(wire'), wire'[i] \in Reason
                 PROVE  i = Len(wire') /\ ~gateway'.open
      OBVIOUS
    <3>1. i \notin 1..Len(wire)
      BY <2>1, <2>3 DEF LastInv
    <3> QED BY <2>1, <2>3, <3>1
  <2>5. held \notin Reason \cup {"end"} /\ exit \notin Told
    BY <2>1 DEF LastInv, Told
  <2>6. pc # "out" /\ exit # "9" => said' = shown + Outs(wire') + One(held) + One(box)
    BY <2>1, <2>2 DEF LastInv, ShapeInv, One
  <2> QED BY <1>0, <2>1, <2>4, <2>5, <2>6 DEF LastInv, Told
<1> QED BY <1>1, <1>2, <1>3 DEF Moves

LEMMA LoopLast ==
  ASSUME ShapeInv, ModeInv, LastInv, LoopStep \/ SocketReads
  PROVE  LastInv'
<1>0. exit = "none" /\ pc # "out" /\ said \in Nat /\ shown \in Nat /\ Outs(wire) \in Nat
      /\ wire \in Seq(Frame)
  BY OutsFinite DEF ModeInv, LoopStep, TakeOutput, TakeChallenge, TakeClose, TakeKeys,
     TakeInputEnd, TakeSize, SocketReads, Running, ShapeInv
<1>1. CASE TakeOutput
  <2>1. /\ box = "out" /\ box' = "none" /\ UNCHANGED <<wire, said, held, gateway>>
        /\ (shown' = shown + 1 /\ exit' = exit) \/ exit' = "9"
    BY <1>1 DEF TakeOutput, Leave
  <2>2. exit' # "9" => said = shown' + Outs(wire) + One(held) + One(box')
    <3>1. One(box) = 1 /\ One(box') = 0 /\ One(held) \in Nat
      BY <2>1 DEF One
    <3>2. said = shown + Outs(wire) + One(held) + One(box)
      BY <1>0 DEF LastInv
    <3> QED BY <1>0, <2>1, <3>1, <3>2
  <2> QED BY <1>0, <2>1, <2>2 DEF LastInv, Reason
<1>2. CASE TakeChallenge
  <2>1. /\ box = "challenge" /\ box' = "none" /\ UNCHANGED <<wire, said, shown, held, gateway>>
        /\ exit' \in {exit, "lock"}
    BY <1>2 DEF TakeChallenge, Leave
  <2> QED BY <1>0, <2>1 DEF LastInv, One, Reason
<1>3. CASE TakeClose
  <2>1. /\ box \in Reason /\ box' = "none" /\ UNCHANGED <<wire, said, shown, held, gateway>>
    BY <1>3 DEF TakeClose
  <2>2. held = "end" /\ wire = <<>> /\ ~gateway.open
    BY <2>1 DEF LastInv
  <2>3. said = shown
    BY <1>0, <2>1, <2>2, OutsEmpty DEF LastInv, One, Reason
  <2> QED BY <1>0, <2>1, <2>2, <2>3, OutsEmpty DEF LastInv, One, Reason
<1>4. CASE TakeKeys \/ TakeInputEnd \/ TakeSize
  <2>1. UNCHANGED <<wire, said, shown, held, box, gateway>> /\ exit' \in {exit, "detached", "1"}
    <3>1. CASE TakeKeys
      BY <3>1, TakeKeysFrame DEF outs
    <3>2. CASE TakeInputEnd \/ TakeSize
      BY <3>2 DEF TakeInputEnd, TakeSize, Leave, outs
    <3> QED BY <1>4, <3>1, <3>2
  <2> QED BY <1>0, <2>1, LastStays DEF Told
<1>5. CASE SocketReads
  <2>1. /\ held = "none" /\ wire # <<>> /\ held' = Head(wire) /\ wire' = Tail(wire)
        /\ UNCHANGED <<pc, exit, said, shown, box, gateway>>
    BY <1>5 DEF SocketReads
  <2>2. /\ Outs(wire) = One(held') + Outs(wire') /\ wire' \in Seq(Frame) /\ Outs(wire') \in Nat
        /\ One(held') \in Nat
    <3>1. Outs(wire) = One(Head(wire)) + Outs(Tail(wire)) /\ Tail(wire) \in Seq(Frame)
      BY <1>0, <2>1, OutsTail
    <3>2. Outs(Tail(wire)) \in Nat
      BY <3>1, OutsFinite
    <3> QED BY <2>1, <3>1, <3>2 DEF One
  <2>3. /\ Len(wire') = Len(wire) - 1 /\ Len(wire) \in Nat \ {0} /\ wire[1] = held'
        /\ \A i \in 1..Len(wire') : wire'[i] = wire[i + 1]
    BY <1>0, <2>1
  <2>4. held' \in Reason => wire' = <<>> /\ ~gateway.open
    BY <2>2, <2>3 DEF LastInv
  <2>5. held' # "end"
    BY <1>0, <2>1 DEF Frame, Reason
  <2>6. \A i \in 1..Len(wire') : wire'[i] \in Reason => i = Len(wire') /\ ~gateway.open
    <3> SUFFICES ASSUME NEW i \in 1..Len(wire'), wire'[i] \in Reason
                 PROVE  i = Len(wire') /\ ~gateway.open
      OBVIOUS
    <3>1. i + 1 \in 1..Len(wire) /\ wire[i + 1] \in Reason
      BY <2>3
    <3>2. i + 1 = Len(wire) /\ ~gateway.open
      BY <3>1 DEF LastInv
    <3> QED BY <2>3, <3>2
  <2>7. said = shown + Outs(wire') + One(held') + One(box)
    BY <1>0, <2>1, <2>2 DEF LastInv, One
  <2>8. box \notin Reason
    BY <2>1 DEF LastInv
  <2> QED BY <1>0, <2>1, <2>4, <2>5, <2>6, <2>7, <2>8 DEF LastInv
<1> QED BY <1>1, <1>2, <1>3, <1>4, <1>5 DEF LoopStep

LEMMA LastInvariant == Spec => []LastInv
<1>1. Init => LastInv
  BY OutsEmpty DEF Init, LastInv, One, Reason
<1>2. ASSUME ShapeInv, ModeInv, LastInv, [Next]_vars PROVE LastInv'
  <2>1. CASE UNCHANGED vars
    BY <1>2, <2>1, LastStays DEF vars, run, outs
  <2> QED BY <1>2, <2>1, AllSteps, ControlsLast, MovesLast, LoopLast
<1> QED BY <1>1, <1>2, ShapeInvariant, ModeInvariant, PTL DEF Spec

\* An exit code that names the gateway's reason comes after all its output,
\* however much there was and wherever the loop was when it closed (Run,
\* outcomeForSocketError).
THEOREM LastWordsShownCorrect == Spec => []LastWordsShown
<1>1. LastInv => LastWordsShown
  BY DEF LastInv, LastWordsShown
<1> QED BY <1>1, LastInvariant, PTL

-----------------------------------------------------------------------------
(* The window's size.                                                      *)

LEMMA FollowStays ==
  ASSUME FollowInv, window' = window, gateway' = gateway, pc # "write", pc # "out"
  PROVE  pc' # "write" \/ frame'.kind # "size" => FollowInv'
BY DEF FollowInv

LEMMA FollowIs ==
  ASSUME ShapeInv, FollowInv, window' = window, gateway' = gateway,
         pc # "out", pc' = pc, frame' = frame
  PROVE  FollowInv'
BY DEF FollowInv

LEMMA ControlsFollow ==
  ASSUME ShapeInv, ModeInv, FollowInv, Controls
  PROVE  FollowInv'
<1>1. CASE Restore \/ PanicUnwinds \/ \E g \in {"setup", "socket", "input", "resize"} : PanicKills(g)
  BY <1>1 DEF Restore, PanicUnwinds, PanicKills, Gone, FollowInv
<1>2. CASE WriteEnds
  <2>1. /\ gateway'.open = gateway.open /\ window' = window /\ pc = "write"
        /\ gateway'.size = IF gateway.open /\ frame.kind = "size" THEN frame.size ELSE gateway.size
        /\ pc' \in {"run", "close"}
    BY <1>2, WriteEndsKeeps
  <2> QED BY <2>1 DEF FollowInv
<1>3. CASE StartStep \/ OnSignal \/ SetupCancelled \/ Close
  <2>1. /\ pc \notin {"write", "out"} /\ pc' # "write" /\ window' = window /\ gateway' = gateway
    BY <1>3 DEF StartStep, Checks, Watch, EnterRaw, Connected, OnSignal, SignalInSetup,
                TakeSignal, Leave, SetupCancelled, Close, run
  <2> QED BY <2>1, FollowStays
<1>4. CASE SetupEnds
  <2>1. pc # "out" /\ UNCHANGED <<pc, window, gateway, frame>>
    BY <1>4 DEF SetupEnds, run
  <2> QED BY <2>1, FollowIs
<1>5. CASE Signal
  <2>1. pc # "out" /\ UNCHANGED <<window, gateway, frame>> /\ pc' \in {pc, "out"}
    BY <1>5 DEF Signal, run
  <2>2. pc' = "out" => FollowInv'
    BY DEF FollowInv
  <2> QED BY <2>1, <2>2, FollowIs
<1> QED BY <1>1, <1>2, <1>3, <1>4, <1>5 DEF Controls, MainStep

LEMMA MovesFollow ==
  ASSUME ShapeInv, ModeInv, FollowInv, Moves
  PROVE  FollowInv'
<1>0. /\ pc' = pc /\ signal' = signal /\ window.held \in Size \cup {"none"}
      /\ window \in [size : Size, winch : BOOLEAN, held : Size \cup {"none"},
                     box : Size \cup {"none"}, seen : BOOLEAN]
      /\ signal.on \in BOOLEAN
  BY MovesKeep DEF ShapeInv
<1>1. CASE SocketHands \/ InputReads \/ InputHands \/ Type \/ HangUp \/ GatewaySays
  <2>1. UNCHANGED <<window, gateway, frame>>
    BY <1>1 DEF SocketHands, InputReads, InputHands, Type, HangUp, GatewaySays
  <2> QED BY <1>0, <2>1 DEF FollowInv
<1>2. CASE GatewayCloses
  <2>1. gateway'.open = FALSE /\ UNCHANGED <<window, frame>>
    BY <1>2 DEF GatewayCloses, ShapeInv
  <2> QED BY <1>0, <2>1 DEF FollowInv
<1>3. CASE ResizeReads
  <2>1. window'.held = window.size /\ window'.size = window.size
    BY <1>0, <1>3 DEF ResizeReads
  <2> QED BY <1>0, <2>1, NoFrameTyped DEF FollowInv
<1>4. CASE ResizeHands
  <2>1. /\ window.held # "none" /\ window'.box = window.held /\ window'.size = window.size
        /\ window'.winch = window.winch /\ window'.seen = window.seen /\ window'.held = "none"
    BY <1>0, <1>4 DEF ResizeHands
  <2> QED BY <1>0, <2>1 DEF FollowInv
<1>5. CASE WindowChanges
  <2>1. window'.winch = signal.on /\ window'.seen = signal.on
    BY <1>0, <1>5 DEF WindowChanges
  <2> QED BY <1>0, <2>1 DEF FollowInv
<1> QED BY <1>1, <1>2, <1>3, <1>4, <1>5 DEF Moves

LEMMA LoopFollow ==
  ASSUME ShapeInv, FollowInv, LoopStep \/ SocketReads
  PROVE  FollowInv'
<1>1. CASE TakeOutput \/ TakeClose \/ TakeInputEnd
  <2>1. pc = "run" /\ pc' # "write" /\ UNCHANGED <<window, gateway>>
    BY <1>1 DEF TakeOutput, TakeClose, TakeInputEnd, Leave
  <2> QED BY <2>1, FollowStays
<1>2. CASE TakeChallenge
  <2>1. pc = "run" /\ UNCHANGED <<window, gateway>> /\ (pc' # "write" \/ frame'.kind = "proof")
    BY <1>2, NoFrameTyped DEF TakeChallenge, Leave
  <2> QED BY <2>1, FollowStays
<1>3. CASE TakeKeys
  <2>1. pc = "run" /\ UNCHANGED <<window, gateway>> /\ (pc' # "write" \/ frame'.kind = "keys")
    BY <1>3, TakeKeysFrame
  <2> QED BY <2>1, FollowStays
<1>4. CASE TakeSize
  <2>1. /\ pc = "run" /\ gateway' = gateway /\ window.box # "none" /\ window'.box = "none"
        /\ window'.held = window.held /\ window'.size = window.size
        /\ window'.winch = window.winch /\ window'.seen = window.seen
    BY <1>4 DEF TakeSize, ShapeInv
  <2>2. \/ window.box \notin Good /\ pc' = "run"
        \/ pc' = "write" /\ frame'.kind = "size" /\ frame'.size = window.box
    BY <1>4, NoFrameTyped DEF TakeSize
  <2> QED BY <2>1, <2>2 DEF FollowInv
<1>5. CASE SocketReads
  <2>1. pc # "out" /\ UNCHANGED <<pc, window, gateway, frame>>
    BY <1>5 DEF SocketReads, Running
  <2> QED BY <2>1, FollowIs
<1> QED BY <1>1, <1>2, <1>3, <1>4, <1>5 DEF LoopStep

\* A change of the window is not forgotten, however the changes, the resize
\* goroutine, the loop and its other writes interleave: when all is quiet the
\* gateway has the size of the window (WatchResize, Run).
THEOREM SizeFollowsCorrect == Spec => []SizeFollows
<1>1. Init => FollowInv
  BY DEF Init, FollowInv
<1>2. ASSUME ShapeInv, ModeInv, FollowInv, [Next]_vars PROVE FollowInv'
  <2>1. CASE UNCHANGED vars
    BY <1>2, <2>1 DEF vars, run, FollowInv
  <2> QED BY <1>2, <2>1, AllSteps, ControlsFollow, MovesFollow, LoopFollow
<1>3. FollowInv => SizeFollows
  BY DEF FollowInv, SizeFollows
<1> QED BY <1>1, <1>2, <1>3, ShapeInvariant, ModeInvariant, PTL DEF Spec

=============================================================================
