------------------------------- MODULE Attach -------------------------------
(***************************************************************************)
(* daemons attach: the terminal is put into raw mode, a websocket to the   *)
(* gateway is set up, and one loop selects among what the goroutines for   *)
(* the socket, the keyboard and the window size hand it, and signals.      *)
(* internal/terminal/attach.go, tty.go, signals_posix.go, app/attach.go.   *)
(*                                                                         *)
(* Keys are the prefix Ctrl-] (p), d, and any other (x).  The gateway and  *)
(* the websocket library are external: the wire keeps frames in order and  *)
(* ends with the reason why the gateway closed, if it did.                 *)
(***************************************************************************)
EXTENDS Naturals, Sequences, FiniteSets, SequencesExt

CONSTANTS
  Good,     \* window sizes within the limits of the gateway
  Bad,      \* and beyond
  MaxEvents \* bound: what the user, the gateway and the window do in one attach

ASSUME AttachAssumption ==
  /\ Good # {} /\ Good \cap Bad = {} /\ "none" \notin Good \cup Bad
  /\ MaxEvents \in Nat

VARIABLES
  pc,       \* the main goroutine
  exit,     \* what it will report
  tty,      \* mode of the terminal; stuck is a restore that failed
  signal,   \* channel of signals, once registered
  setup,    \* goroutine of connectSocket
  conn,     \* the connection as this side sees it
  gateway,  \* what the gateway has: whether it still listens, the keys, the size
  wire,     \* frames from the gateway, the last one its reason to close
  said,     \* history: how much output the gateway sent
  shown,    \* output written to the terminal
  held,     \* frame in the hands of the socket's goroutine
  box,      \* channel socketMessages
  keys,     \* what the user typed, and how far each stage has come
  typing,   \* goroutine and channel of the keyboard
  pending,  \* prefixPending
  frame,    \* what the main goroutine is writing to the socket
  window,   \* window size and its goroutine
  events    \* counts what the environment did

outs   == <<wire, said, shown, held, box>>
ins    == <<keys, typing, pending>>
run    == <<outs, ins, frame, window>>
vars   == <<pc, exit, tty, signal, setup, conn, gateway, run, events>>

Size   == Good \cup Bad
Key    == {"p", "d", "x"}
Reason == {"1000", "4401", "4403", "4409", "lost"}
Frame  == {"out", "challenge"} \cup Reason

TypeOK ==
  /\ pc \in {"checks", "watch", "raw", "connect", "cancel", "run", "write", "close",
             "restore", "out"}
  /\ exit \in {"none", "ok", "detached", "1", "2", "3", "5", "9", "11", "lock", "signal",
               "setup", "panic", "crash", "killed"}
  /\ tty \in {"cooked", "raw", "stuck"}
  /\ signal \in [on : BOOLEAN, full : BOOLEAN]
  /\ setup \in {"none", "working", "done", "failed"}
  /\ conn \in {"none", "open", "closed"}
  /\ gateway \in [open : BOOLEAN, keys : Seq(Key), size : Good]
  /\ wire \in Seq(Frame) /\ Len(wire) <= MaxEvents
  /\ said \in 0..MaxEvents /\ shown \in 0..said
  /\ held \in Frame \cup {"none", "end"}
  /\ box \in Frame \cup {"none"}
  /\ keys \in [typed : Seq(Key), read : 0..MaxEvents, boxed : 0..MaxEvents, got : 0..MaxEvents]
  /\ keys.got <= keys.boxed /\ keys.boxed <= keys.read /\ keys.read <= Len(keys.typed)
  /\ typing \in [held : {"none", "keys", "eof", "error", "end"}, box : {"none", "keys", "eof", "error"}]
  /\ pending \in BOOLEAN
  /\ frame \in [kind : {"none", "keys", "size", "proof"}, keys : Seq(Key), size : Size,
                detach : BOOLEAN]
  /\ window \in [size : Size, winch : BOOLEAN, held : Size \cup {"none"},
                 box : Size \cup {"none"}, seen : BOOLEAN]
  /\ events \in 0..MaxEvents

AnySize == CHOOSE s \in Good : TRUE
NoFrame == [kind |-> "none", keys |-> <<>>, size |-> AnySize, detach |-> FALSE]

\* The window may have changed between Preflight and WatchResize.
Init ==
  /\ pc = "checks" /\ exit = "none" /\ tty = "cooked"
  /\ signal = [on |-> FALSE, full |-> FALSE]
  /\ setup = "none" /\ conn = "none"
  /\ gateway \in [open : {TRUE}, keys : {<<>>}, size : Good]
  /\ wire = <<>> /\ said = 0 /\ shown = 0 /\ held = "none" /\ box = "none"
  /\ keys = [typed |-> <<>>, read |-> 0, boxed |-> 0, got |-> 0]
  /\ typing = [held |-> "none", box |-> "none"]
  /\ pending = FALSE
  /\ frame = NoFrame
  /\ window = [size |-> AnySize, winch |-> FALSE, held |-> "none", box |-> "none", seen |-> FALSE]
  /\ events = 0

-----------------------------------------------------------------------------
(* localPrefix: Ctrl-] d detaches, Ctrl-] twice is one, before any other    *)
(* key it is itself.                                                       *)

PrefixStep(s, k) ==
  IF s.detach THEN s
  ELSE IF s.pending
  THEN [s EXCEPT !.pending = FALSE,
                 !.detach  = k = "d",
                 !.out     = CASE k = "d" -> @ [] k = "p" -> Append(@, "p") [] OTHER -> @ \o <<"p", k>>]
  ELSE IF k = "p" THEN [s EXCEPT !.pending = TRUE] ELSE [s EXCEPT !.out = Append(@, k)]

\* The loop over one chunk; after[i] is its state after i keys.
Filtered(input, first) ==
  LET after[i \in 0..Len(input)] ==
        IF i = 0 THEN first ELSE PrefixStep(after[i - 1], input[i])
  IN  after[Len(input)]

\* Mutant: every chunk starts afresh.
MLocalPrefixForgets(input, open) ==
  Filtered(input, [out |-> <<>>, pending |-> FALSE, detach |-> FALSE])

LocalPrefix(input, open) ==
  Filtered(input, [out |-> <<>>, pending |-> open, detach |-> FALSE])

-----------------------------------------------------------------------------
(* attach: up to the loop.                                                 *)

\* Arguments, Preflight, login, ResolveDaemon, lockResponder.
Checks ==
  /\ pc = "checks"
  /\ \/ pc' = "watch" /\ UNCHANGED exit
     \/ pc' = "out" /\ exit' = "2"
  /\ UNCHANGED <<tty, signal, setup, conn, gateway, run>>

\* Mutant: raw mode comes first.
MWatchInRaw ==
  /\ pc = "watch"
  /\ pc' = "raw"
  /\ tty' = "raw"
  /\ UNCHANGED <<exit, signal, setup, conn, gateway, run>>

\* Signals are caught before the mode changes.
Watch ==
  /\ pc = "watch"
  /\ pc' = "raw"
  /\ signal' = [signal EXCEPT !.on = TRUE]
  /\ UNCHANGED <<exit, tty, setup, conn, gateway, run>>

EnterRaw ==
  /\ pc = "raw"
  /\ \/ pc' = "connect" /\ tty' = "raw" /\ setup' = "working" /\ UNCHANGED exit
     \/ pc' = "out" /\ exit' = "2" /\ UNCHANGED <<tty, setup>>
  /\ UNCHANGED <<signal,  conn, gateway, run>>

\* connectSocket: the ticket, its checks and the dial.  When the context was
\* cancelled the dial may already have succeeded.
SetupEnds ==
  /\ setup = "working" /\ pc # "out"
  /\ \/ setup' = "done" /\ conn' = "open"
     \/ setup' = "failed" /\ UNCHANGED conn
  /\ UNCHANGED <<pc, exit, tty, signal,  gateway, run>>

Connected ==
  /\ pc = "connect" /\ setup \in {"done", "failed"}
  /\ IF setup = "done" THEN pc' = "run" /\ UNCHANGED exit
                       ELSE pc' = "restore" /\ exit' = "setup"
  /\ UNCHANGED <<tty, signal, setup, conn, gateway, run>>

\* Mutant: the connection that is being set up is left to itself.
MSignalInSetup ==
  /\ pc = "connect" /\ signal.full
  /\ signal' = [signal EXCEPT !.full = FALSE]
  /\ pc' = "restore" /\ exit' = "signal"
  /\ UNCHANGED <<tty, setup, conn, gateway, run>>

\* Mutant: the signal is looked at when the setup has ended.
MSignalAfterSetup ==
  /\ pc = "connect" /\ signal.full /\ setup # "working"
  /\ signal' = [signal EXCEPT !.full = FALSE]
  /\ pc' = "cancel" /\ exit' = "signal"
  /\ UNCHANGED <<tty, setup, conn, gateway, run>>

\* The setup is cancelled and its result awaited.
SignalInSetup ==
  /\ pc = "connect" /\ signal.full
  /\ signal' = [signal EXCEPT !.full = FALSE]
  /\ pc' = "cancel" /\ exit' = "signal"
  /\ UNCHANGED <<tty, setup, conn, gateway, run>>

SetupCancelled ==
  /\ pc = "cancel" /\ setup # "working"
  /\ conn' = IF conn = "open" THEN "closed" ELSE conn
  /\ pc' = "restore"
  /\ UNCHANGED <<exit, tty, signal, setup, gateway, run>>

-----------------------------------------------------------------------------
(* Run: the goroutines.  Both end with the context, which is cancelled     *)
(* when the loop returns.                                                  *)

Running == pc \in {"run", "write"}

\* A close frame or a broken connection is an error of Read, and the last one.
SocketReads ==
  /\ Running /\ held = "none" /\ wire # <<>>
  /\ held' = Head(wire)
  /\ wire' = Tail(wire)
  /\ conn' = IF Head(wire) \in Reason THEN "closed" ELSE conn
  /\ UNCHANGED <<pc, exit, tty, signal, setup, gateway, said, shown, box, ins, frame, window>>

\* Mutant: an error does not wait for its turn.
MSocketHands ==
  /\ Running /\ held \in Frame /\ (box = "none" \/ held \in Reason)
  /\ box' = held
  /\ held' = IF held \in Reason THEN "end" ELSE "none"
  /\ UNCHANGED <<pc, exit, tty, signal, setup, conn, gateway, wire, said, shown, ins, frame, window>>

SocketHands ==
  /\ Running /\ held \in Frame /\ box = "none"
  /\ box' = held
  /\ held' = IF held \in Reason THEN "end" ELSE "none"
  /\ UNCHANGED <<pc, exit, tty, signal, setup, conn, gateway, wire, said, shown, ins, frame, window>>

\* All that was typed or a part of it.
InputReads ==
  /\ Running /\ typing.held = "none"
  /\ \E n \in (keys.read + 1)..Len(keys.typed) :
       keys' = [keys EXCEPT !.read = n] /\ typing' = [typing EXCEPT !.held = "keys"]
  /\ UNCHANGED <<pc, exit, tty, signal, setup, conn, gateway, outs, pending, frame, window>>

InputHands ==
  /\ Running /\ typing.held \in {"keys", "eof", "error"} /\ typing.box = "none"
  /\ typing' = [box |-> typing.held, held |-> IF typing.held = "keys" THEN "none" ELSE "end"]
  /\ keys' = [keys EXCEPT !.boxed = keys.read]
  /\ UNCHANGED <<pc, exit, tty, signal, setup, conn, gateway, outs, pending, frame, window>>

\* WatchResize takes the size when it is told of a change, then puts it in the
\* place of one that nobody has taken.
ResizeReads ==
  /\ signal.on /\ pc # "out" /\ window.winch /\ window.held = "none"
  /\ window' = [window EXCEPT !.winch = FALSE, !.held = window.size]
  /\ UNCHANGED <<pc, exit, tty, signal, setup, conn, gateway, outs, ins, frame>>

\* Mutant: a size that nobody has taken stays.
MResizeHands ==
  /\ pc # "out" /\ window.held # "none"
  /\ window' = [window EXCEPT !.held = "none", !.box = IF @ = "none" THEN window.held ELSE @]
  /\ UNCHANGED <<pc, exit, tty, signal, setup, conn, gateway, outs, ins, frame>>

ResizeHands ==
  /\ pc # "out" /\ window.held # "none"
  /\ window' = [window EXCEPT !.held = "none", !.box = window.held]
  /\ UNCHANGED <<pc, exit, tty, signal, setup, conn, gateway, outs, ins, frame>>

-----------------------------------------------------------------------------
(* Run: the loop.  select takes any branch that is ready.                  *)

ExitFor(r) ==
  CASE r = "1000" -> "ok" [] r = "4401" -> "3" [] r = "4403" -> "5" [] r = "4409" -> "11"
    [] OTHER -> "1"

Leave(e) == pc' = "close" /\ exit' = e

TakeOutput ==
  /\ pc = "run" /\ box = "out"
  /\ box' = "none"
  /\ \/ shown' = shown + 1 /\ UNCHANGED <<pc, exit>>
     \/ Leave("9") /\ UNCHANGED shown
  /\ UNCHANGED <<tty, signal, setup, conn, gateway, wire, said, held, ins, frame, window>>

\* Streams.Lock signs the proof; without one, or when it fails, the workspace
\* is left.
TakeChallenge ==
  /\ pc = "run" /\ box = "challenge"
  /\ box' = "none"
  /\ \/ pc' = "write" /\ frame' = [NoFrame EXCEPT !.kind = "proof"] /\ UNCHANGED exit
     \/ Leave("lock") /\ UNCHANGED frame
  /\ UNCHANGED <<tty, signal, setup, conn, gateway, wire, said, shown, held, ins, window>>

TakeClose ==
  /\ pc = "run" /\ box \in Reason
  /\ box' = "none"
  /\ Leave(ExitFor(box))
  /\ UNCHANGED <<tty, signal, setup, conn, gateway, wire, said, shown, held, ins, frame, window>>

TakeKeys ==
  LET r == LocalPrefix(SubSeq(keys.typed, keys.got + 1, keys.boxed), pending)
  IN  /\ pc = "run" /\ typing.box = "keys"
      /\ typing' = [typing EXCEPT !.box = "none"]
      /\ keys' = [keys EXCEPT !.got = keys.boxed]
      /\ pending' = r.pending
      /\ IF r.out # <<>>
         THEN /\ pc' = "write" /\ UNCHANGED exit
              /\ frame' = [NoFrame EXCEPT !.kind = "keys", !.keys = r.out, !.detach = r.detach]
         ELSE /\ IF r.detach THEN Leave("detached") ELSE UNCHANGED <<pc, exit>>
              /\ UNCHANGED frame
      /\ UNCHANGED <<tty, signal, setup, conn, gateway, outs, window>>

\* The end of the input is no reason to leave; another error is.
TakeInputEnd ==
  /\ pc = "run" /\ typing.box \in {"eof", "error"}
  /\ typing' = [typing EXCEPT !.box = "none"]
  /\ IF typing.box = "error" THEN Leave("1") ELSE UNCHANGED <<pc, exit>>
  /\ UNCHANGED <<tty, signal, setup, conn, gateway, outs, keys, pending, frame, window>>

\* Mutant: the size goes as it is.
MTakeSizeAny ==
  /\ pc = "run" /\ window.box # "none"
  /\ window' = [window EXCEPT !.box = "none"]
  /\ pc' = "write" /\ frame' = [NoFrame EXCEPT !.kind = "size", !.size = window.box]
  /\ UNCHANGED <<exit, tty, signal, setup, conn, gateway, outs, ins>>

TakeSize ==
  /\ pc = "run" /\ window.box # "none"
  /\ window' = [window EXCEPT !.box = "none"]
  /\ IF window.box \in Good
     THEN pc' = "write" /\ frame' = [NoFrame EXCEPT !.kind = "size", !.size = window.box]
     ELSE UNCHANGED <<pc, frame>>
  /\ UNCHANGED <<exit, tty, signal, setup, conn, gateway, outs, ins>>

TakeSignal ==
  /\ pc = "run" /\ signal.full
  /\ signal' = [signal EXCEPT !.full = FALSE]
  /\ Leave("signal")
  /\ UNCHANGED <<tty, setup, conn, gateway, run>>

\* The loop waits for its write.  To a gateway that has closed, it fails, or
\* is lost when this side has not read of the end; the error of a write tells
\* no reason.
WriteEnds ==
  /\ pc = "write"
  /\ frame' = NoFrame
  /\ \/ /\ gateway.open \/ conn = "open"
        /\ gateway' = CASE gateway.open /\ frame.kind = "keys" ->
                             [gateway EXCEPT !.keys = @ \o frame.keys]
                        [] gateway.open /\ frame.kind = "size" ->
                             [gateway EXCEPT !.size = frame.size]
                        [] OTHER -> gateway
        /\ IF frame.detach THEN Leave("detached") ELSE pc' = "run" /\ UNCHANGED exit
     \/ ~gateway.open /\ Leave("1") /\ UNCHANGED gateway
  /\ UNCHANGED <<tty, signal, setup, conn, outs, ins, window>>

\* Connection.Close and the deferred calls of Run and Connect.
Close ==
  /\ pc = "close"
  /\ conn' = "closed"
  /\ pc' = "restore"
  /\ UNCHANGED <<exit, tty, signal, setup, gateway, run>>

\* The process ends, and what its goroutines hold with it.
Gone ==
  /\ pc' = "out"
  /\ held' = "none" /\ box' = "none"
  /\ typing' = [held |-> "none", box |-> "none"]
  /\ pending' = FALSE /\ frame' = NoFrame
  /\ window' = [window EXCEPT !.winch = FALSE, !.held = "none", !.box = "none"]
  /\ UNCHANGED <<keys, wire, said, shown>>

Restore ==
  /\ pc = "restore"
  /\ \E t \in {"cooked", "stuck"} : tty' = t
  /\ Gone
  /\ UNCHANGED <<exit, signal, setup, conn, gateway>>

\* Mutant: restore is not deferred.
MPanicUnwinds ==
  /\ pc \in {"connect", "cancel", "run", "write", "close"}
  /\ Gone /\ exit' = "panic"
  /\ conn' = IF conn = "open" THEN "closed" ELSE conn
  /\ UNCHANGED <<tty, signal, setup, gateway>>

\* A panic in Connect or Run unwinds through attach's deferred restore.
PanicUnwinds ==
  /\ pc \in {"connect", "cancel", "run", "write", "close"}
  /\ Gone /\ exit' = "panic"
  /\ tty' = "cooked"
  /\ conn' = IF conn = "open" THEN "closed" ELSE conn
  /\ UNCHANGED <<signal, setup, gateway>>

\* A panic in another goroutine ends the process where it is.
PanicKills(g) ==
  /\ CASE g = "setup"  -> setup = "working" /\ pc # "out"
       [] g = "socket" -> Running /\ held # "end"
       [] g = "input"  -> Running /\ typing.held # "end"
       [] g = "resize" -> signal.on /\ pc # "out"
  /\ Gone /\ exit' = "crash"
  /\ UNCHANGED <<tty, signal, setup, conn, gateway>>

-----------------------------------------------------------------------------
(* The environment.                                                        *)

\* A registered signal goes to the channel, which holds one; before that it
\* ends the process.
Signal ==
  /\ pc # "out"
  /\ IF signal.on THEN signal' = [signal EXCEPT !.full = TRUE] /\ UNCHANGED <<pc, exit>>
                  ELSE pc' = "out" /\ exit' = "killed" /\ UNCHANGED signal
  /\ UNCHANGED <<tty, setup, conn, gateway, run>>

\* The terminal hangs up: Input.Read reports the end or another error.
HangUp ==
  /\ Running /\ typing.held = "none" /\ keys.read = Len(keys.typed)
  /\ \E e \in {"eof", "error"} : typing' = [typing EXCEPT !.held = e]
  /\ UNCHANGED <<pc, exit, tty, signal, setup, conn, gateway, outs, keys, pending, frame, window>>

Type ==
  /\ Running
  /\ \E k \in Key : keys' = [keys EXCEPT !.typed = Append(@, k)]
  /\ UNCHANGED <<pc, exit, tty, signal, setup, conn, gateway, outs, typing, pending, frame, window>>

WindowChanges ==
  /\ pc # "out"
  /\ \E s \in Size \ {window.size} :
       window' = [window EXCEPT !.size = s, !.winch = signal.on, !.seen = signal.on]
  /\ UNCHANGED <<pc, exit, tty, signal, setup, conn, gateway, outs, ins, frame>>

GatewaySays ==
  /\ conn = "open" /\ gateway.open
  /\ \E f \in {"out", "challenge"} :
       wire' = Append(wire, f) /\ said' = IF f = "out" THEN said + 1 ELSE said
  /\ UNCHANGED <<pc, exit, tty, signal, setup, conn, gateway, shown, held, box, ins, frame, window>>

GatewayCloses ==
  /\ conn = "open" /\ gateway.open
  /\ gateway' = [gateway EXCEPT !.open = FALSE]
  /\ \E r \in Reason : wire' = Append(wire, r)
  /\ UNCHANGED <<pc, exit, tty, signal, setup, conn, said, shown, held, box, ins, frame, window>>

-----------------------------------------------------------------------------

LoopStep ==
  \/ TakeOutput \/ TakeChallenge \/ TakeClose \/ TakeKeys \/ TakeInputEnd \/ TakeSize

StartStep == Checks \/ Watch \/ EnterRaw \/ Connected
MainStep  == SetupCancelled \/ WriteEnds \/ Close \/ Restore
OnSignal  == SignalInSetup \/ TakeSignal
Feeders   == SocketReads \/ SocketHands \/ InputReads \/ InputHands \/ ResizeReads \/ ResizeHands

Environment == Signal \/ Type \/ HangUp \/ WindowChanges \/ GatewaySays \/ GatewayCloses

Program ==
  \/ StartStep \/ SetupEnds \/ MainStep \/ LoopStep \/ OnSignal \/ Feeders
  \/ PanicUnwinds \/ \E g \in {"setup", "socket", "input", "resize"} : PanicKills(g)

Next ==
  \/ Program /\ UNCHANGED events
  \/ Environment /\ events < MaxEvents /\ events' = events + 1

Spec == Init /\ [][Next]_vars

\* The goroutines run; a cancelled setup ends, another may hang; the network
\* takes or refuses what is written; select does not pass over a branch for ever.
FairSpec ==
  /\ Spec
  /\ WF_vars((StartStep \/ MainStep) /\ UNCHANGED events)
  /\ WF_vars(SetupEnds /\ pc = "cancel" /\ UNCHANGED events)
  /\ SF_vars(OnSignal /\ UNCHANGED events)

-----------------------------------------------------------------------------
(* What the keys mean, said without chunks and state.                      *)

\* A prefix key opens when an even number of them stands right before it.
Opens(s, i) ==
  /\ s[i] = "p"
  /\ LET before == {j \in 0..(i - 1) : \A l \in (j + 1)..(i - 1) : s[l] = "p"}
     IN  Cardinality(before) % 2 = 1

Detaches(s) == {i \in 2..Len(s) : s[i] = "d" /\ Opens(s, i - 1)}

\* Before the first detach, every key but the prefixes that open and are not
\* followed by another key.
Until(s) == IF Detaches(s) = {} THEN Len(s) ELSE Min(Detaches(s)) - 1
Kept(s)  == {i \in 1..Until(s) : Opens(s, i) => i < Until(s) /\ s[i + 1] # "p"}

Rank(K, i)   == Cardinality({j \in K : j <= i})
Listed(s, K) == [n \in 1..Cardinality(K) |-> s[CHOOSE i \in K : Rank(K, i) = n]]

Meant(s) == Listed(s, Kept(s))

Got == SubSeq(keys.typed, 1, keys.got)

\* The gateway gets the keys that were meant, in order, once, however the
\* reads cut them and whatever else the loop did in between; it gets none after
\* Ctrl-] d, and only that detaches (localPrefix, Run).
KeysArrive ==
  /\ IsPrefix(gateway.keys, Meant(Got))
  /\ pc # "write" /\ gateway.open /\ exit \notin {"panic", "crash"} => gateway.keys = Meant(Got)
  /\ exit = "detached" => Detaches(Got) # {}

\* When the process has ended the terminal is not left raw, whatever ended it: a
\* signal at any point, a failure, a panic in Connect or Run (attach).  Not meant
\* is a panic in one of the goroutines, which no deferred call of attach sees.
RawRestored == pc = "out" /\ exit # "crash" => tty # "raw"

\* When attach returns from Connect no connection is open and none is being set
\* up, even if a signal came during the setup.
NothingLeftOpen ==
  pc \in {"restore", "out"} /\ exit \notin {"panic", "crash"} => conn # "open" /\ setup # "working"

\* An exit code that names the gateway's reason comes after all its output.
LastWordsShown ==
  pc \in {"close", "restore", "out"} /\ exit \in {"ok", "3", "5", "11"} => shown = said

\* A change of the window after WatchResize is not forgotten: when all is quiet
\* the gateway has the size of the window, if it is one that it accepts.
SizeFollows ==
  pc = "run" /\ gateway.open /\ window.seen /\ window.size \in Good /\ ~window.winch
    /\ window.held = "none" /\ window.box = "none" => gateway.size = window.size

\* A signal ends the command with the terminal restored, as long as the network
\* takes or refuses what is written.
SignalEnds == signal.full ~> pc = "out"

=============================================================================
