------------------------------ MODULE ShimLink ------------------------------
(***************************************************************************)
(* The link between StarCraft and the Python bot: the C++ shim (Bridge,    *)
(* Transport and the two entry points) on one end of a TCP connection, the *)
(* Python client and runner on the other.                                  *)
(*                                                                         *)
(* The shim is one thread driven by the game's callbacks.  Its program     *)
(* counter is one of                                                       *)
(*   "idle"      the callback returned, the game decides what comes next   *)
(*   "accept"    blocked in accept (Transport waitForPeer)                 *)
(*   "config"    Hello sent, blocked in recv for the ClientConfig          *)
(*   "exchange"  about to build and send the Frame of a decision           *)
(*   "commands"  Frame sent, blocked in recv for the Commands              *)
(* The bot is one thread as well:                                          *)
(*   "down"      no process        "connecting"  retrying to connect       *)
(*   "wait"      recv in wait_for_game                                     *)
(*   "frame"     recv in next_frame                                        *)
(*   "think"     on_frame runs, Commands not sent yet                      *)
(*                                                                         *)
(* A connection is a pair of FIFO channels.  A send to an end the other    *)
(* side has closed fails or vanishes, a recv fails once the other end is   *)
(* closed, whether or not it left bytes behind (a reset drops them).       *)
(***************************************************************************)
EXTENDS Naturals, Sequences, SequencesExt

CONSTANTS
    Modes,      \* the entry points: "client" (an .exe) and "module" (a DLL)
    Conns,      \* connection slots of the operating system
    NoConn,     \* no connection
    Games,      \* matches are numbered 1..Games, round and round (a bound)
    MaxFrame,   \* the last frame of a match (a bound)
    MaxEvents,  \* game events per match (a bound)
    Skips,      \* the frame_skip values a bot may ask for
    BotGames,   \* run()'s `games`: matches a bot process plays before it exits
    MaxFaults   \* crashes, failed accepts and thrown stubs per behaviour (a bound)

ASSUME ModesAssumption == Modes \subseteq {"client", "module"}
ASSUME NoConnAssumption == NoConn \notin Conns
ASSUME BoundsAssumption ==
    /\ Games \in Nat \ {0} /\ MaxFrame \in Nat /\ MaxEvents \in Nat
    /\ BotGames \in Nat \ {0} /\ MaxFaults \in Nat /\ Skips \subseteq Nat

VARIABLES
    mode,       \* which entry point hosts the shim
    match,      \* is a match running in StarCraft (external)
    game,       \* its number
    frame,      \* Broodwar->getFrameCount()
    paused,     \* the game paused itself: this callback's frame count is frozen
    nEvents,    \* game events so far, numbered from 1
    shim,       \* the shim's program counter
    after,      \* the callback that ensureConnected returns to
    frameSkip,  \* Bridge::frameSkip_
    pending,    \* Bridge::pendingEvents_
    answers,    \* Serializer::placementResults_: the decision whose queries they answer
    applied,    \* the decision whose Commands were applied last
    listening,  \* TcpServer::listen_
    peer,       \* TcpServer::peer_
    backlog,    \* the listen queue of the operating system
    conn,       \* the connections
    bot,        \* the bot's program counter
    bconn,      \* ShimClient::sock
    bgame,      \* the match the bot was started in
    btok,       \* the Frame the bot is thinking about
    blast,      \* the decision of the bot's last Commands in this match
    seen,       \* the events the bot got in this match
    played,     \* run()'s `played`
    faults,     \* faults so far (bounds the model)
    thrown,     \* has a BWAPI stub thrown in the module
    adrift      \* the connections over which a decision was left unanswered

gameVars == <<match, game, frame, paused, nEvents>>
shimVars == <<shim, after, frameSkip, pending, answers, applied, listening, peer>>
botVars  == <<bot, bconn, bgame, btok, blast, seen, played>>
vars == <<mode, gameVars, shimVars, backlog, conn, botVars, faults, thrown, adrift>>

Decisions == (1..Games) \X (0..MaxFrame)    \* a match and a frame of it
NoTok == <<0, 0>>                           \* no decision
Toks  == {NoTok} \cup Decisions
EventSeqs == UNION {[1..n -> 1..MaxEvents] : n \in 0..MaxEvents}

Hello    == [type |-> "Hello"]
GameEnd  == [type |-> "GameEnd"]
GameStart(g) == [type |-> "GameStart", game |-> g]
Frame(t, evs, ans) == [type |-> "Frame", tok |-> t, events |-> evs, answers |-> ans]
Config(k)   == [type |-> "ClientConfig", skip |-> k]
Commands(t) == [type |-> "Commands", tok |-> t]

ToBotMsgs  == {Hello, GameEnd} \cup {GameStart(g) : g \in 1..Games}
              \cup {Frame(t, e, a) : t \in Decisions, e \in EventSeqs, a \in Toks}
ToShimMsgs == {Config(k) : k \in Skips} \cup {Commands(t) : t \in Decisions}

FreeConn == [toBot |-> <<>>, toShim |-> <<>>, bot |-> FALSE, shim |-> FALSE]
Norm(e) == IF e.bot \/ e.shim THEN e ELSE FreeConn

-----------------------------------------------------------------------------
(* Transport: what a send, a receive and a close do to the connections.    *)

\* TcpServer::send that reports success: queued, or lost in a dead socket.
ToBot(cn, c, m) ==
    IF cn[c].bot THEN [cn EXCEPT ![c].toBot = Append(@, m)] ELSE cn
\* The same from the client's side.
ToShimTwice(cn, c, m) ==                                               \* mutant
    IF cn[c].shim THEN [cn EXCEPT ![c].toShim = @ \o <<m, m>>] ELSE cn
ToShim(cn, c, m) ==
    IF cn[c].shim THEN [cn EXCEPT ![c].toShim = Append(@, m)] ELSE cn
\* TcpServer::closePeer, and the client's close().
ShimLeaks(cn, c) == cn                                                 \* mutant
BotLeaks(cn, c) == cn                                                  \* mutant
ShimCloses(cn, c) == [cn EXCEPT ![c] = Norm([@ EXCEPT !.shim = FALSE, !.toShim = <<>>])]
BotCloses(cn, c)  == [cn EXCEPT ![c] = Norm([@ EXCEPT !.bot = FALSE, !.toBot = <<>>])]

Connected == peer # NoConn

Init ==
    /\ mode \in Modes
    /\ match = "none" /\ game = Games /\ frame = 0 /\ paused = FALSE /\ nEvents = 0
    /\ shim = "idle" /\ after = "start" /\ frameSkip = 1
    /\ pending = <<>> /\ answers = NoTok /\ applied = NoTok
    /\ listening = FALSE /\ peer = NoConn /\ backlog = <<>>
    /\ conn = [c \in Conns |-> FreeConn]
    /\ bot = "down" /\ bconn = NoConn /\ bgame = 0
    /\ btok = NoTok /\ blast = NoTok /\ seen = <<>> /\ played = 0
    /\ faults = 0 /\ thrown = FALSE /\ adrift = {}

Fault == faults < MaxFaults /\ faults' = faults + 1
NoFault == UNCHANGED <<faults, thrown, adrift>>

\* A BWAPI stub throws: the module's guard() swallows it, the callback is cut short.
Throws == mode = "module" /\ Fault /\ thrown' = TRUE
StubThrows == Throws /\ UNCHANGED adrift
\* It throws in the middle of a decision: nobody reads the Commands to come,
\* and the next decision over this connection will take them for its own.
DecisionThrows == Throws /\ adrift' = adrift \cup {peer}

-----------------------------------------------------------------------------
(* The shim                                                                *)

\* The callback returns and the game moves on, its frame count too unless it
\* was paused (onFrame has asked the game to resume).
FrameDone ==
    /\ shim' = "idle" /\ paused' = FALSE
    /\ frame' = IF paused THEN frame ELSE frame + 1
SameFrame == UNCHANGED <<frame, paused>>

\* Bridge::applyConfig.
Clamp(k) == IF k < 1 THEN 1 ELSE k

\* Bridge::onStart's resets.
ResetKeepsAnswers == pending' = <<>> /\ UNCHANGED answers    \* mutant
ResetForMatch == pending' = <<>> /\ answers' = NoTok

\* Serializer::buildFrame and pendingEvents_.clear(): consumed whether or not
\* the Frame can be sent.
BuiltKeepsEvents == answers' = NoTok /\ UNCHANGED pending    \* mutant
FrameBuilt == pending' = <<>> /\ answers' = NoTok

\* A failed transfer closes the peer.
DropPeer(cn) == conn' = ShimCloses(cn, peer) /\ peer' = NoConn

\* Bridge::handshake up to its recv, on connection c.  A failed Hello closes
\* the peer and leaves ensureConnected waiting for another bot.
SendHello(cn, c) ==
    \/ /\ conn' = ToBot(cn, c, Hello)
       /\ shim' = "config" /\ peer' = c
    \/ /\ ~cn[c].bot
       /\ conn' = ShimCloses(cn, c)
       /\ shim' = "accept" /\ peer' = NoConn

\* Bridge::onStart.  The previous match may have died without MatchEnd.
MatchStart ==
    /\ shim = "idle" /\ match = "none"
    /\ match' = "running" /\ game' = (game % Games) + 1
    /\ frame' = 0 /\ paused' = FALSE /\ nEvents' = 0
    /\ ResetForMatch /\ after' = "start"
    /\ \/ /\ Connected
          /\ SendHello(conn, peer)
          /\ UNCHANGED listening /\ NoFault
       \/ /\ ~Connected
          /\ shim' = "accept" /\ listening' = TRUE
          /\ UNCHANGED <<peer, conn>> /\ NoFault
       \/ /\ StubThrows
          /\ UNCHANGED <<shim, peer, conn, listening>>
    /\ UNCHANGED <<mode, frameSkip, applied, backlog, botVars>>

\* TcpServer::waitForPeer inside ensureConnected: a bot is accepted.
Accept ==
    /\ shim = "accept" /\ backlog # <<>>
    /\ backlog' = Tail(backlog)
    /\ SendHello(conn, Head(backlog))
    /\ UNCHANGED <<mode, gameVars, after, frameSkip, pending, answers, applied,
                   listening, botVars>> /\ NoFault

\* The callback that ensureConnected runs in returns.
CallbackReturns ==
    IF after = "frame" THEN FrameDone ELSE shim' = "idle" /\ SameFrame

\* accept fails: ensureConnected gives up, the game goes on without a bot.
AcceptFails ==
    /\ shim = "accept" /\ Fault
    /\ CallbackReturns
    /\ UNCHANGED <<mode, match, game, nEvents, after, frameSkip, pending, answers, applied,
                   listening, peer, backlog, conn, botVars, thrown, adrift>>

\* Bridge::handshake from its recv on: apply the ClientConfig, send GameStart.
RecvConfig ==
    /\ shim = "config" /\ conn[peer].toShim # <<>>
    /\ LET m  == Head(conn[peer].toShim)
           cn == [conn EXCEPT ![peer].toShim = Tail(@)]
       IN  /\ frameSkip' = IF m.type = "ClientConfig" THEN Clamp(m.skip) ELSE frameSkip
           /\ \/ /\ conn' = ToBot(cn, peer, GameStart(game))
                 /\ shim' = IF after = "frame" THEN "exchange" ELSE "idle"
                 /\ UNCHANGED peer /\ SameFrame /\ NoFault
              \/ /\ ~cn[peer].bot
                 /\ DropPeer(cn) /\ shim' = "accept"
                 /\ SameFrame /\ NoFault
              \/ /\ StubThrows
                 /\ conn' = cn /\ UNCHANGED peer
                 /\ CallbackReturns
    /\ UNCHANGED <<mode, match, game, nEvents, after, pending, answers, applied,
                   listening, backlog, botVars>>

\* recvAll fails in the handshake: ensureConnected waits for another bot.
LoseHandshake ==
    /\ shim = "config" /\ ~conn[peer].bot
    /\ DropPeer(conn) /\ shim' = "accept"
    /\ UNCHANGED <<mode, gameVars, after, frameSkip, pending, answers, applied,
                   listening, backlog, botVars>> /\ NoFault

\* Bridge::onEvent: a game event is queued for the next Frame.
GameEvent ==
    /\ shim = "idle" /\ match = "running" /\ nEvents < MaxEvents
    /\ nEvents' = nEvents + 1 /\ pending' = Append(pending, nEvents + 1)
    /\ UNCHANGED <<mode, match, game, shim, after, frameSkip, answers, applied,
                   listening, peer, backlog, conn, botVars>> /\ SameFrame /\ NoFault

\* A single-player game pauses itself when its window loses focus (external).
GamePauses ==
    /\ shim = "idle" /\ match = "running" /\ ~paused /\ Fault
    /\ paused' = TRUE
    /\ UNCHANGED <<mode, match, game, frame, nEvents, shimVars, backlog, conn, botVars, thrown, adrift>>

\* Bridge::onFrame up to exchangeFrame: between decisions it only redraws.
OnFrame ==
    /\ shim = "idle" /\ match = "running" /\ frame <= MaxFrame
    /\ IF frame % frameSkip # 0
       THEN FrameDone /\ UNCHANGED <<after, listening>>
       ELSE /\ shim' = IF Connected THEN "exchange" ELSE "accept"
            /\ after' = "frame" /\ listening' = (listening \/ ~Connected)
            /\ SameFrame
    /\ UNCHANGED <<mode, match, game, nEvents, frameSkip, pending, answers, applied, peer,
                   backlog, conn, botVars>> /\ NoFault

\* Bridge::exchangeFrame up to its recv.
ExchangeFrame ==
    /\ shim = "exchange"
    /\ \/ /\ conn' = ToBot(conn, peer, Frame(<<game, frame>>, pending, answers))
          /\ FrameBuilt /\ shim' = "commands"
          /\ UNCHANGED peer /\ SameFrame /\ NoFault
       \/ /\ ~conn[peer].bot
          /\ FrameBuilt /\ DropPeer(conn) /\ FrameDone /\ NoFault
       \/ /\ StubThrows                                         \* in buildFrame
          /\ FrameDone /\ UNCHANGED <<conn, peer, pending, answers>>
    /\ UNCHANGED <<mode, match, game, nEvents, after, frameSkip, applied, listening,
                   backlog, botVars>>

\* exchangeFrame's loop: Commands are applied and end the decision, a
\* ClientConfig changes the cadence (the client sends nothing else).  A stub
\* that throws after the Commands were applied loses their answers; one that
\* throws for a ClientConfig ends the callback with the decision still open.
RecvCommands ==
    /\ shim = "commands" /\ conn[peer].toShim # <<>>
    /\ LET m == Head(conn[peer].toShim)
       IN  IF m.type = "Commands"
           THEN /\ applied' = m.tok /\ FrameDone /\ UNCHANGED frameSkip
                /\ \/ answers' = m.tok /\ NoFault
                   \/ UNCHANGED answers /\ StubThrows           \* in answerPlacement
           ELSE /\ frameSkip' = Clamp(m.skip)
                /\ UNCHANGED <<applied, answers>>
                /\ \/ UNCHANGED shim /\ SameFrame /\ NoFault
                   \/ FrameDone /\ DecisionThrows                \* in applyConfig
    /\ conn' = [conn EXCEPT ![peer].toShim = Tail(@)]
    /\ UNCHANGED <<mode, match, game, nEvents, after, pending, listening, peer, backlog,
                   botVars>>

\* recvAll fails in exchangeFrame: the bot went away, the decision is over.
LoseBot ==
    /\ shim = "commands" /\ ~conn[peer].bot
    /\ DropPeer(conn) /\ FrameDone
    /\ UNCHANGED <<mode, match, game, nEvents, after, frameSkip, pending, answers, applied,
                   listening, backlog, botVars>> /\ NoFault

\* Bridge::onEnd.  A failed GameEnd only closes the peer.
MatchEnd ==
    /\ shim = "idle" /\ match = "running"
    /\ match' = "none" /\ pending' = <<>>
    /\ \/ Connected /\ conn' = ToBot(conn, peer, GameEnd) /\ UNCHANGED peer
       \/ Connected /\ ~conn[peer].bot /\ DropPeer(conn)
       \/ ~Connected /\ UNCHANGED <<conn, peer>>
    /\ UNCHANGED <<mode, game, frame, paused, nEvents, shim, after, frameSkip, answers,
                   applied, listening, backlog, botVars>> /\ NoFault

\* StarCraft dies.  In client mode the shim is another process: it reconnects
\* to BWAPI and keeps its socket.  In module mode it dies with the game, and
\* the operating system closes its sockets.
GameDies ==
    /\ match = "running" /\ Fault
    /\ match' = "none"
    /\ \/ mode = "client" /\ shim = "idle" /\ UNCHANGED <<shimVars, backlog, conn>>
       \/ /\ mode = "module"
          /\ shim' = "idle" /\ after' = "start" /\ frameSkip' = 1
          /\ pending' = <<>> /\ answers' = NoTok /\ applied' = NoTok
          /\ listening' = FALSE /\ peer' = NoConn /\ backlog' = <<>>
          /\ conn' = [c \in Conns |-> ShimCloses(conn, c)[c]]
    /\ UNCHANGED <<mode, game, frame, paused, nEvents, botVars, thrown, adrift>>

-----------------------------------------------------------------------------
(* The bot                                                                 *)

hostVars == <<mode, gameVars, shimVars, faults, thrown>>

\* run(): a new process (the module's spawnBotIfNeeded, a script, a person).
BotStarts ==
    /\ bot = "down" /\ bot' = "connecting" /\ played' = 0
    /\ UNCHANGED <<hostVars, adrift, backlog, conn, bconn, bgame, btok, blast, seen>>

\* ShimClient.connect: it retries until the listen queue takes it.
BotConnects ==
    /\ bot = "connecting" /\ listening /\ backlog = <<>>
    /\ \E c \in Conns :
          /\ conn[c] = FreeConn
          /\ conn' = [conn EXCEPT ![c].bot = TRUE, ![c].shim = TRUE]
          /\ backlog' = Append(backlog, c) /\ bconn' = c
          /\ adrift' = adrift \ {c}
    /\ bot' = "wait" /\ btok' = NoTok
    /\ UNCHANGED <<hostVars, bgame, blast, seen, played>>

\* The socket is closed and run() goes around its outer loop.
Reconnect(cn) ==
    /\ conn' = BotCloses(cn, bconn) /\ bconn' = NoConn /\ bot' = "connecting"

\* Sending m: it is queued (or lost) and the bot continues at `next`, or the
\* send raises and run() reconnects.
BotSends(cn, m, next) ==
    \/ conn' = ToShim(cn, bconn, m) /\ bot' = next /\ UNCHANGED bconn
    \/ ~cn[bconn].shim /\ Reconnect(cn)

BotHead == Head(conn[bconn].toBot)
BotTook == [conn EXCEPT ![bconn].toBot = Tail(@)]

\* _play_one on GameStart: on_start and a fresh Actions.
BotStartsMatch(g) == bgame' = g /\ blast' = NoTok /\ seen' = <<>>

\* wait_for_game: answer a Hello, start on GameStart, ignore the rest.
BotWaits ==
    /\ bot = "wait" /\ conn[bconn].toBot # <<>>
    /\ \/ /\ BotHead.type = "Hello"
          /\ \E k \in Skips : BotSends(BotTook, Config(k), "wait")
          /\ UNCHANGED <<bgame, blast, seen>>
       \/ /\ BotHead.type = "GameStart"
          /\ BotStartsMatch(BotHead.game)
          /\ conn' = BotTook /\ bot' = "frame" /\ UNCHANGED bconn
       \/ /\ BotHead.type \in {"GameEnd", "Frame"}
          /\ conn' = BotTook /\ UNCHANGED <<bot, bconn, bgame, blast, seen>>
    /\ UNCHANGED <<hostVars, adrift, backlog, btok, played>>

\* wait_for_game is entered again: a Hello that ended the match is answered
\* at once (`_pending_hello`).
NextMatchForgetsHello(pendingHello) ==                                 \* mutant
    conn' = BotTook /\ bot' = "wait" /\ UNCHANGED bconn
NextMatch(pendingHello) ==
    IF pendingHello
    THEN \E k \in Skips : BotSends(BotTook, Config(k), "wait")
    ELSE conn' = BotTook /\ bot' = "wait" /\ UNCHANGED bconn

\* The match is over for the bot: on_end, count it, wait for the next one or
\* leave run(), which closes the socket.
BotEndsMatch(pendingHello) ==
    /\ played' = played + 1
    /\ IF played + 1 >= BotGames
       THEN conn' = BotCloses(BotTook, bconn) /\ bconn' = NoConn /\ bot' = "down"
       ELSE NextMatch(pendingHello)
    /\ UNCHANGED <<btok, seen>>

\* next_frame, and the return of None it makes of GameEnd and Hello.
BotReads ==
    /\ bot = "frame" /\ conn[bconn].toBot # <<>>
    /\ \/ /\ BotHead.type = "Frame"
          /\ btok' = BotHead.tok /\ seen' = seen \o BotHead.events
          /\ conn' = BotTook /\ bot' = "think" /\ UNCHANGED <<bconn, played>>
       \/ BotHead.type = "GameEnd" /\ BotEndsMatch(FALSE)
       \/ BotHead.type = "Hello" /\ BotEndsMatch(TRUE)
    /\ UNCHANGED <<hostVars, adrift, backlog, bgame, blast>>

\* A bot may call ShimClient.send_config while it thinks (here one at a time,
\* and not once it lags behind the shim: a bound).
BotSendsConfig ==
    /\ bot = "think" /\ conn[bconn].toShim = <<>> /\ conn[bconn].toBot = <<>>
    /\ \E k \in Skips : BotSends(conn, Config(k), "think")
    /\ UNCHANGED <<hostVars, adrift, backlog, bgame, btok, blast, seen, played>>

\* _play_one: on_frame returned (or raised), its Commands go out.
BotAnswers ==
    /\ bot = "think"
    /\ BotSends(conn, Commands(btok), "frame")
    /\ blast' = btok
    /\ UNCHANGED <<hostVars, adrift, backlog, bgame, btok, seen, played>>

\* recv raises Disconnected: on_end is not called, the match is not counted.
BotDisconnected ==
    /\ bot \in {"wait", "frame"} /\ ~conn[bconn].shim
    /\ Reconnect(conn)
    /\ UNCHANGED <<hostVars, adrift, backlog, bgame, btok, blast, seen, played>>

\* The process dies (killed, or on_start raised).
BotCrashes ==
    /\ bot # "down" /\ Fault
    /\ conn' = IF bconn = NoConn THEN conn ELSE BotCloses(conn, bconn)
    /\ bconn' = NoConn /\ bot' = "down"
    /\ UNCHANGED <<mode, gameVars, shimVars, backlog, bgame, btok, blast, seen, played, thrown,
                   adrift>>

-----------------------------------------------------------------------------
Next ==
    \/ MatchStart \/ Accept \/ AcceptFails \/ RecvConfig \/ LoseHandshake
    \/ GameEvent \/ GamePauses \/ OnFrame \/ ExchangeFrame \/ RecvCommands \/ LoseBot
    \/ MatchEnd \/ GameDies
    \/ BotStarts \/ BotConnects \/ BotWaits \/ BotReads \/ BotSendsConfig
    \/ BotAnswers \/ BotDisconnected \/ BotCrashes

Spec == Init /\ [][Next]_vars

\* StarCraft keeps calling back, a blocked call returns once it can, the bot's
\* thread runs.  No fairness for faults, events or send_config.
GameFairness == WF_vars(MatchStart) /\ WF_vars(OnFrame) /\ WF_vars(MatchEnd)
ShimFairness ==
    /\ WF_vars(Accept) /\ WF_vars(RecvConfig) /\ WF_vars(LoseHandshake)
    /\ WF_vars(ExchangeFrame) /\ WF_vars(RecvCommands) /\ WF_vars(LoseBot)
BotFairness ==
    /\ WF_vars(BotConnects) /\ WF_vars(BotWaits) /\ WF_vars(BotReads)
    /\ WF_vars(BotAnswers) /\ WF_vars(BotDisconnected)

\* Nobody has to start another bot.
FairSpec == Spec /\ GameFairness /\ ShimFairness /\ BotFairness
\* Somebody does: the harness, the module or a user.
ServedSpec == FairSpec /\ WF_vars(BotStarts)

-----------------------------------------------------------------------------
(* Properties                                                              *)

\* Every variable has its type: the shim never runs with a frame skip below
\* one (applyConfig's clamp), and what travels is what either side can send.
TypeOK ==
    /\ mode \in Modes /\ match \in {"none", "running"}
    /\ game \in 1..Games /\ frame \in 0..(MaxFrame + 1) /\ paused \in BOOLEAN /\ nEvents \in 0..MaxEvents
    /\ shim \in {"idle", "accept", "config", "exchange", "commands"}
    /\ after \in {"start", "frame"} /\ frameSkip \in Nat \ {0}
    /\ pending \in EventSeqs /\ answers \in Toks /\ applied \in Toks
    /\ listening \in BOOLEAN /\ peer \in Conns \cup {NoConn} /\ backlog \in Seq(Conns)
    /\ conn \in [Conns -> [toBot : Seq(ToBotMsgs), toShim : Seq(ToShimMsgs),
                           bot : BOOLEAN, shim : BOOLEAN]]
    /\ bot \in {"down", "connecting", "wait", "frame", "think"}
    /\ bconn \in Conns \cup {NoConn} /\ bgame \in 0..Games
    /\ btok \in Toks /\ blast \in Toks /\ seen \in Seq(1..MaxEvents)
    /\ played \in 0..BotGames /\ faults \in 0..MaxFaults /\ thrown \in BOOLEAN
    /\ adrift \subseteq Conns

\* The bot plays the match that runs, over the shim's connection, and no Hello
\* or GameEnd is on its way to end it.
InSession ==
    /\ bot \in {"frame", "think"} /\ bconn = peer /\ match = "running" /\ bgame = game
    /\ \A i \in DOMAIN conn[peer].toBot : conn[peer].toBot[i].type = "Frame"

\* What the Frames of a queue tell the bot.
EventsOf(q) == FlattenSeq([i \in DOMAIN q |-> q[i].events])

\* The events a connected bot has read, those in flight to it and those the
\* shim still holds are one unbroken run that ends with the latest event: an
\* event is never lost, doubled or overtaken within a session, whatever was
\* lost on earlier connections (Bridge pendingEvents_, buildFrame).
EventsContiguous ==
    InSession =>
        LET all == seen \o EventsOf(conn[peer].toBot) \o pending
        IN  \A i \in 1..Len(all) : all[i] = nEvents - Len(all) + i

\* A bot that has asked gets answers to its own last queries or none.  One that
\* has not asked yet may find answers in the first Frame it reads, those to the
\* queries of the bot before it in the same match (only onStart resets
\* Serializer::placementResults_), and in no other.  All this unless a decision
\* was left unanswered over the connection.
AnswersAreMine ==
    InSession /\ peer \notin adrift =>
        \A i \in DOMAIN conn[peer].toBot :
            LET a == conn[peer].toBot[i].answers
            IN  a # NoTok =>
                  \/ a = blast
                  \/ blast = NoTok /\ a[1] = bgame /\ bot = "frame" /\ i = 1

\* The two threads never wait for each other over an open, empty connection,
\* unless a stub has thrown in the module (see the README).
NoMutualWait ==
    (/\ shim \in {"config", "commands"} /\ bot \in {"wait", "frame"} /\ bconn = peer
     /\ conn[peer].toBot = <<>> /\ conn[peer].toShim = <<>>) => thrown

\* A bot in a match reads only Frames of that match, none of them earlier than
\* the one it answered last (a paused game repeats its frame count), unless a
\* decision was left unanswered over its connection.
FramesInOrder ==
    [][bot = "frame" /\ bot' = "think" /\ bconn \notin adrift =>
          /\ btok'[1] = bgame
          /\ blast = NoTok \/ blast[2] <= btok'[2]]_vars

\* The game's side of the link is the Lockstep specification: Commands are only
\* ever applied to the very decision that was asked, unless one was left
\* unanswered over the same connection.
Game == INSTANCE Lockstep WITH asked <- (shim = "commands"), adrift <- (peer \in adrift)
LockstepSpec == Game!Spec

\* A match that runs comes to its end as long as somebody starts a bot, through
\* crashes, half-open sockets and failed accepts; only a thrown stub may hang it.
MatchesEnd == (match = "running") ~> (match = "none" \/ thrown)

\* A bot that looks for a game gets into one.
BotIsServed == (bot = "connecting") ~> (bot = "frame" \/ thrown)

\* What Bridge.cpp:174-175 says of the module mode: after the bot is lost the
\* game "runs on with idle units".
RunsOnWithIdleUnits ==
    (mode = "module" /\ match = "running" /\ frame > 0 /\ ~Connected)
        ~> (match = "none" \/ Connected)
=============================================================================
