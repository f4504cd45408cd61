--------------------------- MODULE ShimLinkProofs ---------------------------
(***************************************************************************)
(* The link between StarCraft and the bot, for any number of connections,  *)
(* matches, frames, events, faults and frame skips.                        *)
(***************************************************************************)
EXTENDS ShimLink, SequenceTheorems, TLAPS

-----------------------------------------------------------------------------
(* Events and decisions                                                    *)

\* A list of events, and how long one can get.
LEMMA EventSeqsAre ==
    ASSUME NEW s
    PROVE  s \in EventSeqs <=> s \in Seq(1..MaxEvents) /\ Len(s) \in 0..MaxEvents
<1>1. ASSUME s \in EventSeqs  PROVE s \in Seq(1..MaxEvents) /\ Len(s) \in 0..MaxEvents
  <2>1. PICK n \in 0..MaxEvents : s \in [1..n -> 1..MaxEvents]
    BY <1>1 DEF EventSeqs
  <2>2. n \in Nat
    BY <2>1
  <2>3. s \in Seq(1..MaxEvents)
    BY <2>1, <2>2, SeqDef
  <2>4. Len(s) = n
    BY <2>1, <2>2, <2>3, LenProperties
  <2>. QED  BY <2>1, <2>3, <2>4
<1>2. ASSUME s \in Seq(1..MaxEvents), Len(s) \in 0..MaxEvents  PROVE s \in EventSeqs
  <2>1. s \in [1..Len(s) -> 1..MaxEvents]
    BY <1>2, LenProperties
  <2>. DEFINE n == Len(s)
  <2>2. n \in 0..MaxEvents /\ s \in [1..n -> 1..MaxEvents]
    BY <1>2, <2>1
  <2>. HIDE DEF n
  <2>. QED  BY <2>2 DEF EventSeqs
<1>. QED  BY <1>1, <1>2

LEMMA EventAdded ==
    ASSUME NEW s \in EventSeqs, NEW n \in 1..MaxEvents, Len(s) < MaxEvents
    PROVE  Append(s, n) \in EventSeqs
<1>1. s \in Seq(1..MaxEvents) /\ Len(s) \in Nat
  BY EventSeqsAre
<1>2. Append(s, n) \in Seq(1..MaxEvents) /\ Len(Append(s, n)) = Len(s) + 1
  BY <1>1, AppendProperties
<1>3. Len(Append(s, n)) \in 0..MaxEvents
  BY <1>1, <1>2, BoundsAssumption
<1>. QED  BY <1>2, <1>3, EventSeqsAre

LEMMA NoEvents == <<>> \in EventSeqs /\ Len(<<>>) = 0
<1>1. <<>> \in Seq(1..MaxEvents) /\ Len(<<>>) = 0
  BY EmptySeq
<1>2. Len(<<>>) \in 0..MaxEvents
  BY <1>1, BoundsAssumption
<1>. QED  BY <1>1, <1>2, EventSeqsAre

LEMMA TokensAre ==
    /\ NoTok \in Toks /\ NoTok \notin Decisions
    /\ \A g \in 1..Games, f \in 0..MaxFrame : <<g, f>> \in Decisions
    /\ \A t \in Decisions : t \in Toks /\ t # NoTok
    /\ \A t \in Toks : t # NoTok =>
         t \in Decisions /\ t[1] \in 1..Games /\ t[2] \in 0..MaxFrame
BY DEF Toks, NoTok, Decisions

\* The next match, and the next frame skip.
LEMMA NextGame == \A g \in 1..Games : (g % Games) + 1 \in 1..Games
BY BoundsAssumption

LEMMA ClampType == \A k \in Skips : Clamp(k) \in Nat \ {0}
BY BoundsAssumption DEF Clamp

-----------------------------------------------------------------------------
(* Messages                                                                *)

\* What each kind of message carries.
LEMMA ToBotKinds ==
    ASSUME NEW m \in ToBotMsgs
    PROVE  /\ m.type \in {"Hello", "GameEnd", "GameStart", "Frame"}
           /\ m.type = "GameStart" => m.game \in 1..Games
           /\ m.type = "Frame" => m.tok \in Decisions /\ m.events \in EventSeqs /\ m.answers \in Toks
BY DEF ToBotMsgs, Hello, GameEnd, GameStart, Frame

LEMMA ToShimKinds ==
    ASSUME NEW m \in ToShimMsgs
    PROVE  /\ m.type \in {"ClientConfig", "Commands"}
           /\ m.type = "ClientConfig" => m.skip \in Skips
           /\ m.type = "Commands" => m.tok \in Decisions
BY DEF ToShimMsgs, Config, Commands

LEMMA MessagesThere ==
    /\ Hello \in ToBotMsgs /\ GameEnd \in ToBotMsgs
    /\ \A g \in 1..Games : GameStart(g) \in ToBotMsgs
    /\ \A t \in Decisions, e \in EventSeqs, a \in Toks : Frame(t, e, a) \in ToBotMsgs
    /\ \A k \in Skips : Config(k) \in ToShimMsgs
    /\ \A t \in Decisions : Commands(t) \in ToShimMsgs
BY DEF ToBotMsgs, ToShimMsgs

LEMMA MessageTypes ==
    /\ Hello.type = "Hello" /\ GameEnd.type = "GameEnd"
    /\ \A g : GameStart(g).type = "GameStart" /\ GameStart(g).game = g
    /\ \A t, e, a : /\ Frame(t, e, a).type = "Frame" /\ Frame(t, e, a).tok = t
                    /\ Frame(t, e, a).events = e /\ Frame(t, e, a).answers = a
    /\ \A k : Config(k).type = "ClientConfig" /\ Config(k).skip = k
    /\ \A t : Commands(t).type = "Commands" /\ Commands(t).tok = t
BY DEF Hello, GameEnd, GameStart, Frame, Config, Commands

-----------------------------------------------------------------------------
(* Connections                                                             *)

Wire == [toBot : Seq(ToBotMsgs), toShim : Seq(ToShimMsgs), bot : BOOLEAN, shim : BOOLEAN]

\* What a send and a close leave of every connection.
LEMMA ToBotDoes ==
    ASSUME NEW cn \in [Conns -> Wire], NEW c \in Conns, NEW m \in ToBotMsgs
    PROVE  LET cn2 == ToBot(cn, c, m)
           IN  /\ cn2 \in [Conns -> Wire]
               /\ \A d \in Conns : d # c => cn2[d] = cn[d]
               /\ cn2[c].bot = cn[c].bot /\ cn2[c].shim = cn[c].shim
               /\ cn2[c].toShim = cn[c].toShim
               /\ cn2[c].toBot = IF cn[c].bot THEN Append(cn[c].toBot, m) ELSE cn[c].toBot
<1>1. cn[c] \in Wire
  OBVIOUS
<1>2. cn[c].toBot \in Seq(ToBotMsgs)
  BY <1>1 DEF Wire
<1>3. Append(cn[c].toBot, m) \in Seq(ToBotMsgs)
  BY <1>2, AppendProperties
<1>4. [cn[c] EXCEPT !.toBot = Append(cn[c].toBot, m)] \in Wire
  BY <1>1, <1>3 DEF Wire
<1>. QED  BY <1>1, <1>4 DEF ToBot, Wire

LEMMA ToShimDoes ==
    ASSUME NEW cn \in [Conns -> Wire], NEW c \in Conns, NEW m \in ToShimMsgs
    PROVE  LET cn2 == ToShim(cn, c, m)
           IN  /\ cn2 \in [Conns -> Wire]
               /\ \A d \in Conns : d # c => cn2[d] = cn[d]
               /\ cn2[c].bot = cn[c].bot /\ cn2[c].shim = cn[c].shim
               /\ cn2[c].toBot = cn[c].toBot
               /\ cn2[c].toShim = IF cn[c].shim THEN Append(cn[c].toShim, m) ELSE cn[c].toShim
<1>1. cn[c] \in Wire
  OBVIOUS
<1>2. cn[c].toShim \in Seq(ToShimMsgs)
  BY <1>1 DEF Wire
<1>3. Append(cn[c].toShim, m) \in Seq(ToShimMsgs)
  BY <1>2, AppendProperties
<1>4. [cn[c] EXCEPT !.toShim = Append(cn[c].toShim, m)] \in Wire
  BY <1>1, <1>3 DEF Wire
<1>. QED  BY <1>1, <1>4 DEF ToShim, Wire

LEMMA ShimClosesDoes ==
    ASSUME NEW cn \in [Conns -> Wire], NEW c \in Conns
    PROVE  LET cn2 == ShimCloses(cn, c)
           IN  /\ cn2 \in [Conns -> Wire]
               /\ \A d \in Conns : d # c => cn2[d] = cn[d]
               /\ cn2[c].bot = cn[c].bot /\ cn2[c].shim = FALSE
               /\ cn2[c].toShim = <<>>
               /\ cn2[c].toBot = IF cn[c].bot THEN cn[c].toBot ELSE <<>>
<1>. DEFINE e == [cn[c] EXCEPT !.shim = FALSE, !.toShim = <<>>]
<1>1. cn[c] \in Wire /\ <<>> \in Seq(ToShimMsgs) /\ <<>> \in Seq(ToBotMsgs)
  OBVIOUS
<1>2. /\ e \in Wire /\ e.bot = cn[c].bot /\ e.shim = FALSE
      /\ e.toShim = <<>> /\ e.toBot = cn[c].toBot
  BY <1>1 DEF Wire
<1>3. /\ FreeConn \in Wire /\ FreeConn.bot = FALSE /\ FreeConn.shim = FALSE
      /\ FreeConn.toShim = <<>> /\ FreeConn.toBot = <<>>
  BY <1>1 DEF Wire, FreeConn
<1>. DEFINE x == Norm(e)
<1>4. ShimCloses(cn, c) = [cn EXCEPT ![c] = x]
  BY DEF ShimCloses
<1>5. x = (IF cn[c].bot THEN e ELSE FreeConn) /\ cn[c].bot \in BOOLEAN
  BY <1>1, <1>2 DEF Norm, Wire
<1>. HIDE DEF e, x
<1>6. CASE cn[c].bot
  BY <1>1, <1>2, <1>4, <1>5, <1>6
<1>7. CASE ~cn[c].bot
  BY <1>1, <1>3, <1>4, <1>5, <1>7
<1>. QED  BY <1>5, <1>6, <1>7

LEMMA BotClosesDoes ==
    ASSUME NEW cn \in [Conns -> Wire], NEW c \in Conns
    PROVE  LET cn2 == BotCloses(cn, c)
           IN  /\ cn2 \in [Conns -> Wire]
               /\ \A d \in Conns : d # c => cn2[d] = cn[d]
               /\ cn2[c].shim = cn[c].shim /\ cn2[c].bot = FALSE
               /\ cn2[c].toBot = <<>>
               /\ cn2[c].toShim = IF cn[c].shim THEN cn[c].toShim ELSE <<>>
<1>. DEFINE e == [cn[c] EXCEPT !.bot = FALSE, !.toBot = <<>>]
<1>1. cn[c] \in Wire /\ <<>> \in Seq(ToShimMsgs) /\ <<>> \in Seq(ToBotMsgs)
  OBVIOUS
<1>2. /\ e \in Wire /\ e.shim = cn[c].shim /\ e.bot = FALSE
      /\ e.toBot = <<>> /\ e.toShim = cn[c].toShim
  BY <1>1 DEF Wire
<1>3. /\ FreeConn \in Wire /\ FreeConn.bot = FALSE /\ FreeConn.shim = FALSE
      /\ FreeConn.toShim = <<>> /\ FreeConn.toBot = <<>>
  BY <1>1 DEF Wire, FreeConn
<1>. DEFINE x == Norm(e)
<1>4. BotCloses(cn, c) = [cn EXCEPT ![c] = x]
  BY DEF BotCloses
<1>5. x = (IF cn[c].shim THEN e ELSE FreeConn) /\ cn[c].shim \in BOOLEAN
  BY <1>1, <1>2 DEF Norm, Wire
<1>. HIDE DEF e, x
<1>6. CASE cn[c].shim
  BY <1>1, <1>2, <1>4, <1>5, <1>6
<1>7. CASE ~cn[c].shim
  BY <1>1, <1>3, <1>4, <1>5, <1>7
<1>. QED  BY <1>5, <1>6, <1>7

\* Taking the first message off a connection.
LEMMA TakeToShim ==
    ASSUME NEW cn \in [Conns -> Wire], NEW c \in Conns, cn[c].toShim # <<>>
    PROVE  LET cn2 == [cn EXCEPT ![c].toShim = Tail(@)]
           IN  /\ cn2 \in [Conns -> Wire]
               /\ \A d \in Conns : d # c => cn2[d] = cn[d]
               /\ cn2[c].bot = cn[c].bot /\ cn2[c].shim = cn[c].shim
               /\ cn2[c].toBot = cn[c].toBot /\ cn2[c].toShim = Tail(cn[c].toShim)
               /\ Head(cn[c].toShim) \in ToShimMsgs
<1>1. cn[c] \in Wire /\ cn[c].toShim \in Seq(ToShimMsgs)
  BY DEF Wire
<1>2. Tail(cn[c].toShim) \in Seq(ToShimMsgs) /\ Head(cn[c].toShim) \in ToShimMsgs
  BY <1>1, HeadTailProperties
<1>3. [cn[c] EXCEPT !.toShim = Tail(cn[c].toShim)] \in Wire
  BY <1>1, <1>2 DEF Wire
<1>. QED  BY <1>1, <1>2, <1>3 DEF Wire

LEMMA TakeToBot ==
    ASSUME NEW cn \in [Conns -> Wire], NEW c \in Conns, cn[c].toBot # <<>>
    PROVE  LET cn2 == [cn EXCEPT ![c].toBot = Tail(@)]
           IN  /\ cn2 \in [Conns -> Wire]
               /\ \A d \in Conns : d # c => cn2[d] = cn[d]
               /\ cn2[c].bot = cn[c].bot /\ cn2[c].shim = cn[c].shim
               /\ cn2[c].toShim = cn[c].toShim /\ cn2[c].toBot = Tail(cn[c].toBot)
               /\ Head(cn[c].toBot) \in ToBotMsgs
<1>1. cn[c] \in Wire /\ cn[c].toBot \in Seq(ToBotMsgs)
  BY DEF Wire
<1>2. Tail(cn[c].toBot) \in Seq(ToBotMsgs) /\ Head(cn[c].toBot) \in ToBotMsgs
  BY <1>1, HeadTailProperties
<1>3. [cn[c] EXCEPT !.toBot = Tail(cn[c].toBot)] \in Wire
  BY <1>1, <1>2 DEF Wire
<1>. QED  BY <1>1, <1>2, <1>3 DEF Wire

-----------------------------------------------------------------------------
(* The invariant                                                           *)

\* What is on its way over the shim's connection.
Q == conn[peer].toBot
R == conn[peer].toShim

\* Which ends of the connections are open, and where the two sides stand with
\* theirs: nothing has been said on a connection that is not accepted yet, and
\* nothing is left on one whose receiver has closed it.
Ends ==
    /\ \A c \in Conns :
         /\ conn[c].bot <=> bconn = c
         /\ conn[c].shim <=> (peer = c \/ backlog = <<c>>)
         /\ bconn # c => conn[c].toBot = <<>>
         /\ ~conn[c].shim => conn[c].toShim = <<>>
         /\ backlog = <<c>> =>
              /\ peer # c /\ conn[c].toBot = <<>> /\ conn[c].toShim = <<>>
              /\ bconn = c => bot = "wait"
    /\ backlog = <<>> \/ \E c \in Conns : backlog = <<c>>
    /\ bot \in {"wait", "frame", "think"} <=> bconn # NoConn
    /\ bot # "down" => played < BotGames
    /\ shim \in {"config", "exchange", "commands"} => peer # NoConn
    /\ shim = "accept" => peer = NoConn

\* The shim only blocks while a match runs, and for a decision only in a frame
\* of the match.
Calls ==
    /\ shim # "idle" => match = "running" /\ (after = "frame" => frame <= MaxFrame)
    /\ shim \in {"exchange", "commands"} => after = "frame"
    /\ shim = "commands" => answers = NoTok

\* What else a step may not disturb: the bot thinks about a decision, and a
\* connection over which one was left unanswered has been accepted, and that
\* takes a stub that threw.
Told ==
    /\ bot = "think" => btok # NoTok
    /\ adrift = {} \/ thrown
    /\ \A c \in Conns : backlog = <<c>> => c \notin adrift

\* The shim has a connection, and has left no decision unanswered over it.  All
\* that follows is of such a one.
Tight == peer # NoConn /\ peer \notin adrift

\* The bot thinks about a decision of the shim's connection.
Thinks == bot = "think" /\ bconn = peer

\* What the shim has sent: a Frame or a Hello is the last message, and the shim
\* waits for its answer; a GameStart is the first, for a bot that waits for it.
ToBotOK ==
    Tight =>
    \A i \in DOMAIN Q :
        /\ Q[i].type = "Frame" => shim = "commands" /\ Q[i].tok = <<game, frame>>
        /\ Q[i].type = "Hello" => shim = "config"
        /\ Q[i].type \in {"Frame", "Hello"} => i = Len(Q) /\ R = <<>> /\ ~Thinks
        /\ Q[i].type = "GameStart" => i = 1 /\ bot = "wait"

\* What the bot has sent: one ClientConfig to a handshake, and to a decision any
\* number of them and then the Commands for that very decision.
ToShimOK ==
    Tight =>
    /\ R # <<>> => shim \in {"config", "commands"}
    /\ shim = "config" /\ R # <<>> =>
         Len(R) = 1 /\ R[1].type = "ClientConfig" /\ Q = <<>> /\ (bconn = peer => bot = "wait")
    /\ shim = "config" /\ R = <<>> /\ bconn = peer => Q # <<>> /\ Q[Len(Q)].type = "Hello"
    /\ \A i \in DOMAIN R : R[i].type = "Commands" =>
         /\ i = Len(R) /\ shim = "commands" /\ R[i].tok = <<game, frame>> /\ ~Thinks
         /\ bconn = peer => blast \in {NoTok, R[i].tok}

\* What the bot thinks about is the decision that the shim has asked for.
ThinkOK == Tight /\ Thinks => shim = "commands" /\ btok = <<game, frame>> /\ Q = <<>>

Channels == ToBotOK /\ ToShimOK /\ ThinkOK

\* A session is open: the bot plays a match, or its GameStart is on the way, and
\* no message that ends it is.
Linked == Tight /\ bconn = peer
Open ==
    \/ bot \in {"frame", "think"} /\ \A i \in DOMAIN Q : Q[i].type = "Frame"
    \/ /\ bot = "wait" /\ Q # <<>> /\ Q[1].type = "GameStart"
       /\ \A i \in DOMAIN Q : i > 1 => Q[i].type = "Frame"

\* The match of the session, what the bot will have seen of it and what it
\* answered last when it reads its next Frame.
OpenGame == IF bot = "wait" THEN Q[1].game ELSE bgame
OpenSeen == IF bot = "wait" THEN <<>> ELSE seen
OpenLast == IF bot = "wait" THEN NoTok ELSE blast
FrameEvents == IF Q # <<>> /\ Q[Len(Q)].type = "Frame" THEN Q[Len(Q)].events ELSE <<>>
OpenRun == (OpenSeen \o FrameEvents) \o pending

\* s is an unbroken run of events that ends with the n-th.
RunTo(s, n) == Len(s) <= n /\ \A i \in 1..Len(s) : s[i] = n - Len(s) + i

\* An open session is one of the match that runs; nothing of what happened in it
\* was lost, and answers are those to the bot's own last queries.  A shim at
\* work on a connected bot has one open, unless a stub threw.  In the module
\* none is open between matches (in the client the game may have died).
Session ==
    Linked =>
    /\ match = "running" /\ shim \in {"idle", "exchange", "commands"} => Open \/ thrown
    /\ match = "none" /\ mode = "module" => ~Open
    /\ match = "running" /\ Open =>
         /\ OpenGame = game /\ RunTo(OpenRun, nEvents)
         /\ OpenLast = NoTok \/ OpenLast[2] <= frame
         /\ answers # NoTok => OpenLast \in {NoTok, answers}
         /\ \A i \in DOMAIN Q : Q[i].type = "Frame" =>
              Q[i].answers = NoTok
              \/ (Q[i].answers[1] = game /\ OpenLast \in {NoTok, Q[i].answers})

\* What is pending is the run of the events since the last Frame that was built,
\* and the answers that wait for the next one are of the match that runs, unless
\* the bot answered a decision that was not the one asked.
Held ==
    /\ RunTo(pending, nEvents)
    /\ \/ answers = NoTok \/ answers[1] = game \/ match = "none"
       \/ peer \in adrift /\ shim # "config"

Core == TypeOK /\ Ends /\ Calls /\ Channels /\ Session /\ Held

\* A connection that the shim has left, when the module died with its game: the
\* bot may still read a last Frame from it, which is of its match.
Stale ==
    bconn # NoConn /\ bconn # peer /\ bconn \notin adrift =>
    LET B == conn[bconn].toBot
    IN  /\ \A i \in DOMAIN B : /\ B[i].type = "Frame" => i = Len(B)
                               /\ B[i].type = "GameStart" => i = 1 /\ bot = "wait"
        /\ bot = "think" => B = <<>>
        /\ Len(B) = 2 /\ B[1].type = "GameStart" /\ B[2].type = "Frame" =>
             B[2].tok[1] = B[1].game
        /\ bot = "frame" /\ B # <<>> /\ B[1].type = "Frame" =>
             /\ B[1].tok[1] = bgame /\ (blast = NoTok \/ blast[2] <= B[1].tok[2])

IInv == Core /\ Stale /\ Told

\* The types that the connections and the lists have in particular.
LEMMA TypesThere ==
    ASSUME TypeOK
    PROVE  /\ conn \in [Conns -> Wire]
           /\ \A c \in Conns : conn[c].toBot \in Seq(ToBotMsgs) /\ conn[c].toShim \in Seq(ToShimMsgs)
           /\ \A c \in Conns : conn[c].bot \in BOOLEAN /\ conn[c].shim \in BOOLEAN
           /\ game \in 1..Games /\ Games \in Nat \ {0} /\ frame \in Nat /\ nEvents \in 0..MaxEvents
           /\ pending \in EventSeqs /\ seen \in Seq(1..MaxEvents) /\ adrift \subseteq Conns
           /\ answers \in Toks /\ btok \in Toks /\ blast \in Toks
           /\ peer \in Conns \cup {NoConn} /\ bconn \in Conns \cup {NoConn} /\ NoConn \notin Conns
           /\ MaxEvents \in Nat /\ MaxFrame \in Nat
<1>1. conn \in [Conns -> Wire]
  BY DEF TypeOK, Wire
<1>2. \A c \in Conns : conn[c] \in Wire
  BY <1>1
<1>3. \A c \in Conns : /\ conn[c].toBot \in Seq(ToBotMsgs) /\ conn[c].toShim \in Seq(ToShimMsgs)
                       /\ conn[c].bot \in BOOLEAN /\ conn[c].shim \in BOOLEAN
  BY <1>2 DEF Wire
<1>. QED  BY <1>1, <1>3, BoundsAssumption, NoConnAssumption DEF TypeOK

LEMMA EmptyRun == \A n \in Nat : RunTo(<<>>, n)
BY EmptySeq DEF RunTo

LEMMA InitInv == Init => IInv
<1>. SUFFICES ASSUME Init  PROVE IInv
  OBVIOUS
<1>1. /\ <<>> \in Seq(ToBotMsgs) /\ <<>> \in Seq(ToShimMsgs) /\ <<>> \in Seq(Conns)
      /\ \A c \in Conns : conn[c] = FreeConn
  BY DEF Init
<1>2. \A c \in Conns : /\ conn[c].toBot = <<>> /\ conn[c].toShim = <<>>
                       /\ conn[c].bot = FALSE /\ conn[c].shim = FALSE
  BY <1>1 DEF FreeConn
<1>3. conn \in [Conns -> Wire]
  <2>1. FreeConn \in Wire
    BY <1>1 DEF FreeConn, Wire
  <2>. QED  BY <2>1 DEF Init
<1>4. TypeOK
  <2>1. game \in 1..Games /\ frame \in 0..(MaxFrame + 1) /\ nEvents \in 0..MaxEvents
        /\ frameSkip \in Nat \ {0} /\ bgame \in 0..Games /\ played \in 0..BotGames
        /\ faults \in 0..MaxFaults
    BY BoundsAssumption DEF Init
  <2>2. pending \in EventSeqs /\ seen \in Seq(1..MaxEvents) /\ answers \in Toks /\ applied \in Toks
        /\ btok \in Toks /\ blast \in Toks
    BY NoEvents, TokensAre DEF Init
  <2>3. mode \in Modes /\ match \in {"none", "running"} /\ paused \in BOOLEAN
        /\ shim \in {"idle", "accept", "config", "exchange", "commands"}
        /\ after \in {"start", "frame"} /\ listening \in BOOLEAN /\ peer \in Conns \cup {NoConn}
        /\ backlog \in Seq(Conns) /\ bconn \in Conns \cup {NoConn} /\ thrown \in BOOLEAN
        /\ bot \in {"down", "connecting", "wait", "frame", "think"} /\ adrift \subseteq Conns
    BY <1>1 DEF Init
  <2>. QED  BY <1>3, <2>1, <2>2, <2>3 DEF TypeOK, Wire
<1>5. Ends
  <2>1. \A c \in Conns : <<>> # <<c>> /\ c # NoConn
    BY NoConnAssumption
  <2>. QED  BY <1>2, <2>1, BoundsAssumption DEF Init, Ends
<1>6. Calls /\ Channels /\ Session /\ Held
  BY EmptyRun DEF Init, Calls, Channels, ToBotOK, ToShimOK, ThinkOK, Session, Linked, Held, Tight
<1>7. Stale /\ Told
  <2>1. \A c \in Conns : <<>> # <<c>>
    OBVIOUS
  <2>. QED  BY <2>1 DEF Init, Stale, Told
<1>. QED  BY <1>4, <1>5, <1>6, <1>7 DEF IInv, Core

\* What a message more and a message less make of a queue.
LEMMA Appended ==
    ASSUME NEW S, NEW s \in Seq(S), NEW m \in S
    PROVE  LET t == Append(s, m)
           IN  /\ t \in Seq(S) /\ Len(s) \in Nat /\ Len(t) = Len(s) + 1 /\ t # <<>>
               /\ DOMAIN s = 1..Len(s) /\ DOMAIN t = 1..(Len(s) + 1)
               /\ t[Len(s) + 1] = m
               /\ \A i \in 1..Len(s) : t[i] = s[i]
               /\ s = <<>> => Len(s) = 0
BY AppendProperties, LenProperties, EmptySeq

LEMMA Taken ==
    ASSUME NEW S, NEW s \in Seq(S), s # <<>>
    PROVE  LET t == Tail(s)
           IN  /\ t \in Seq(S) /\ Len(s) \in Nat \ {0} /\ Len(t) = Len(s) - 1
               /\ DOMAIN s = 1..Len(s) /\ DOMAIN t = 1..(Len(s) - 1)
               /\ Head(s) = s[1]
               /\ \A i \in 1..(Len(s) - 1) : t[i] = s[i + 1]
               /\ t = <<>> <=> Len(s) = 1
<1>1. Tail(s) \in Seq(S) /\ Len(Tail(s)) = Len(s) - 1 /\ \A i \in 1..Len(Tail(s)) : Tail(s)[i] = s[i + 1]
  BY HeadTailProperties
<1>2. Len(s) \in Nat /\ DOMAIN s = 1..Len(s) /\ DOMAIN Tail(s) = 1..Len(Tail(s))
  BY <1>1, LenProperties
<1>3. Len(s) # 0 /\ (Tail(s) = <<>> <=> Len(Tail(s)) = 0)
  BY <1>1, EmptySeq
<1>4. Head(s) = s[1]
  BY HeadTailProperties
<1>. QED  BY <1>1, <1>2, <1>3, <1>4

\* The queues of the shim's connection, and what is in them when it is not
\* waiting for the bot.
LEMMA View ==
    ASSUME TypeOK, peer # NoConn
    PROVE  /\ peer \in Conns /\ Q \in Seq(ToBotMsgs) /\ R \in Seq(ToShimMsgs)
           /\ Len(Q) \in Nat /\ DOMAIN Q = 1..Len(Q) /\ (Q = <<>> <=> Len(Q) = 0)
           /\ Len(R) \in Nat /\ DOMAIN R = 1..Len(R) /\ (R = <<>> <=> Len(R) = 0)
           /\ \A i \in DOMAIN Q : Q[i] \in ToBotMsgs
           /\ \A i \in DOMAIN R : R[i] \in ToShimMsgs
           /\ conn[peer].bot \in BOOLEAN /\ conn[peer].shim \in BOOLEAN
<1>1. /\ peer \in Conns /\ Q \in Seq(ToBotMsgs) /\ R \in Seq(ToShimMsgs)
      /\ conn[peer].bot \in BOOLEAN /\ conn[peer].shim \in BOOLEAN
  BY TypesThere DEF Q, R
<1>. HIDE DEF Q, R
<1>2. /\ Len(Q) \in Nat /\ DOMAIN Q = 1..Len(Q) /\ (Q = <<>> <=> Len(Q) = 0)
      /\ \A i \in DOMAIN Q : Q[i] \in ToBotMsgs
  BY <1>1, LenProperties, EmptySeq
<1>3. /\ Len(R) \in Nat /\ DOMAIN R = 1..Len(R) /\ (R = <<>> <=> Len(R) = 0)
      /\ \A i \in DOMAIN R : R[i] \in ToShimMsgs
  BY <1>1, LenProperties, EmptySeq
<1>. QED  BY <1>1, <1>2, <1>3

Quiet == /\ R = <<>> /\ ~Thinks
         /\ \A i \in DOMAIN Q : /\ Q[i].type \in {"GameStart", "GameEnd"}
                                /\ Q[i].type = "GameStart" => i = 1 /\ bot = "wait"

LEMMA WhenQuiet ==
    ASSUME IInv, Tight, shim \in {"idle", "exchange"}
    PROVE  Quiet
<1>1. \A i \in DOMAIN Q : Q[i].type \in {"Hello", "GameEnd", "GameStart", "Frame"}
  BY View, ToBotKinds DEF IInv, Core, Tight
<1>. QED  BY <1>1 DEF IInv, Core, Channels, ToBotOK, ToShimOK, ThinkOK, Quiet

\* The first half of a handshake, on a connection where nothing is under way.
LEMMA HelloGoesOut ==
    ASSUME IInv, NEW c \in Conns, conn[c].toShim = <<>>, bconn = c => bot # "think",
           bconn = c <=> conn[c].bot,
           \A i \in DOMAIN conn[c].toBot :
              /\ conn[c].toBot[i].type \in {"GameStart", "GameEnd"}
              /\ conn[c].toBot[i].type = "GameStart" => i = 1 /\ bot = "wait",
           conn' = ToBot(conn, c, Hello), peer' = c, shim' = "config",
           UNCHANGED <<bot, bconn, blast, btok, adrift>>
    PROVE  Channels' /\ (Linked' => ~Open')
<1>. DEFINE s == conn[c].toBot
<1>1. s \in Seq(ToBotMsgs) /\ Hello \in ToBotMsgs /\ c # NoConn /\ conn[c].bot \in BOOLEAN
      /\ conn \in [Conns -> Wire]
  BY TypesThere, MessagesThere DEF IInv, Core
<1>2. Q' = (IF conn[c].bot THEN Append(s, Hello) ELSE s) /\ R' = <<>>
  BY <1>1, ToBotDoes DEF Q, R
<1>. HIDE DEF s
<1>3. \A i \in DOMAIN s : /\ s[i].type \in {"GameStart", "GameEnd"}
                          /\ s[i].type = "GameStart" => i = 1 /\ bot = "wait"
  BY DEF s
<1>4. Hello.type = "Hello" /\ ~Thinks'
  BY MessageTypes DEF Thinks
<1>5. CASE conn[c].bot
  <2>1. /\ Len(s) \in Nat /\ Len(Q') = Len(s) + 1 /\ Q' # <<>> /\ DOMAIN Q' = 1..(Len(s) + 1)
        /\ Q'[Len(s) + 1] = Hello
        /\ \A i \in 1..Len(s) : Q'[i] = s[i] /\ i \in DOMAIN s
    BY <1>1, <1>2, <1>5, Appended
  <2>2. Channels'
    <3>1. ToBotOK'
      BY <1>1, <1>2, <1>3, <1>4, <2>1 DEF ToBotOK
    <3>2. ToShimOK'
      BY <1>1, <1>2, <1>4, <2>1 DEF ToShimOK
    <3>3. ThinkOK'
      BY <1>4 DEF ThinkOK
    <3>. QED  BY <3>1, <3>2, <3>3 DEF Channels
  <2>3. ~Open'
    BY <1>3, <1>4, <2>1 DEF Open
  <2>. QED  BY <2>2, <2>3
<1>6. CASE ~conn[c].bot
  <2>1. ToBotOK' /\ ToShimOK' /\ ThinkOK' /\ ~Linked'
    BY <1>1, <1>2, <1>3, <1>4, <1>6 DEF ToBotOK, ToShimOK, ThinkOK, Linked
  <2>. QED  BY <2>1 DEF Channels
<1>. QED  BY <1>5, <1>6

\* Without a connection nothing is claimed of one.
LEMMA NotTight ==
    ASSUME ~Tight'  PROVE Channels' /\ Session'
BY DEF Channels, ToBotOK, ToShimOK, ThinkOK, Session, Linked

LEMMA NoPeer ==
    ASSUME peer' = NoConn  PROVE Channels' /\ Session'
BY NotTight DEF Tight

\* Which connections are open after the shim has used c in a handshake.
LEMMA HelloEnds ==
    ASSUME IInv, NEW c \in Conns, SendHello(conn, c),
           (c = peer /\ backlog' = backlog) \/ (backlog = <<c>> /\ backlog' = <<>> /\ peer = NoConn),
           UNCHANGED <<bot, bconn, played>>
    PROVE  Ends' /\ conn' \in [Conns -> Wire] /\ peer' \in Conns \cup {NoConn}
<1>1. conn \in [Conns -> Wire] /\ Hello \in ToBotMsgs /\ NoConn \notin Conns
      /\ \A d \in Conns : conn[d].bot \in BOOLEAN /\ conn[d].shim \in BOOLEAN
  BY TypesThere, MessagesThere DEF IInv, Core
<1>2. \A d \in Conns : <<>> # <<d>> /\ (<<d>> = <<c>> => d = c)
  OBVIOUS
<1>3. CASE conn' = ToBot(conn, c, Hello) /\ shim' = "config" /\ peer' = c
  <2>1. /\ conn' \in [Conns -> Wire]
        /\ \A d \in Conns : d # c => conn'[d] = conn[d]
        /\ conn'[c].bot = conn[c].bot /\ conn'[c].shim = conn[c].shim
        /\ conn'[c].toShim = conn[c].toShim
        /\ ~conn[c].bot => conn'[c].toBot = conn[c].toBot
    BY <1>1, <1>3, ToBotDoes
  <2>2. Ends'
    BY <1>1, <1>2, <1>3, <2>1 DEF IInv, Core, Ends
  <2>. QED  BY <1>3, <2>1, <2>2
<1>4. CASE ~conn[c].bot /\ conn' = ShimCloses(conn, c) /\ shim' = "accept" /\ peer' = NoConn
  <2>1. /\ conn' \in [Conns -> Wire]
        /\ \A d \in Conns : d # c => conn'[d] = conn[d]
        /\ conn'[c].bot = FALSE /\ conn'[c].shim = FALSE
        /\ conn'[c].toShim = <<>> /\ conn'[c].toBot = <<>>
    BY <1>1, <1>4, ShimClosesDoes
  <2>2. Ends'
    BY <1>1, <1>2, <1>4, <2>1 DEF IInv, Core, Ends
  <2>. QED  BY <1>4, <2>1, <2>2
<1>. QED  BY <1>3, <1>4 DEF SendHello

LEMMA FaultType ==
    ASSUME TypeOK, Fault \/ NoFault  PROVE faults' \in 0..MaxFaults
BY BoundsAssumption DEF Fault, NoFault, TypeOK

LEMMA MatchStartInv == ASSUME IInv, MatchStart  PROVE Core'
<1>. USE DEF IInv, Core, Tight
<1>1. shim = "idle" /\ match = "none" /\ match' = "running" /\ game' = (game % Games) + 1
      /\ frame' = 0 /\ paused' = FALSE /\ nEvents' = 0 /\ pending' = <<>> /\ answers' = NoTok
      /\ after' = "start"
      /\ UNCHANGED <<mode, frameSkip, applied, backlog, botVars>>
  BY DEF MatchStart, ResetForMatch
<1>2. Held' /\ pending' \in EventSeqs /\ answers' \in Toks /\ game' \in 1..Games
  BY <1>1, EmptyRun, NoEvents, TokensAre, NextGame, TypesThere DEF Held
<1>3. faults' \in 0..MaxFaults /\ thrown' \in BOOLEAN /\ adrift' \subseteq Conns
  <2>1. (StubThrows \/ NoFault) /\ thrown \in BOOLEAN /\ adrift \subseteq Conns
    BY DEF MatchStart, TypeOK
  <2>. QED  BY <2>1, FaultType DEF StubThrows, Throws, NoFault
<1>4. ASSUME conn' \in [Conns -> Wire], peer' \in Conns \cup {NoConn}, listening' \in BOOLEAN,
             shim' \in {"idle", "accept", "config"}
      PROVE  TypeOK' /\ Calls'
  <2>1. frame' \in 0..(MaxFrame + 1) /\ nEvents' \in 0..MaxEvents
    BY <1>1, TypesThere
  <2>2. TypeOK'
    BY <1>1, <1>2, <1>3, <1>4, <2>1 DEF TypeOK, botVars, Wire
  <2>3. Calls'
    BY <1>1, <1>4 DEF Calls
  <2>. QED  BY <2>2, <2>3
<1>5. conn \in [Conns -> Wire] /\ peer \in Conns \cup {NoConn} /\ listening \in BOOLEAN
  BY TypesThere DEF TypeOK
<1>6. CASE Connected /\ SendHello(conn, peer) /\ UNCHANGED listening /\ NoFault
  <2>1. peer \in Conns /\ peer # NoConn /\ adrift' = adrift
    BY <1>5, <1>6 DEF Connected, NoFault
  <2>5. backlog' = backlog /\ UNCHANGED <<bot, bconn, played>>
    BY <1>1 DEF botVars
  <2>6. Ends' /\ conn' \in [Conns -> Wire] /\ peer' \in Conns \cup {NoConn}
    BY <1>6, <2>1, <2>5, HelloEnds DEF SendHello
  <2>2. Ends' /\ conn' \in [Conns -> Wire] /\ peer' \in Conns \cup {NoConn}
        /\ shim' \in {"accept", "config"}
    BY <1>6, <2>6 DEF SendHello
  <2>3. TypeOK' /\ Calls'
    BY <1>4, <1>5, <1>6, <2>2
  <2>4. Channels' /\ Session'
    <3>1. CASE ~Tight'
      BY <3>1, NotTight
    <3>2. CASE Tight'
      <4>1. conn' = ToBot(conn, peer, Hello) /\ shim' = "config" /\ peer' = peer
        BY <1>6, <3>2 DEF SendHello
      <4>5. Quiet
        BY <1>1, <2>1, <3>2, <4>1, WhenQuiet
      <4>2. /\ conn[peer].toShim = <<>> /\ (bconn = peer => bot # "think")
            /\ bconn = peer <=> conn[peer].bot
            /\ \A i \in DOMAIN conn[peer].toBot :
                 /\ conn[peer].toBot[i].type \in {"GameStart", "GameEnd"}
                 /\ conn[peer].toBot[i].type = "GameStart" => i = 1 /\ bot = "wait"
        BY <2>1, <4>5 DEF Quiet, Q, R, Thinks, Ends
      <4>3. Channels' /\ (Linked' => ~Open')
        BY <1>1, <2>1, <4>1, <4>2, HelloGoesOut DEF botVars
      <4>. QED  BY <1>1, <4>1, <4>3 DEF Session
    <3>. QED  BY <3>1, <3>2
  <2>. QED  BY <1>2, <2>2, <2>3, <2>4
<1>7. CASE ~Connected /\ shim' = "accept" /\ listening' = TRUE /\ UNCHANGED <<peer, conn>> /\ NoFault
  <2>1. TypeOK' /\ Calls' /\ peer' = NoConn
    BY <1>4, <1>5, <1>7 DEF Connected
  <2>2. Ends'
    BY <1>1, <1>7, <2>1 DEF Ends, botVars
  <2>. QED  BY <1>2, <2>1, <2>2, NoPeer
<1>8. CASE StubThrows /\ UNCHANGED <<shim, peer, conn, listening>>
  <2>1. TypeOK' /\ Calls'
    BY <1>1, <1>4, <1>5, <1>8
  <2>2. Ends'
    BY <1>1, <1>8 DEF Ends, botVars
  <2>3. Channels'
    BY <1>1, <1>8, WhenQuiet
       DEF Channels, ToBotOK, ToShimOK, ThinkOK, Quiet, Q, R, Thinks, botVars, StubThrows, Throws
  <2>4. Session'
    BY <1>1, <1>8 DEF Session, Linked, Open, Q, StubThrows, Throws, botVars
  <2>. QED  BY <1>2, <2>1, <2>2, <2>3, <2>4
<1>. QED  BY <1>6, <1>7, <1>8 DEF MatchStart

LEMMA AcceptInv == ASSUME IInv, Accept  PROVE Core'
<1>. USE DEF IInv, Core, Tight
<1>1. PICK c \in Conns : backlog = <<c>>
  BY DEF Accept, Ends
<1>2. backlog' = <<>> /\ SendHello(conn, c) /\ peer = NoConn /\ shim = "accept"
      /\ UNCHANGED <<mode, gameVars, after, frameSkip, pending, answers, applied, listening,
                     botVars, faults, thrown, adrift>>
  <2>1. Head(backlog) = c /\ Tail(backlog) = <<>>
    BY <1>1
  <2>. QED  BY <2>1 DEF Accept, Ends, NoFault
<1>3. Ends' /\ conn' \in [Conns -> Wire] /\ peer' \in Conns \cup {NoConn}
  BY <1>1, <1>2, HelloEnds DEF botVars
<1>4. TypeOK'
  <2>1. backlog' \in Seq(Conns) /\ shim' \in {"accept", "config"}
    BY <1>2 DEF SendHello
  <2>. QED  BY <1>2, <1>3, <2>1 DEF TypeOK, Wire, gameVars, botVars
<1>5. Calls'
  BY <1>2 DEF Calls, SendHello, gameVars
<1>6. Channels' /\ Session'
  <2>1. CASE ~Tight'
    BY <2>1, NotTight
  <2>2. CASE Tight'
    <3>1. conn' = ToBot(conn, c, Hello) /\ shim' = "config" /\ peer' = c
      BY <1>2, <2>2 DEF SendHello
    <3>2. /\ conn[c].toShim = <<>> /\ (bconn = c => bot # "think") /\ (bconn = c <=> conn[c].bot)
          /\ conn[c].toBot = <<>>
      BY <1>1 DEF Ends
    <3>3. \A i \in DOMAIN conn[c].toBot : FALSE
      BY <3>2
    <3>4. Channels' /\ (Linked' => ~Open')
      BY <1>2, <3>1, <3>2, <3>3, HelloGoesOut DEF botVars
    <3>. QED  BY <1>2, <3>1, <3>4 DEF Session, gameVars, Calls
  <2>. QED  BY <2>1, <2>2
<1>7. Held'
  BY <1>2, TypesThere DEF Held, gameVars
<1>. QED  BY <1>3, <1>4, <1>5, <1>6, <1>7

LEMMA FrameType ==
    ASSUME TypeOK, Calls, shim # "idle", FrameDone, after = "frame"
    PROVE  frame' \in 0..(MaxFrame + 1) /\ paused' \in BOOLEAN /\ shim' = "idle"
<1>1. frame \in Nat /\ frame <= MaxFrame /\ MaxFrame \in Nat
  BY TypesThere DEF Calls
<1>2. frame' \in {frame, frame + 1} /\ paused' = FALSE /\ shim' = "idle"
  BY DEF FrameDone
<1>3. frame' \in 0..(MaxFrame + 1)
  BY <1>1, <1>2
<1>. QED  BY <1>2, <1>3

LEMMA CallbackType ==
    ASSUME TypeOK, Calls, shim # "idle", CallbackReturns
    PROVE  frame' \in 0..(MaxFrame + 1) /\ paused' \in BOOLEAN /\ shim' = "idle"
<1>1. CASE after = "frame"
  BY <1>1, FrameType DEF CallbackReturns
<1>2. CASE after # "frame"
  BY <1>2 DEF CallbackReturns, SameFrame, TypeOK
<1>. QED  BY <1>1, <1>2

LEMMA AcceptFailsInv == ASSUME IInv, AcceptFails  PROVE Core'
<1>. USE DEF IInv, Core, Tight
<1>1. shim = "accept" /\ Fault /\ CallbackReturns
      /\ UNCHANGED <<mode, match, game, nEvents, after, frameSkip, pending, answers, applied,
                     listening, peer, backlog, conn, botVars, thrown, adrift>>
  BY DEF AcceptFails
<1>2. frame' \in 0..(MaxFrame + 1) /\ paused' \in BOOLEAN /\ shim' = "idle" /\ faults' \in 0..MaxFaults
  BY <1>1, CallbackType, FaultType
<1>3. TypeOK'
  BY <1>1, <1>2 DEF TypeOK, botVars
<1>4. Ends' /\ peer' = NoConn
  BY <1>1, <1>2 DEF Ends, botVars
<1>5. Calls'
  BY <1>2 DEF Calls
<1>6. Held'
  BY <1>1, <1>2 DEF Held
<1>. QED  BY <1>3, <1>4, <1>5, <1>6, NoPeer

\* The shim closes its connection.
LEMMA PeerDropped ==
    ASSUME IInv, peer # NoConn, NEW cn \in [Conns -> Wire], DropPeer(cn),
           \A d \in Conns : d # peer => cn[d] = conn[d],
           cn[peer].bot = conn[peer].bot, cn[peer].toBot = conn[peer].toBot,
           shim' \in {"idle", "accept"}, UNCHANGED <<backlog, bconn, bot, played>>
    PROVE  /\ conn' \in [Conns -> Wire] /\ peer' = NoConn
           /\ Ends' /\ Channels' /\ Session'
<1>. USE DEF IInv, Core, Tight
<1>1. peer \in Conns /\ NoConn \notin Conns /\ conn' = ShimCloses(cn, peer) /\ peer' = NoConn
  BY TypesThere DEF DropPeer
<1>2. /\ conn' \in [Conns -> Wire]
      /\ \A d \in Conns : d # peer => conn'[d] = conn[d]
      /\ conn'[peer].bot = conn[peer].bot /\ conn'[peer].shim = FALSE
      /\ conn'[peer].toShim = <<>>
      /\ conn'[peer].toBot = IF conn[peer].bot THEN conn[peer].toBot ELSE <<>>
  BY <1>1, ShimClosesDoes
<1>3. Ends'
  BY <1>1, <1>2 DEF Ends
<1>. QED  BY <1>1, <1>2, <1>3, NoPeer

LEMMA LoseHandshakeInv == ASSUME IInv, LoseHandshake  PROVE Core'
<1>. USE DEF IInv, Core, Tight
<1>1. shim = "config" /\ DropPeer(conn) /\ shim' = "accept" /\ peer # NoConn
      /\ UNCHANGED <<mode, gameVars, after, frameSkip, pending, answers, applied, listening,
                     backlog, botVars, faults, thrown, adrift>>
  BY DEF LoseHandshake, NoFault, Ends
<1>2. conn' \in [Conns -> Wire] /\ peer' = NoConn /\ Ends' /\ Channels' /\ Session'
  BY <1>1, PeerDropped, TypesThere DEF botVars
<1>3. TypeOK'
  BY <1>1, <1>2 DEF TypeOK, Wire, gameVars, botVars
<1>4. Calls' /\ Held'
  BY <1>1 DEF Calls, Held, gameVars
<1>. QED  BY <1>2, <1>3, <1>4

\* The GameStart of a handshake opens a session with everything that is pending.
LEMMA SessionOpens ==
    ASSUME IInv, Tight, bconn = peer, bot = "wait", match = "running", shim = "config",
           Q' = <<GameStart(game)>>, R' = <<>>, shim' \in {"idle", "exchange"},
           UNCHANGED <<match, game, nEvents, pending, answers, peer, bconn, bot, adrift>>
    PROVE  Channels' /\ Session'
<1>. USE DEF IInv, Core, Tight
<1>1. /\ DOMAIN Q' = {1} /\ Q'[1] = GameStart(game) /\ Q' # <<>> /\ Len(Q') = 1
      /\ GameStart(game).type = "GameStart" /\ GameStart(game).game = game
  BY MessageTypes
<1>2. <<>> \o <<>> = <<>> /\ <<>> \o pending = pending
  <2>1. pending \in Seq(1..MaxEvents) /\ <<>> \in Seq(1..MaxEvents)
    BY TypesThere, EventSeqsAre
  <2>. QED  BY <2>1, ConcatEmptySeq
<1>3. ToBotOK' /\ ToShimOK' /\ ThinkOK'
  BY <1>1 DEF ToBotOK, ToShimOK, ThinkOK, Thinks
<1>4. FrameEvents' = <<>> /\ OpenSeen' = <<>> /\ OpenRun' = pending /\ OpenGame' = game
      /\ OpenLast' = NoTok
  BY <1>1, <1>2 DEF FrameEvents, OpenSeen, OpenRun, OpenGame, OpenLast
<1>5. Open'
  BY <1>1 DEF Open
<1>6. Session'
  BY <1>1, <1>4, <1>5 DEF Session, Held
<1>. QED  BY <1>3, <1>6 DEF Channels

\* Without anything under way, and without a session.
LEMMA NothingThere ==
    ASSUME Q' = <<>>, R' = <<>>, shim' # "config", bot' # "think",
           bconn' # peer' \/ (thrown' /\ bot' = "wait")
    PROVE  Channels' /\ Session'
<1>1. \A i \in DOMAIN Q' : FALSE
  OBVIOUS
<1>2. \A i \in DOMAIN R' : FALSE
  OBVIOUS
<1>3. ToBotOK' /\ ToShimOK' /\ ThinkOK'
  BY <1>1, <1>2 DEF ToBotOK, ToShimOK, ThinkOK, Thinks
<1>4. Session'
  BY <1>1 DEF Session, Linked, Open
<1>. QED  BY <1>3, <1>4 DEF Channels

LEMMA RecvConfigInv == ASSUME IInv, RecvConfig  PROVE Core'
<1>. USE DEF IInv, Core, Tight
<1>. DEFINE cn == [conn EXCEPT ![peer].toShim = Tail(@)]
            m == Head(conn[peer].toShim)
<1>1. shim = "config" /\ R # <<>> /\ peer \in Conns /\ peer # NoConn /\ match = "running"
      /\ UNCHANGED <<mode, match, game, nEvents, after, pending, answers, applied, listening,
                     backlog, botVars>>
  BY TypesThere DEF RecvConfig, R, Ends, Calls
<1>2. /\ cn \in [Conns -> Wire] /\ \A d \in Conns : d # peer => cn[d] = conn[d]
      /\ cn[peer].bot = conn[peer].bot /\ cn[peer].shim = conn[peer].shim
      /\ cn[peer].toBot = conn[peer].toBot /\ cn[peer].toShim = Tail(R) /\ m \in ToShimMsgs
  BY <1>1, TypesThere, TakeToShim DEF R
<1>3. Tight => Q = <<>> /\ Tail(R) = <<>> /\ (bconn = peer => bot = "wait")
  <2>. SUFFICES ASSUME Tight  PROVE Q = <<>> /\ Tail(R) = <<>> /\ (bconn = peer => bot = "wait")
    OBVIOUS
  <2>1. Len(R) = 1 /\ R \in Seq(ToShimMsgs)
    BY <1>1, View DEF Channels, ToShimOK
  <2>2. Tail(R) = <<>>
    BY <1>1, <2>1, Taken
  <2>. QED  BY <1>1, <2>2 DEF Channels, ToShimOK
<1>4. \/ /\ conn' = ToBot(cn, peer, GameStart(game))
         /\ shim' = IF after = "frame" THEN "exchange" ELSE "idle"
         /\ peer' = peer /\ SameFrame /\ NoFault
      \/ ~cn[peer].bot /\ DropPeer(cn) /\ shim' = "accept" /\ SameFrame /\ NoFault
      \/ StubThrows /\ conn' = cn /\ peer' = peer /\ CallbackReturns
  BY DEF RecvConfig
<1>5. frameSkip' \in Nat \ {0}
  <2>1. frameSkip' = IF m.type = "ClientConfig" THEN Clamp(m.skip) ELSE frameSkip
    BY DEF RecvConfig
  <2>2. frameSkip \in Nat \ {0}
    BY DEF TypeOK
  <2>. HIDE DEF m
  <2>. QED  BY <1>2, <2>1, <2>2, ToShimKinds, ClampType
<1>. HIDE DEF cn, m
<1>6. ASSUME conn' \in [Conns -> Wire], peer' \in Conns \cup {NoConn},
             shim' \in {"idle", "accept", "exchange"}
      PROVE  TypeOK'
  <2>1. faults' \in 0..MaxFaults /\ thrown' \in BOOLEAN /\ adrift' \subseteq Conns
    <3>1. (StubThrows \/ NoFault) /\ thrown \in BOOLEAN /\ adrift \subseteq Conns
      BY <1>4 DEF TypeOK
    <3>. QED  BY <3>1, FaultType DEF StubThrows, Throws, NoFault
  <2>2. frame' \in 0..(MaxFrame + 1) /\ paused' \in BOOLEAN
    BY <1>1, <1>4, CallbackType DEF SameFrame, TypeOK
  <2>. QED  BY <1>1, <1>5, <1>6, <2>1, <2>2 DEF TypeOK, Wire, botVars
<1>7. Held'
  BY <1>1 DEF Held
<1>8. CASE /\ conn' = ToBot(cn, peer, GameStart(game))
           /\ shim' = IF after = "frame" THEN "exchange" ELSE "idle"
           /\ peer' = peer /\ SameFrame /\ NoFault
  <2>1. GameStart(game) \in ToBotMsgs
    BY MessagesThere, TypesThere
  <2>2. /\ conn' \in [Conns -> Wire] /\ \A d \in Conns : d # peer => conn'[d] = conn[d]
        /\ conn'[peer].bot = conn[peer].bot /\ conn'[peer].shim = conn[peer].shim
        /\ conn'[peer].toShim = Tail(R)
        /\ conn'[peer].toBot = IF conn[peer].bot THEN Append(Q, GameStart(game)) ELSE Q
    <3>2. /\ conn' \in [Conns -> Wire] /\ \A d \in Conns : d # peer => conn'[d] = cn[d]
          /\ conn'[peer].bot = cn[peer].bot /\ conn'[peer].shim = cn[peer].shim
          /\ conn'[peer].toShim = cn[peer].toShim
          /\ conn'[peer].toBot = IF cn[peer].bot THEN Append(cn[peer].toBot, GameStart(game))
                                                  ELSE cn[peer].toBot
      BY <1>1, <1>2, <1>8, <2>1, ToBotDoes
    <3>. QED  BY <1>2, <3>2 DEF Q
  <2>3. Ends'
    BY <1>1, <1>8, <2>2 DEF Ends, botVars, Q
  <2>4. Calls'
    BY <1>1, <1>8 DEF Calls, SameFrame
  <2>5. Channels' /\ Session'
    <3>. SUFFICES ASSUME Tight'  PROVE Channels' /\ Session'
      BY NotTight
    <3>4. Tight /\ adrift' = adrift
      BY <1>8 DEF NoFault
    <3>1. R' = <<>> /\ Q' = (IF bconn = peer THEN <<GameStart(game)>> ELSE <<>>)
      <4>1. Append(<<>>, GameStart(game)) = <<GameStart(game)>>
        OBVIOUS
      <4>2. conn[peer].bot <=> bconn = peer
        BY <1>1 DEF Ends
      <4>. QED  BY <1>3, <1>8, <2>2, <3>4, <4>1, <4>2 DEF Q, R
    <3>2. CASE bconn = peer
      BY <1>1, <1>3, <1>8, <3>1, <3>2, <3>4, SessionOpens DEF botVars
    <3>3. CASE bconn # peer
      <4>1. ToBotOK' /\ ToShimOK' /\ ThinkOK' /\ Session'
        BY <1>1, <1>8, <3>1, <3>3
           DEF ToBotOK, ToShimOK, ThinkOK, Thinks, Session, Linked, botVars
      <4>. QED  BY <4>1 DEF Channels
    <3>. QED  BY <3>2, <3>3
  <2>6. TypeOK'
    BY <1>1, <1>6, <1>8, <2>2
  <2>. QED  BY <1>7, <2>3, <2>4, <2>5, <2>6
<1>9. CASE ~cn[peer].bot /\ DropPeer(cn) /\ shim' = "accept" /\ SameFrame /\ NoFault
  <2>1. conn' \in [Conns -> Wire] /\ peer' = NoConn /\ Ends' /\ Channels' /\ Session'
    BY <1>1, <1>2, <1>9, PeerDropped DEF botVars, Q
  <2>2. Calls'
    BY <1>1, <1>9 DEF Calls, SameFrame
  <2>. QED  BY <1>6, <1>7, <1>9, <2>1, <2>2
<1>10. CASE StubThrows /\ conn' = cn /\ peer' = peer /\ CallbackReturns
  <2>1. shim' = "idle" /\ bot' = bot /\ bconn' = bconn /\ thrown' /\ adrift' = adrift
    BY <1>1, <1>10, CallbackType DEF botVars, StubThrows, Throws
  <2>2. Ends'
    BY <1>1, <1>2, <1>10, <2>1 DEF Ends, botVars, Q
  <2>3. Channels' /\ Session'
    <3>. SUFFICES ASSUME Tight'  PROVE Channels' /\ Session'
      BY NotTight
    <3>1. Tight /\ Q' = <<>> /\ R' = <<>>
      BY <1>2, <1>3, <1>10, <2>1 DEF Q, R
    <3>2. CASE bconn = peer
      BY <1>1, <1>3, <1>10, <2>1, <3>1, <3>2, NothingThere
    <3>3. CASE bconn # peer
      <4>1. ToBotOK' /\ ToShimOK' /\ ThinkOK' /\ Session'
        BY <1>1, <1>10, <2>1, <3>1, <3>3
           DEF ToBotOK, ToShimOK, ThinkOK, Thinks, Session, Linked, botVars
      <4>. QED  BY <4>1 DEF Channels
    <3>. QED  BY <3>2, <3>3
  <2>4. Calls'
    BY <2>1 DEF Calls
  <2>. QED  BY <1>1, <1>2, <1>6, <1>7, <1>10, <2>1, <2>2, <2>3, <2>4
<1>. QED  BY <1>4, <1>8, <1>9, <1>10

\* Frames that pass while the shim is not waiting for the bot.
LEMMA ChannelsStay ==
    ASSUME IInv, shim \in {"idle", "exchange"}, shim' \in {"idle", "exchange"},
           UNCHANGED <<conn, peer, bot, bconn, btok, blast, adrift>>
    PROVE  Channels'
<1>1. CASE ~Tight'
  BY <1>1, NotTight
<1>2. CASE Tight'
  <2>1. Quiet
    BY <1>2, WhenQuiet DEF Tight
  <2>2. ToBotOK' /\ ToShimOK' /\ ThinkOK'
    BY <2>1 DEF Quiet, ToBotOK, ToShimOK, ThinkOK, Thinks, Q, R
  <2>. QED  BY <2>2 DEF Channels
<1>. QED  BY <1>1, <1>2

LEMMA OpenStays ==
    ASSUME UNCHANGED <<conn, peer, bot, bconn, bgame, blast, seen, adrift>>
    PROVE  /\ Q' = Q /\ R' = R /\ Open' = Open /\ Linked' = Linked /\ OpenGame' = OpenGame
           /\ OpenSeen' = OpenSeen /\ OpenLast' = OpenLast /\ FrameEvents' = FrameEvents
BY DEF Q, R, Open, Linked, OpenGame, OpenSeen, OpenLast, FrameEvents, Tight

LEMMA SessionStays ==
    ASSUME IInv, frame \in Nat, frame' \in Nat, frame <= frame', thrown => thrown',
           shim \in {"idle", "exchange", "commands"} \/ shim' = "accept",
           UNCHANGED <<mode, match, game, nEvents, pending, answers, conn, peer,
                       bot, bconn, bgame, blast, seen, adrift>>
    PROVE  Session'
<1>1. CASE Linked
  <2>1. /\ Q' = Q /\ Open' = Open /\ Linked' = Linked /\ OpenGame' = OpenGame
        /\ OpenLast' = OpenLast /\ OpenRun' = OpenRun
    BY OpenStays DEF OpenRun
  <2>2. OpenLast \in Toks
    BY TypesThere, TokensAre DEF IInv, Core, OpenLast
  <2>3. OpenLast = NoTok \/ OpenLast[2] \in Nat
    BY <2>2, TokensAre, TypesThere DEF IInv, Core
  <2>4. OpenLast # NoTok /\ OpenLast[2] <= frame => OpenLast[2] <= frame'
    BY <2>3
  <2>. QED  BY <1>1, <2>1, <2>4 DEF IInv, Core, Session, Linked, Ends, Tight
<1>2. CASE ~Linked
  BY <1>2, OpenStays DEF Session
<1>. QED  BY <1>1, <1>2

\* A run of events grows at its end.
LEMMA RunGrows ==
    ASSUME NEW s \in Seq(1..MaxEvents), NEW n \in Nat, RunTo(s, n)
    PROVE  RunTo(Append(s, n + 1), n + 1)
<1>. DEFINE t == Append(s, n + 1)
<1>1. Len(s) \in Nat /\ s \in Seq(Nat) /\ n + 1 \in Nat
  <2>1. Len(s) \in Nat /\ s \in [1..Len(s) -> 1..MaxEvents]
    BY LenProperties
  <2>2. s \in [1..Len(s) -> Nat]
    BY <2>1
  <2>. QED  BY <2>1, <2>2, SeqDef
<1>2. Len(t) = Len(s) + 1 /\ t[Len(s) + 1] = n + 1 /\ \A i \in 1..Len(s) : t[i] = s[i]
  BY <1>1, Appended
<1>. HIDE DEF t
<1>3. \A i \in 1..Len(s) : s[i] = n - Len(s) + i
  BY DEF RunTo
<1>4. Len(s) <= n
  BY DEF RunTo
<1>5. RunTo(t, n + 1)
  BY <1>1, <1>2, <1>3, <1>4 DEF RunTo
<1>. QED  BY <1>5 DEF t

\* The lists of events an open session is made of.
LEMMA OpenTypes ==
    ASSUME TypeOK, peer # NoConn
    PROVE  /\ OpenSeen \in Seq(1..MaxEvents) /\ FrameEvents \in Seq(1..MaxEvents)
           /\ pending \in Seq(1..MaxEvents) /\ OpenRun \in Seq(1..MaxEvents)
           /\ seen \in Seq(1..MaxEvents) /\ OpenLast \in Toks
<1>1. pending \in Seq(1..MaxEvents) /\ seen \in Seq(1..MaxEvents) /\ <<>> \in Seq(1..MaxEvents)
  BY TypesThere, EventSeqsAre
<1>2. OpenSeen \in Seq(1..MaxEvents)
  BY <1>1 DEF OpenSeen
<1>3. FrameEvents \in Seq(1..MaxEvents)
  <2>1. CASE Q # <<>> /\ Q[Len(Q)].type = "Frame"
    <3>1. Q[Len(Q)] \in ToBotMsgs
      BY <2>1, View
    <3>2. Q[Len(Q)].events \in EventSeqs
      BY <2>1, <3>1, ToBotKinds
    <3>. QED  BY <2>1, <3>2, EventSeqsAre DEF FrameEvents
  <2>2. CASE ~(Q # <<>> /\ Q[Len(Q)].type = "Frame")
    BY <1>1, <2>2 DEF FrameEvents
  <2>. QED  BY <2>1, <2>2
<1>4. OpenSeen \o FrameEvents \in Seq(1..MaxEvents)
  BY <1>2, <1>3, ConcatProperties
<1>5. OpenRun \in Seq(1..MaxEvents)
  BY <1>1, <1>4, ConcatProperties DEF OpenRun
<1>6. OpenLast \in Toks
  BY TypesThere, TokensAre DEF OpenLast
<1>. QED  BY <1>1, <1>2, <1>3, <1>5, <1>6

LEMMA GameEventInv == ASSUME IInv, GameEvent  PROVE Core'
<1>. USE DEF IInv, Core, Tight
<1>1. shim = "idle" /\ match = "running" /\ nEvents < MaxEvents
      /\ nEvents' = nEvents + 1 /\ pending' = Append(pending, nEvents + 1)
      /\ UNCHANGED <<mode, match, game, shim, after, frameSkip, answers, applied, listening, peer,
                     backlog, conn, botVars, frame, paused, faults, thrown, adrift>>
  BY DEF GameEvent, SameFrame, NoFault
<1>2. nEvents \in Nat /\ nEvents + 1 \in 1..MaxEvents /\ MaxEvents \in Nat
      /\ pending \in EventSeqs /\ pending \in Seq(1..MaxEvents) /\ Len(pending) \in Nat
  BY <1>1, TypesThere, EventSeqsAre
<1>3. pending' \in EventSeqs
  <2>1. Len(pending) < MaxEvents
    BY <1>1, <1>2 DEF Held, RunTo
  <2>. QED  BY <1>1, <1>2, <2>1, EventAdded
<1>4. TypeOK'
  BY <1>1, <1>2, <1>3 DEF TypeOK, botVars
<1>5. Ends' /\ Calls'
  BY <1>1 DEF Ends, Calls, botVars
<1>6. Channels'
  BY <1>1, ChannelsStay DEF botVars
<1>7. Held'
  BY <1>1, <1>2, RunGrows DEF Held
<1>8. Session'
  <2>1. CASE Linked
    <3>1. /\ Q' = Q /\ Open' = Open /\ Linked' = Linked /\ OpenGame' = OpenGame
          /\ OpenLast' = OpenLast /\ OpenSeen' = OpenSeen /\ FrameEvents' = FrameEvents
      BY <1>1, OpenStays DEF botVars
    <3>. DEFINE x == OpenSeen \o FrameEvents
                e == <<nEvents + 1>>
    <3>2. x \in Seq(1..MaxEvents) /\ e \in Seq(1..MaxEvents) /\ OpenRun \in Seq(1..MaxEvents)
      BY <1>2, <2>1, OpenTypes, ConcatProperties DEF Linked
    <3>3. OpenRun' = x \o Append(pending, nEvents + 1) /\ OpenRun = x \o pending
      BY <1>1, <3>1 DEF OpenRun
    <3>. HIDE DEF x, e
    <3>4. OpenRun' = Append(OpenRun, nEvents + 1)
      <4>1. Append(pending, nEvents + 1) = pending \o e
        BY <1>2 DEF e
      <4>2. Append(OpenRun, nEvents + 1) = OpenRun \o e
        BY <1>2, <3>2 DEF e
      <4>3. (x \o pending) \o e = x \o (pending \o e)
        <5>. pending \in Seq(1..MaxEvents)
          BY <1>2
        <5>. QED  BY <3>2, ConcatAssociative
      <4>. QED  BY ONLY <3>3, <4>1, <4>2, <4>3
    <3>5. RunTo(OpenRun, nEvents) => RunTo(OpenRun', nEvents')
      BY <1>1, <1>2, <3>2, <3>4, RunGrows
    <3>. QED  BY <1>1, <2>1, <3>1, <3>5 DEF Session
  <2>2. CASE ~Linked
    BY <1>1, <2>2, OpenStays DEF Session, botVars
  <2>. QED  BY <2>1, <2>2
<1>. QED  BY <1>4, <1>5, <1>6, <1>7, <1>8

LEMMA GamePausesInv == ASSUME IInv, GamePauses  PROVE Core'
<1>. USE DEF IInv, Core, Tight
<1>1. /\ shim = "idle" /\ Fault /\ paused' = TRUE
      /\ UNCHANGED <<mode, match, game, frame, nEvents, shimVars, backlog, conn, botVars, thrown, adrift>>
  BY DEF GamePauses
<1>2. TypeOK'
  BY <1>1, FaultType DEF TypeOK, shimVars, botVars
<1>3. Ends' /\ Calls' /\ Held'
  BY <1>1 DEF Ends, Calls, Held, shimVars, botVars
<1>4. Channels'
  BY <1>1, ChannelsStay DEF shimVars, botVars
<1>5. Session'
  BY <1>1, SessionStays, TypesThere DEF shimVars, botVars
<1>. QED  BY <1>2, <1>3, <1>4, <1>5

LEMMA OnFrameInv == ASSUME IInv, OnFrame  PROVE Core'
<1>. USE DEF IInv, Core, Tight
<1>1. /\ shim = "idle" /\ match = "running" /\ frame <= MaxFrame
      /\ UNCHANGED <<mode, match, game, nEvents, frameSkip, pending, answers, applied, peer,
                     backlog, conn, botVars, faults, thrown, adrift>>
      /\ \/ FrameDone /\ UNCHANGED <<after, listening>>
         \/ /\ shim' = (IF Connected THEN "exchange" ELSE "accept") /\ after' = "frame"
            /\ listening' = (listening \/ ~Connected) /\ SameFrame
  BY DEF OnFrame, NoFault
<1>2. frame \in Nat /\ frame <= MaxFrame /\ MaxFrame \in Nat
  BY <1>1, TypesThere
<1>3. CASE FrameDone /\ UNCHANGED <<after, listening>>
  <2>1. shim' = "idle" /\ paused' \in BOOLEAN /\ frame' \in {frame, frame + 1}
    BY <1>3 DEF FrameDone
  <2>2. frame' \in 0..(MaxFrame + 1) /\ frame' \in Nat /\ frame <= frame'
    BY <1>2, <2>1
  <2>3. TypeOK'
    BY <1>1, <1>3, <2>1, <2>2 DEF TypeOK, botVars
  <2>4. Ends' /\ Calls' /\ Held'
    BY <1>1, <2>1 DEF Ends, Calls, Held, botVars
  <2>5. Channels'
    BY <1>1, <2>1, ChannelsStay DEF botVars
  <2>6. Session'
    BY <1>1, <1>2, <2>2, SessionStays DEF botVars
  <2>. QED  BY <2>3, <2>4, <2>5, <2>6
<1>4. CASE /\ shim' = (IF Connected THEN "exchange" ELSE "accept") /\ after' = "frame"
           /\ listening' = (listening \/ ~Connected) /\ SameFrame
  <2>1. frame' = frame /\ paused' = paused /\ listening' \in BOOLEAN
        /\ shim' \in {"exchange", "accept"} /\ (shim' = "exchange" <=> peer # NoConn)
    BY <1>4 DEF SameFrame, Connected
  <2>2. TypeOK'
    BY <1>1, <1>4, <2>1 DEF TypeOK, botVars
  <2>3. Ends' /\ Held'
    BY <1>1, <2>1 DEF Ends, Held, botVars
  <2>4. Calls'
    BY <1>1, <1>4, <2>1 DEF Calls
  <2>5. Channels' /\ Session'
    <3>1. CASE peer = NoConn
      BY <1>1, <3>1, NoPeer
    <3>2. CASE peer # NoConn
      <4>1. shim' = "exchange"
        BY <2>1, <3>2
      <4>2. Channels'
        BY <1>1, <4>1, ChannelsStay DEF botVars
      <4>3. Session'
        BY <1>1, <1>2, <2>1, SessionStays DEF botVars
      <4>. QED  BY <4>2, <4>3
    <3>. QED  BY <3>1, <3>2
  <2>. QED  BY <2>2, <2>3, <2>4, <2>5
<1>. QED  BY <1>1, <1>3, <1>4

\* The Frame of a decision takes what is pending with it.
LEMMA FrameGoesOut ==
    ASSUME IInv, Tight, bconn = peer, shim = "exchange", shim' = "commands",
           Q' = Append(Q, Frame(<<game, frame>>, pending, answers)), R' = R,
           pending' = <<>>, answers' = NoTok,
           UNCHANGED <<mode, match, game, frame, nEvents, peer, bconn, bot, bgame, btok, blast,
                       seen, thrown, adrift>>
    PROVE  Channels' /\ Session'
<1>. USE DEF IInv, Core, Tight
<1>. DEFINE F == Frame(<<game, frame>>, pending, answers)
<1>1. Quiet /\ R = <<>> /\ ~Thinks
  BY WhenQuiet DEF Quiet
<1>2. /\ F.type = "Frame" /\ F.tok = <<game, frame>> /\ F.events = pending /\ F.answers = answers
      /\ F \in ToBotMsgs
  <2>1. frame \in 0..MaxFrame
    BY TypesThere DEF Calls
  <2>2. <<game, frame>> \in Decisions
    BY <2>1, TokensAre, TypesThere
  <2>. QED  BY <2>2, TypesThere, MessagesThere, MessageTypes
<1>. HIDE DEF F
<1>3. /\ Len(Q) \in Nat /\ Len(Q') = Len(Q) + 1 /\ Q' # <<>> /\ DOMAIN Q' = 1..(Len(Q) + 1)
      /\ Q'[Len(Q) + 1] = F /\ DOMAIN Q = 1..Len(Q) /\ (Q = <<>> => Len(Q) = 0)
      /\ \A i \in 1..Len(Q) : Q'[i] = Q[i]
  BY <1>2, View, Appended DEF F
<1>4. \A i \in 1..Len(Q) : /\ Q[i].type \in {"GameStart", "GameEnd"}
                           /\ Q[i].type = "GameStart" => i = 1 /\ bot = "wait"
  BY <1>1, <1>3 DEF Quiet
<1>5. Channels'
  <2>1. ToBotOK'
    BY <1>1, <1>2, <1>3, <1>4 DEF ToBotOK, Thinks
  <2>2. ToShimOK' /\ ThinkOK'
    BY <1>1 DEF ToShimOK, ThinkOK, Thinks
  <2>. QED  BY <2>1, <2>2 DEF Channels
<1>6. Open' <=> Open
  BY <1>2, <1>3, <1>4 DEF Open
<1>7. Session'
  <2>1. Open => OpenGame' = OpenGame /\ OpenSeen' = OpenSeen /\ OpenLast' = OpenLast
    BY <1>3 DEF Open, OpenGame, OpenSeen, OpenLast
  <2>2. Open => OpenRun' = OpenRun
    <3>1. FrameEvents = <<>> /\ FrameEvents' = pending
      <4>1. Q # <<>> => Len(Q) \in 1..Len(Q)
        BY View
      <4>. QED  BY <1>2, <1>3, <1>4, <4>1 DEF FrameEvents
    <3>2. /\ OpenSeen \in Seq(1..MaxEvents) /\ pending \in Seq(1..MaxEvents)
          /\ OpenSeen \o pending \in Seq(1..MaxEvents)
      BY OpenTypes, ConcatProperties
    <3>3. OpenSeen \o <<>> = OpenSeen /\ (OpenSeen \o pending) \o <<>> = OpenSeen \o pending
      BY <3>2, ConcatEmptySeq
    <3>. QED  BY <2>1, <3>1, <3>3 DEF OpenRun
  <2>3. \A i \in DOMAIN Q' : Q'[i].type = "Frame" => Q'[i].answers = answers
    BY <1>2, <1>3, <1>4
  <2>4. match = "running"
    BY DEF Calls
  <2>. QED  BY <1>6, <2>1, <2>2, <2>3, <2>4 DEF Session, Linked, Held
<1>. QED  BY <1>5, <1>7

LEMMA ExchangeFrameInv == ASSUME IInv, ExchangeFrame  PROVE Core'
<1>. USE DEF IInv, Core, Tight
<1>. DEFINE F == Frame(<<game, frame>>, pending, answers)
<1>1. /\ shim = "exchange" /\ after = "frame" /\ peer \in Conns /\ peer # NoConn
      /\ match = "running" /\ frame <= MaxFrame
      /\ UNCHANGED <<mode, match, game, nEvents, after, frameSkip, applied, listening,
                     backlog, botVars>>
  BY TypesThere DEF ExchangeFrame, Ends, Calls
<1>2. \/ /\ conn' = ToBot(conn, peer, F) /\ FrameBuilt /\ shim' = "commands"
         /\ peer' = peer /\ SameFrame /\ NoFault
      \/ ~conn[peer].bot /\ FrameBuilt /\ DropPeer(conn) /\ FrameDone /\ NoFault
      \/ StubThrows /\ FrameDone /\ UNCHANGED <<conn, peer, pending, answers>>
  BY DEF ExchangeFrame
<1>3. F \in ToBotMsgs
  <2>1. <<game, frame>> \in Decisions
    BY <1>1, TokensAre, TypesThere
  <2>. QED  BY <2>1, TypesThere, MessagesThere
<1>. HIDE DEF F
<1>4. ASSUME conn' \in [Conns -> Wire], peer' \in Conns \cup {NoConn}
      PROVE  TypeOK'
  <2>1. faults' \in 0..MaxFaults /\ thrown' \in BOOLEAN /\ adrift' \subseteq Conns
    <3>1. (StubThrows \/ NoFault) /\ thrown \in BOOLEAN /\ adrift \subseteq Conns
      BY <1>2 DEF TypeOK
    <3>. QED  BY <3>1, FaultType DEF StubThrows, Throws, NoFault
  <2>2. frame' \in 0..(MaxFrame + 1) /\ paused' \in BOOLEAN /\ shim' \in {"idle", "commands"}
    BY <1>1, <1>2, FrameType DEF SameFrame, TypeOK
  <2>3. pending' \in EventSeqs /\ answers' \in Toks
    BY <1>2, NoEvents, TokensAre, TypesThere DEF FrameBuilt
  <2>. QED  BY <1>1, <1>4, <2>1, <2>2, <2>3 DEF TypeOK, Wire, botVars
<1>5. Held'
  <2>1. CASE FrameBuilt
    BY <1>1, <2>1, EmptyRun, TypesThere DEF Held, FrameBuilt
  <2>2. CASE StubThrows /\ FrameDone /\ UNCHANGED <<conn, peer, pending, answers>>
    BY <1>1, <2>2 DEF Held, FrameDone, StubThrows
  <2>. QED  BY <1>2, <2>1, <2>2
<1>6. CASE /\ conn' = ToBot(conn, peer, F) /\ FrameBuilt /\ shim' = "commands"
           /\ peer' = peer /\ SameFrame /\ NoFault
  <2>1. /\ conn' \in [Conns -> Wire] /\ \A d \in Conns : d # peer => conn'[d] = conn[d]
        /\ conn'[peer].bot = conn[peer].bot /\ conn'[peer].shim = conn[peer].shim
        /\ conn'[peer].toShim = conn[peer].toShim
        /\ conn'[peer].toBot = IF conn[peer].bot THEN Append(conn[peer].toBot, F)
                                                 ELSE conn[peer].toBot
    <3>1. conn \in [Conns -> Wire]
      BY TypesThere
    <3>. QED  BY <1>1, <1>3, <1>6, <3>1, ToBotDoes
  <2>2. Ends'
    BY <1>1, <1>6, <2>1 DEF Ends, botVars
  <2>3. Calls'
    BY <1>1, <1>6 DEF Calls, SameFrame, FrameBuilt
  <2>4. R' = R /\ Q' = (IF bconn = peer THEN Append(Q, F) ELSE <<>>)
    BY <1>1, <1>6, <2>1 DEF Q, R, Ends
  <2>5. Channels' /\ Session'
    <3>. SUFFICES ASSUME Tight'  PROVE Channels' /\ Session'
      BY NotTight
    <3>3. Tight
      BY <1>6 DEF NoFault
    <3>1. CASE bconn = peer
      BY <1>1, <1>6, <2>4, <3>1, <3>3, FrameGoesOut DEF botVars, F, FrameBuilt, SameFrame, NoFault
    <3>2. CASE bconn # peer
      <4>1. R = <<>>
        BY <1>1, <3>3, WhenQuiet DEF Quiet
      <4>2. ToBotOK' /\ ToShimOK' /\ ThinkOK' /\ Session'
        BY <1>1, <1>6, <2>4, <3>2, <4>1
           DEF ToBotOK, ToShimOK, ThinkOK, Thinks, Session, Linked, botVars
      <4>. QED  BY <4>2 DEF Channels
    <3>. QED  BY <3>1, <3>2
  <2>. QED  BY <1>1, <1>4, <1>5, <1>6, <2>1, <2>2, <2>3, <2>5
<1>7. CASE ~conn[peer].bot /\ FrameBuilt /\ DropPeer(conn) /\ FrameDone /\ NoFault
  <2>1. shim' = "idle"
    BY <1>7 DEF FrameDone
  <2>2. conn' \in [Conns -> Wire] /\ peer' = NoConn /\ Ends' /\ Channels' /\ Session'
    BY <1>1, <1>7, <2>1, PeerDropped, TypesThere DEF botVars
  <2>3. Calls'
    BY <2>1 DEF Calls
  <2>. QED  BY <1>4, <1>5, <2>2, <2>3
<1>8. CASE StubThrows /\ FrameDone /\ UNCHANGED <<conn, peer, pending, answers>>
  <2>1. shim' = "idle" /\ thrown' /\ frame' \in {frame, frame + 1}
    BY <1>8 DEF FrameDone, StubThrows, Throws
  <2>7. adrift' = adrift
    BY <1>8 DEF StubThrows
  <2>2. TypeOK'
    BY <1>4, <1>8, TypesThere
  <2>3. Ends' /\ Calls'
    BY <1>1, <1>8, <2>1 DEF Ends, Calls, botVars
  <2>4. Channels'
    BY <1>1, <1>8, <2>1, <2>7, ChannelsStay DEF botVars
  <2>5. frame \in Nat /\ frame' \in Nat /\ frame <= frame'
    BY <2>1, TypesThere
  <2>6. Session'
    BY <1>1, <1>8, <2>1, <2>5, <2>7, SessionStays DEF botVars
  <2>. QED  BY <1>5, <2>2, <2>3, <2>4, <2>6
<1>. QED  BY <1>2, <1>6, <1>7, <1>8

\* The Commands of a decision end it, and the next Frame may answer its queries.
LEMMA CommandsArrive ==
    ASSUME IInv, Tight, shim = "commands", R # <<>>, Head(R).type = "Commands",
           shim' = "idle", Q' = Q, R' = Tail(R), frame' \in {frame, frame + 1},
           answers' = Head(R).tok \/ answers' = answers, thrown => thrown',
           UNCHANGED <<mode, match, game, nEvents, pending, conn[peer].toBot, peer,
                       bot, bconn, bgame, btok, blast, seen, adrift>>
    PROVE  Channels' /\ Session' /\ Held' /\ Head(R).tok = <<game, frame>>
<1>. USE DEF IInv, Core, Tight
<1>1. /\ Head(R) = R[1] /\ 1 \in DOMAIN R /\ R \in Seq(ToShimMsgs) /\ Len(R) \in Nat
      /\ frame \in 0..MaxFrame /\ match = "running" /\ answers = NoTok
  <2>1. R \in Seq(ToShimMsgs)
    BY View
  <2>2. Head(R) = R[1] /\ Len(R) \in Nat \ {0} /\ DOMAIN R = 1..Len(R)
    BY <2>1, Taken
  <2>. QED  BY <2>1, <2>2, TypesThere DEF Calls
<1>2. /\ Len(R) = 1 /\ Head(R).tok = <<game, frame>> /\ ~Thinks
      /\ bconn = peer => blast \in {NoTok, <<game, frame>>}
  BY <1>1 DEF Channels, ToShimOK
<1>3. R' = <<>>
  BY <1>1, <1>2, Taken
<1>4. \A i \in DOMAIN Q : Q[i].type \notin {"Frame", "Hello"}
  BY DEF Channels, ToBotOK
<1>5. Channels'
  <2>1. ToBotOK' /\ ToShimOK' /\ ThinkOK'
    BY <1>2, <1>3, <1>4 DEF Channels, ToBotOK, ToShimOK, ThinkOK, Thinks
  <2>. QED  BY <2>1 DEF Channels
<1>6. /\ <<game, frame>> \in Decisions /\ <<game, frame>> # NoTok /\ <<game, frame>>[1] = game
      /\ <<game, frame>>[2] = frame
  BY <1>1, TokensAre, TypesThere
<1>7. Held'
  BY <1>1, <1>2, <1>6 DEF Held
<1>8. Session'
  <2>1. CASE Linked
    <3>1. /\ Open' = Open /\ Linked' = Linked /\ OpenGame' = OpenGame /\ OpenLast' = OpenLast
          /\ OpenRun' = OpenRun
      BY DEF Open, Linked, OpenGame, OpenLast, OpenSeen, FrameEvents, OpenRun
    <3>2. OpenLast \in {NoTok, <<game, frame>>}
      BY <1>2, <2>1 DEF OpenLast, Linked
    <3>3. OpenLast = NoTok \/ OpenLast[2] <= frame'
      <4>1. frame <= frame'
        BY <1>1
      <4>. QED  BY <1>6, <3>2, <4>1
    <3>4. answers' # NoTok => OpenLast \in {NoTok, answers'}
      BY <1>1, <1>2, <3>2
    <3>. QED  BY <1>1, <1>4, <2>1, <3>1, <3>3, <3>4 DEF Session
  <2>2. CASE ~Linked
    BY <2>2 DEF Session, Linked
  <2>. QED  BY <2>1, <2>2
<1>. QED  BY <1>2, <1>5, <1>7, <1>8

\* A ClientConfig that comes instead leaves the shim waiting.
LEMMA ConfigArrives ==
    ASSUME IInv, Tight, shim = "commands", R # <<>>, shim' = "commands",
           Q' = Q, R' = Tail(R), thrown => thrown',
           UNCHANGED <<mode, match, game, frame, nEvents, pending, answers, conn[peer].toBot, peer,
                       bot, bconn, bgame, btok, blast, seen, adrift>>
    PROVE  Channels' /\ Session'
<1>. USE DEF IInv, Core, Tight
<1>1. /\ R' \in Seq(ToShimMsgs) /\ Len(R) \in Nat \ {0} /\ Len(R') = Len(R) - 1
      /\ DOMAIN R = 1..Len(R) /\ DOMAIN R' = 1..(Len(R) - 1)
      /\ \A i \in 1..(Len(R) - 1) : R'[i] = R[i + 1]
  BY View, Taken
<1>2. \A i \in DOMAIN Q : Q[i].type \notin {"Frame", "Hello"}
  BY DEF Channels, ToBotOK
<1>3. Channels'
  <2>1. ToBotOK' /\ ThinkOK'
    BY <1>2 DEF Channels, ToBotOK, ThinkOK, Thinks
  <2>2. ASSUME NEW i \in DOMAIN R', R'[i].type = "Commands"
        PROVE  i = Len(R') /\ R'[i].tok = <<game, frame>> /\ ~Thinks
               /\ (bconn = peer => blast \in {NoTok, R'[i].tok})
    <3>1. i + 1 \in DOMAIN R /\ R[i + 1] = R'[i] /\ i \in Nat
      BY <1>1, <2>2
    <3>2. i + 1 = Len(R) /\ R[i + 1].tok = <<game, frame>> /\ ~Thinks
          /\ (bconn = peer => blast \in {NoTok, R[i + 1].tok})
      BY <2>2, <3>1 DEF Channels, ToShimOK
    <3>. QED  BY <1>1, <3>1, <3>2
  <2>3. ToShimOK'
    BY <2>2 DEF ToShimOK, Thinks
  <2>. QED  BY <2>1, <2>3 DEF Channels
<1>4. Session'
  <2>1. /\ Open' = Open /\ Linked' = Linked /\ OpenGame' = OpenGame /\ OpenLast' = OpenLast
        /\ OpenRun' = OpenRun
    BY DEF Open, Linked, OpenGame, OpenLast, OpenSeen, FrameEvents, OpenRun
  <2>. QED  BY <2>1 DEF Session
<1>. QED  BY <1>3, <1>4

LEMMA RecvCommandsInv == ASSUME IInv, RecvCommands  PROVE Core'
<1>. USE DEF IInv, Core, Tight
<1>. DEFINE m == Head(conn[peer].toShim)
<1>1. /\ shim = "commands" /\ R # <<>> /\ after = "frame" /\ peer \in Conns /\ peer # NoConn
      /\ UNCHANGED <<mode, match, game, nEvents, after, pending, listening, peer, backlog, botVars>>
  BY TypesThere DEF RecvCommands, R, Ends, Calls
<1>2. /\ conn' \in [Conns -> Wire] /\ \A d \in Conns : d # peer => conn'[d] = conn[d]
      /\ conn'[peer].bot = conn[peer].bot /\ conn'[peer].shim = conn[peer].shim
      /\ Q' = Q /\ R' = Tail(R) /\ m \in ToShimMsgs /\ m = Head(R)
  <2>. DEFINE cn == [conn EXCEPT ![peer].toShim = Tail(@)]
  <2>1. conn' = cn /\ peer' = peer /\ conn \in [Conns -> Wire] /\ conn[peer].toShim # <<>>
    BY <1>1, TypesThere DEF RecvCommands, R
  <2>2. /\ cn \in [Conns -> Wire] /\ \A d \in Conns : d # peer => cn[d] = conn[d]
        /\ cn[peer].bot = conn[peer].bot /\ cn[peer].shim = conn[peer].shim
        /\ cn[peer].toBot = conn[peer].toBot /\ cn[peer].toShim = Tail(conn[peer].toShim)
        /\ m \in ToShimMsgs
    BY <1>1, <2>1, TakeToShim
  <2>. HIDE DEF cn
  <2>. QED  BY <2>1, <2>2 DEF Q, R
<1>3. Ends'
  <2>1. conn[peer].shim = TRUE /\ backlog # <<peer>>
    BY <1>1 DEF Ends
  <2>2. shim' \in {"idle", "commands"}
    BY <1>1 DEF RecvCommands, FrameDone
  <2>. QED  BY <1>1, <1>2, <2>1, <2>2 DEF Ends, botVars, Q
<1>4. \/ /\ m.type = "Commands" /\ applied' = m.tok /\ FrameDone /\ frameSkip' = frameSkip
         /\ (answers' = m.tok /\ NoFault) \/ (answers' = answers /\ StubThrows)
      \/ /\ m.type # "Commands" /\ frameSkip' = Clamp(m.skip) /\ UNCHANGED <<applied, answers>>
         /\ (shim' = shim /\ SameFrame /\ NoFault) \/ (FrameDone /\ DecisionThrows)
  BY DEF RecvCommands
<1>. HIDE DEF m
<1>5. /\ faults' \in 0..MaxFaults /\ thrown' \in BOOLEAN /\ (thrown => thrown')
      /\ adrift' \subseteq Conns
  <2>1. StubThrows \/ NoFault \/ DecisionThrows
    BY <1>4
  <2>2. thrown \in BOOLEAN /\ adrift \subseteq Conns
    BY DEF TypeOK
  <2>3. adrift' \subseteq adrift \cup {peer}
    BY <2>1 DEF StubThrows, DecisionThrows, NoFault
  <2>6. thrown' = TRUE \/ thrown' = thrown
    BY <2>1 DEF StubThrows, DecisionThrows, Throws, NoFault
  <2>7. thrown' \in BOOLEAN /\ (thrown => thrown')
    BY <2>2, <2>6
  <2>4. faults' \in 0..MaxFaults
    BY <2>1, FaultType DEF StubThrows, DecisionThrows, Throws
  <2>5. adrift' \subseteq Conns
    BY <1>1, <2>2, <2>3
  <2>. QED  BY <2>4, <2>5, <2>7
<1>6. CASE /\ m.type = "Commands" /\ applied' = m.tok /\ FrameDone /\ frameSkip' = frameSkip
           /\ (answers' = m.tok /\ NoFault) \/ (answers' = answers /\ StubThrows)
  <2>1. shim' = "idle" /\ frame' \in {frame, frame + 1} /\ adrift' = adrift
    BY <1>6 DEF FrameDone, NoFault, StubThrows, Throws
  <2>2. ASSUME Tight  PROVE Channels' /\ Session' /\ Held'
    <3>1. /\ Head(R).type = "Commands" /\ (answers' = Head(R).tok \/ answers' = answers)
          /\ Q' = Q /\ R' = Tail(R) /\ conn'[peer].toBot = conn[peer].toBot
      BY <1>1, <1>2, <1>6 DEF Q
    <3>2. UNCHANGED <<bot, bconn, bgame, btok, blast, seen>>
      BY <1>1 DEF botVars
    <3>. QED  BY <1>1, <1>5, <2>1, <2>2, <3>1, <3>2, CommandsArrive
  <2>3. ASSUME ~Tight  PROVE Channels' /\ Session' /\ Held'
    <3>1. Channels' /\ Session'
      BY <1>1, <2>1, <2>3, NotTight
    <3>2. Held'
      BY <1>1, <2>1, <2>3 DEF Held
    <3>. QED  BY <3>1, <3>2
  <2>4. Calls'
    BY <2>1 DEF Calls
  <2>5. TypeOK'
    <3>1. applied' \in Toks /\ frame' \in 0..(MaxFrame + 1) /\ paused' \in BOOLEAN
          /\ answers' \in Toks
      BY <1>1, <1>2, <1>6, ToShimKinds, FrameType, TokensAre, TypesThere
    <3>. QED  BY <1>1, <1>2, <1>5, <1>6, <2>1, <3>1 DEF TypeOK, Wire, botVars
  <2>6. Channels' /\ Session' /\ Held'
    BY <2>2, <2>3
  <2>. QED  BY <1>3, <2>4, <2>5, <2>6
<1>7. ASSUME m.type # "Commands", frameSkip' = Clamp(m.skip), UNCHANGED <<applied, answers>>,
             shim' \in {"idle", "commands"}, frame' \in 0..(MaxFrame + 1), paused' \in BOOLEAN
      PROVE  TypeOK'
  <2>1. frameSkip' \in Nat \ {0}
    BY <1>2, <1>7, ToShimKinds, ClampType
  <2>. QED  BY <1>1, <1>2, <1>5, <1>7, <2>1 DEF TypeOK, Wire, botVars
<1>8. CASE /\ m.type # "Commands" /\ frameSkip' = Clamp(m.skip) /\ UNCHANGED <<applied, answers>>
           /\ shim' = shim /\ SameFrame /\ NoFault
  <2>1. frame' = frame /\ paused' = paused /\ adrift' = adrift
    BY <1>8 DEF SameFrame, NoFault
  <2>2. Channels' /\ Session'
    <3>1. CASE Tight
      BY <1>1, <1>2, <1>5, <1>8, <2>1, <3>1, ConfigArrives DEF botVars, Q
    <3>2. CASE ~Tight
      BY <1>1, <2>1, <3>2, NotTight
    <3>. QED  BY <3>1, <3>2
  <2>3. Calls' /\ Held'
    BY <1>1, <1>8, <2>1 DEF Calls, Held
  <2>4. TypeOK'
    BY <1>1, <1>7, <1>8, <2>1 DEF TypeOK
  <2>. QED  BY <1>3, <2>2, <2>3, <2>4
<1>9. CASE /\ m.type # "Commands" /\ frameSkip' = Clamp(m.skip) /\ UNCHANGED <<applied, answers>>
           /\ FrameDone /\ DecisionThrows
  <2>1. shim' = "idle" /\ peer \in adrift' /\ peer' = peer
    BY <1>1, <1>9 DEF FrameDone, DecisionThrows
  <2>2. Channels' /\ Session'
    BY <2>1, NotTight
  <2>3. Calls' /\ Held'
    BY <1>1, <1>9, <2>1 DEF Calls, Held
  <2>4. TypeOK'
    BY <1>1, <1>7, <1>9, <2>1, FrameType
  <2>. QED  BY <1>3, <2>2, <2>3, <2>4
<1>. QED  BY <1>4, <1>6, <1>8, <1>9

LEMMA LoseBotInv == ASSUME IInv, LoseBot  PROVE Core'
<1>. USE DEF IInv, Core, Tight
<1>1. /\ shim = "commands" /\ DropPeer(conn) /\ FrameDone /\ peer # NoConn /\ after = "frame"
      /\ UNCHANGED <<mode, match, game, nEvents, after, frameSkip, pending, answers, applied,
                     listening, backlog, botVars, faults, thrown, adrift>>
  BY DEF LoseBot, NoFault, Ends, Calls
<1>2. frame' \in 0..(MaxFrame + 1) /\ paused' \in BOOLEAN /\ shim' = "idle"
  BY <1>1, FrameType
<1>3. conn' \in [Conns -> Wire] /\ peer' = NoConn /\ Ends' /\ Channels' /\ Session'
  BY <1>1, <1>2, PeerDropped, TypesThere DEF botVars
<1>4. TypeOK'
  BY <1>1, <1>2, <1>3 DEF TypeOK, Wire, botVars
<1>5. Calls' /\ Held'
  BY <1>1, <1>2 DEF Calls, Held
<1>. QED  BY <1>3, <1>4, <1>5

\* What MatchEnd leaves of the connection.
LEMMA GameEndGoesOut ==
    ASSUME IInv, Tight, bconn = peer, shim = "idle", shim' = "idle", match' = "none",
           Q' = Append(Q, GameEnd), R' = R, UNCHANGED <<peer, bconn, bot, btok, blast, adrift>>
    PROVE  Channels' /\ Session'
<1>. USE DEF IInv, Core, Tight
<1>1. Quiet /\ R = <<>> /\ ~Thinks
  BY WhenQuiet DEF Quiet
<1>2. GameEnd.type = "GameEnd" /\ GameEnd \in ToBotMsgs
  BY MessageTypes, MessagesThere
<1>3. /\ Len(Q) \in Nat /\ Len(Q') = Len(Q) + 1 /\ Q' # <<>> /\ DOMAIN Q' = 1..(Len(Q) + 1)
      /\ Q'[Len(Q) + 1] = GameEnd /\ DOMAIN Q = 1..Len(Q)
      /\ \A i \in 1..Len(Q) : Q'[i] = Q[i]
  BY <1>2, View, Appended
<1>4. \A i \in 1..Len(Q) : /\ Q[i].type \in {"GameStart", "GameEnd"}
                           /\ Q[i].type = "GameStart" => i = 1 /\ bot = "wait"
  BY <1>1, <1>3 DEF Quiet
<1>5. ToBotOK' /\ ToShimOK' /\ ThinkOK'
  <2>1. ToBotOK'
    BY <1>1, <1>2, <1>3, <1>4 DEF ToBotOK
  <2>2. ToShimOK' /\ ThinkOK'
    BY <1>1 DEF ToShimOK, ThinkOK, Thinks
  <2>. QED  BY <2>1, <2>2
<1>6. ~Open'
  BY <1>2, <1>3, <1>4 DEF Open
<1>. QED  BY <1>5, <1>6 DEF Channels, Session

LEMMA MatchEndInv == ASSUME IInv, MatchEnd  PROVE Core'
<1>. USE DEF IInv, Core, Tight
<1>1. /\ shim = "idle" /\ match' = "none" /\ pending' = <<>>
      /\ UNCHANGED <<mode, game, frame, paused, nEvents, shim, after, frameSkip, answers, applied,
                     listening, backlog, botVars, faults, thrown, adrift>>
  BY DEF MatchEnd, NoFault
<1>2. \/ peer # NoConn /\ conn' = ToBot(conn, peer, GameEnd) /\ peer' = peer
      \/ peer # NoConn /\ DropPeer(conn)
      \/ peer = NoConn /\ UNCHANGED <<conn, peer>>
  BY DEF MatchEnd, Connected
<1>3. Calls' /\ Held'
  BY <1>1, EmptyRun, TypesThere DEF Calls, Held
<1>4. ASSUME conn' \in [Conns -> Wire], peer' \in Conns \cup {NoConn}  PROVE TypeOK'
  BY <1>1, <1>4, NoEvents DEF TypeOK, Wire, botVars
<1>5. CASE peer # NoConn /\ conn' = ToBot(conn, peer, GameEnd) /\ peer' = peer
  <2>1. /\ conn' \in [Conns -> Wire] /\ \A d \in Conns : d # peer => conn'[d] = conn[d]
        /\ conn'[peer].bot = conn[peer].bot /\ conn'[peer].shim = conn[peer].shim
        /\ conn'[peer].toShim = conn[peer].toShim
        /\ conn'[peer].toBot = IF conn[peer].bot THEN Append(conn[peer].toBot, GameEnd)
                                                 ELSE conn[peer].toBot
    BY <1>5, TypesThere, MessagesThere, ToBotDoes
  <2>2. Ends' /\ peer \in Conns
    BY <1>1, <1>5, <2>1, TypesThere DEF Ends, botVars
  <2>3. R' = R /\ Q' = (IF bconn = peer THEN Append(Q, GameEnd) ELSE <<>>)
    BY <1>5, <2>1, <2>2 DEF Q, R, Ends
  <2>4. Channels' /\ Session'
    <3>. SUFFICES ASSUME Tight'  PROVE Channels' /\ Session'
      BY NotTight
    <3>1. CASE bconn = peer
      BY <1>1, <1>5, <2>3, <3>1, GameEndGoesOut DEF botVars
    <3>2. CASE bconn # peer
      <4>1. R = <<>>
        BY <1>1, <1>5, WhenQuiet DEF Quiet
      <4>2. ToBotOK' /\ ToShimOK' /\ ThinkOK' /\ Session'
        BY <1>1, <1>5, <2>3, <3>2, <4>1
           DEF ToBotOK, ToShimOK, ThinkOK, Thinks, Session, Linked, botVars
      <4>. QED  BY <4>2 DEF Channels
    <3>. QED  BY <3>1, <3>2
  <2>. QED  BY <1>3, <1>4, <1>5, <2>1, <2>2, <2>4
<1>6. CASE peer # NoConn /\ DropPeer(conn)
  <2>1. conn' \in [Conns -> Wire] /\ peer' = NoConn /\ Ends' /\ Channels' /\ Session'
    BY <1>1, <1>6, PeerDropped, TypesThere DEF botVars
  <2>. QED  BY <1>3, <1>4, <2>1
<1>7. CASE peer = NoConn /\ UNCHANGED <<conn, peer>>
  <2>1. Ends' /\ Channels' /\ Session'
    BY <1>1, <1>7, NoPeer DEF Ends, botVars
  <2>. QED  BY <1>3, <1>4, <1>7, <2>1, TypesThere
<1>. QED  BY <1>2, <1>5, <1>6, <1>7

LEMMA GameDiesInv == ASSUME IInv, GameDies  PROVE Core'
<1>. USE DEF IInv, Core, Tight
<1>1. /\ Fault /\ match = "running" /\ match' = "none"
      /\ UNCHANGED <<mode, game, frame, paused, nEvents, botVars, thrown, adrift>>
  BY DEF GameDies
<1>2. faults' \in 0..MaxFaults
  BY <1>1, FaultType
<1>3. CASE mode = "client" /\ shim = "idle" /\ UNCHANGED <<shimVars, backlog, conn>>
  <2>1. TypeOK'
    BY <1>1, <1>2, <1>3 DEF TypeOK, shimVars, botVars
  <2>2. Ends' /\ Calls' /\ Held'
    BY <1>1, <1>3 DEF Ends, Calls, Held, shimVars, botVars
  <2>3. Channels'
    BY <1>1, <1>3, ChannelsStay DEF shimVars, botVars
  <2>4. Session'
    BY <1>1, <1>3 DEF Session
  <2>. QED  BY <2>1, <2>2, <2>3, <2>4
<1>4. CASE /\ mode = "module" /\ shim' = "idle" /\ after' = "start" /\ frameSkip' = 1
           /\ pending' = <<>> /\ answers' = NoTok /\ applied' = NoTok
           /\ listening' = FALSE /\ peer' = NoConn /\ backlog' = <<>>
           /\ conn' = [c \in Conns |-> ShimCloses(conn, c)[c]]
  <2>1. \A c \in Conns : /\ conn'[c] \in Wire
                         /\ conn'[c].bot = conn[c].bot /\ conn'[c].shim = FALSE
                         /\ conn'[c].toShim = <<>>
                         /\ conn'[c].toBot = IF conn[c].bot THEN conn[c].toBot ELSE <<>>
    <3>. SUFFICES ASSUME NEW c \in Conns
                  PROVE  /\ conn'[c] \in Wire
                         /\ conn'[c].bot = conn[c].bot /\ conn'[c].shim = FALSE
                         /\ conn'[c].toShim = <<>>
                         /\ conn'[c].toBot = IF conn[c].bot THEN conn[c].toBot ELSE <<>>
      OBVIOUS
    <3>. DEFINE x == ShimCloses(conn, c)
    <3>1. conn'[c] = x[c]
      BY <1>4
    <3>2. /\ x \in [Conns -> Wire] /\ x[c].bot = conn[c].bot /\ x[c].shim = FALSE
          /\ x[c].toShim = <<>> /\ x[c].toBot = IF conn[c].bot THEN conn[c].toBot ELSE <<>>
      BY TypesThere, ShimClosesDoes
    <3>. HIDE DEF x
    <3>. QED  BY <3>1, <3>2
  <2>2. conn' \in [Conns -> Wire]
    BY <1>4, <2>1
  <2>3. pending' \in EventSeqs /\ answers' \in Toks /\ applied' \in Toks /\ backlog' \in Seq(Conns)
    BY <1>4, NoEvents, TokensAre
  <2>4. TypeOK'
    <3>1. frameSkip' \in Nat \ {0}
      BY <1>4
    <3>2. listening' \in BOOLEAN
      BY <1>4
    <3>. QED  BY <1>1, <1>2, <1>4, <2>2, <2>3, <3>1, <3>2 DEF TypeOK, Wire, botVars
  <2>5. Ends'
    <3>1. \A c \in Conns : <<>> # <<c>> /\ c # NoConn
      BY TypesThere
    <3>. QED  BY <1>1, <1>4, <2>1, <3>1 DEF Ends, botVars
  <2>6. Calls' /\ Held'
    BY <1>1, <1>4, EmptyRun, TypesThere DEF Calls, Held
  <2>. QED  BY <1>4, <2>4, <2>5, <2>6, NoPeer
<1>. QED  BY <1>3, <1>4 DEF GameDies

-----------------------------------------------------------------------------
(* The bot's steps                                                         *)

\* The shim's side while the bot moves.
HostRests ==
    /\ UNCHANGED <<mode, game, frame, paused, nEvents, match, shimVars>>
    /\ peer \in adrift' <=> peer \in adrift

LEMMA HostStays ==
    ASSUME IInv, HostRests  PROVE Calls' /\ Held'
BY DEF IInv, Core, Calls, Held, HostRests, shimVars

\* A bot that leaves the shim's connection, or was not on it.
LEMMA BotApart ==
    ASSUME IInv, HostRests, bconn' # peer, peer # NoConn => Q' = <<>> /\ R' = R
    PROVE  Channels' /\ Session'
<1>1. CASE ~Tight'
  BY <1>1, NotTight
<1>2. CASE Tight'
  <2>. USE DEF Tight
  <2>1. ToBotOK' /\ ThinkOK' /\ Session'
    BY <1>2 DEF ToBotOK, ThinkOK, Thinks, Session, Linked, HostRests, shimVars
  <2>2. ToShimOK'
    BY <1>2 DEF IInv, Core, Channels, ToShimOK, Thinks, HostRests, shimVars
  <2>. QED  BY <2>1, <2>2 DEF Channels
<1>. QED  BY <1>1, <1>2

\* The bot closes its connection, whatever it had read from it.
LEMMA BotGone ==
    ASSUME IInv, HostRests, bconn # NoConn, NEW cn \in [Conns -> Wire],
           \A d \in Conns : d # bconn => cn[d] = conn[d],
           cn[bconn].shim = conn[bconn].shim, cn[bconn].toShim = conn[bconn].toShim,
           conn' = BotCloses(cn, bconn), bconn' = NoConn, backlog' = backlog,
           bot' = "down" \/ (bot' = "connecting" /\ played' < BotGames)
    PROVE  /\ conn' \in [Conns -> Wire]
           /\ Ends' /\ Calls' /\ Channels' /\ Session' /\ Held' /\ Stale'
<1>. USE DEF IInv, Core, Tight
<1>1. bconn \in Conns /\ NoConn \notin Conns
  BY TypesThere
<1>2. /\ conn' \in [Conns -> Wire] /\ \A d \in Conns : d # bconn => conn'[d] = conn[d]
      /\ conn'[bconn].shim = conn[bconn].shim /\ conn'[bconn].bot = FALSE
      /\ conn'[bconn].toBot = <<>>
      /\ conn'[bconn].toShim = IF conn[bconn].shim THEN conn[bconn].toShim ELSE <<>>
  BY <1>1, BotClosesDoes
<1>3. UNCHANGED <<peer, shim, backlog>>
  BY DEF HostRests, shimVars
<1>4. Ends'
  BY <1>1, <1>2, <1>3 DEF Ends
<1>5. peer # NoConn => Q' = <<>> /\ R' = R /\ bconn' # peer
  BY <1>1, <1>2, <1>3, TypesThere DEF Q, R, Ends
<1>6. Channels' /\ Session'
  BY <1>1, <1>3, <1>5, BotApart, NoPeer
<1>. QED  BY <1>2, <1>4, <1>6, HostStays DEF Stale

\* What a step of the bot may leave of the rest of its state.
LEMMA BotTypes ==
    ASSUME TypeOK, HostRests, faults' \in 0..MaxFaults, thrown' = thrown,
           conn' \in [Conns -> Wire], backlog' \in Seq(Conns), bconn' \in Conns \cup {NoConn},
           bot' \in {"down", "connecting", "wait", "frame", "think"}, bgame' \in 0..Games,
           btok' \in Toks, blast' \in Toks, seen' \in Seq(1..MaxEvents),
           played' \in 0..BotGames, adrift' \subseteq Conns
    PROVE  TypeOK'
BY DEF TypeOK, Wire, HostRests, shimVars

LEMMA BotStartsInv == ASSUME IInv, BotStarts  PROVE Core' /\ Stale'
<1>. USE DEF IInv, Core, Tight
<1>1. /\ HostRests /\ bot = "down" /\ bot' = "connecting" /\ played' = 0 /\ bconn = NoConn
      /\ UNCHANGED <<backlog, conn, bconn, bgame, btok, blast, seen, faults, thrown, adrift>>
  BY DEF BotStarts, hostVars, gameVars, HostRests, Ends
<1>2. TypeOK'
  <2>1. played' \in 0..BotGames
    BY <1>1, BoundsAssumption
  <2>. QED  BY <1>1, <2>1, BotTypes, TypesThere DEF TypeOK
<1>3. Ends'
  <2>1. played' < BotGames
    BY <1>1, BoundsAssumption
  <2>. QED  BY <1>1, <2>1 DEF Ends, HostRests, shimVars
<1>4. Channels' /\ Session'
  <2>1. peer # NoConn => Q = <<>> /\ Q' = Q /\ R' = R /\ bconn' # peer
    BY <1>1, TypesThere DEF Q, R, Ends, HostRests, shimVars
  <2>. QED  BY <1>1, <2>1, BotApart, NoPeer DEF HostRests, shimVars
<1>5. Stale'
  BY <1>1 DEF Stale
<1>. QED  BY <1>1, <1>2, <1>3, <1>4, <1>5, HostStays

LEMMA BotConnectsInv == ASSUME IInv, BotConnects  PROVE Core' /\ Stale'
<1>. USE DEF IInv, Core, Tight
<1>2. PICK c \in Conns : /\ conn[c] = FreeConn
                         /\ conn' = [conn EXCEPT ![c].bot = TRUE, ![c].shim = TRUE]
                         /\ backlog' = Append(backlog, c) /\ bconn' = c
                         /\ adrift' = adrift \ {c}
  BY DEF BotConnects
<1>10. peer # c
  BY <1>2 DEF Ends, FreeConn
<1>1. /\ HostRests /\ bot = "connecting" /\ bot' = "wait" /\ backlog = <<>> /\ btok' = NoTok
      /\ bconn = NoConn
      /\ UNCHANGED <<bgame, blast, seen, played, faults, thrown>>
  BY <1>2, <1>10 DEF BotConnects, hostVars, gameVars, HostRests, Ends
<1>3. /\ conn[c].bot = FALSE /\ conn[c].shim = FALSE /\ conn[c].toBot = <<>>
      /\ conn[c].toShim = <<>> /\ backlog' = <<c>> /\ NoConn \notin Conns
  BY <1>1, <1>2, TypesThere DEF FreeConn
<1>4. /\ conn' \in [Conns -> Wire] /\ \A d \in Conns : d # c => conn'[d] = conn[d]
      /\ conn'[c].bot = TRUE /\ conn'[c].shim = TRUE
      /\ conn'[c].toBot = <<>> /\ conn'[c].toShim = <<>>
  <2>1. conn \in [Conns -> Wire] /\ conn[c] \in Wire
    BY TypesThere
  <2>. DEFINE e == [conn[c] EXCEPT !.bot = TRUE, !.shim = TRUE]
  <2>2. /\ e \in Wire /\ e.bot = TRUE /\ e.shim = TRUE /\ e.toBot = <<>> /\ e.toShim = <<>>
    BY <1>3, <2>1 DEF Wire
  <2>3. conn' = [conn EXCEPT ![c] = e]
    BY <1>2, <2>1
  <2>. HIDE DEF e
  <2>. QED  BY <2>1, <2>2, <2>3
<1>5. peer # c
  BY <1>3 DEF Ends
<1>6. Ends'
  <2>1. \A d \in Conns : <<c>> = <<d>> <=> d = c
    OBVIOUS
  <2>2. <<c>> # <<>>
    OBVIOUS
  <2>. QED  BY <1>1, <1>2, <1>3, <1>4, <1>5, <2>1, <2>2 DEF Ends, HostRests, shimVars
<1>7. Channels' /\ Session'
  <2>1. peer # NoConn => Q = <<>> /\ Q' = Q /\ R' = R
    BY <1>1, <1>4, <1>5, TypesThere DEF Q, R, Ends, HostRests, shimVars
  <2>. QED  BY <1>1, <1>2, <1>5, <2>1, BotApart
<1>8. TypeOK'
  <2>1. backlog' \in Seq(Conns)
    BY <1>3
  <2>2. adrift' \subseteq Conns
    BY <1>2 DEF TypeOK
  <2>. QED  BY <1>1, <1>2, <1>4, <2>1, <2>2, BotTypes, TokensAre, TypesThere DEF TypeOK
<1>9. Stale'
  BY <1>1, <1>2, <1>4 DEF Stale
<1>. QED  BY <1>1, <1>6, <1>7, <1>8, <1>9, HostStays

LEMMA BotDisconnectedInv == ASSUME IInv, BotDisconnected  PROVE Core' /\ Stale'
<1>. USE DEF IInv, Core, Tight
<1>1. /\ HostRests /\ bconn # NoConn /\ conn' = BotCloses(conn, bconn) /\ bconn' = NoConn
      /\ bot' = "connecting" /\ played < BotGames
      /\ UNCHANGED <<backlog, bgame, btok, blast, seen, played, faults, thrown, adrift>>
  BY DEF BotDisconnected, Reconnect, hostVars, gameVars, HostRests, Ends
<1>2. conn' \in [Conns -> Wire] /\ Ends' /\ Calls' /\ Channels' /\ Session' /\ Held' /\ Stale'
  BY <1>1, BotGone, TypesThere
<1>3. TypeOK'
  BY <1>1, <1>2, BotTypes DEF TypeOK
<1>. QED  BY <1>2, <1>3

LEMMA BotCrashesInv == ASSUME IInv, BotCrashes  PROVE Core' /\ Stale'
<1>. USE DEF IInv, Core, Tight
<1>1. /\ HostRests /\ Fault /\ bconn' = NoConn /\ bot' = "down"
      /\ conn' = (IF bconn = NoConn THEN conn ELSE BotCloses(conn, bconn))
      /\ UNCHANGED <<backlog, bgame, btok, blast, seen, played, thrown, adrift>>
  BY DEF BotCrashes, gameVars, HostRests
<1>2. CASE bconn # NoConn
  <2>1. conn' \in [Conns -> Wire] /\ Ends' /\ Calls' /\ Channels' /\ Session' /\ Held' /\ Stale'
    BY <1>1, <1>2, BotGone, TypesThere
  <2>2. TypeOK'
    BY <1>1, <2>1, BotTypes, FaultType DEF TypeOK
  <2>. QED  BY <2>1, <2>2
<1>3. CASE bconn = NoConn
  <2>1. conn' = conn /\ bconn' = bconn
    BY <1>1, <1>3
  <2>2. TypeOK'
    BY <1>1, <2>1, BotTypes, FaultType, TypesThere DEF TypeOK
  <2>3. Ends'
    BY <1>1, <1>3, <2>1 DEF Ends, HostRests, shimVars
  <2>4. Channels' /\ Session'
    <3>1. peer # NoConn => Q = <<>> /\ Q' = Q /\ R' = R /\ bconn' # peer
      BY <1>1, <1>3, <2>1, TypesThere DEF Q, R, Ends, HostRests, shimVars
    <3>. QED  BY <1>1, <3>1, BotApart, NoPeer DEF HostRests, shimVars
  <2>5. Stale'
    BY <1>1 DEF Stale
  <2>. QED  BY <1>1, <2>2, <2>3, <2>4, <2>5, HostStays
<1>. QED  BY <1>2, <1>3

\* The bot goes on with the connection it has.
LEMMA BotStays ==
    ASSUME IInv, HostRests, bconn # NoConn, backlog # <<bconn>>, conn' \in [Conns -> Wire],
           \A d \in Conns : d # bconn => conn'[d] = conn[d],
           conn'[bconn].bot = conn[bconn].bot, conn'[bconn].shim = conn[bconn].shim,
           ~conn[bconn].shim => conn'[bconn].toShim = <<>>,
           bconn' = bconn, backlog' = backlog, bot' \in {"wait", "frame", "think"},
           played' < BotGames
    PROVE  Ends'
<1>1. bconn \in Conns
  BY TypesThere DEF IInv, Core
<1>. QED  BY <1>1 DEF IInv, Core, Ends, HostRests, shimVars

\* The message the bot reads, and what is left then.
LEMMA BotTakes ==
    ASSUME IInv, bot \in {"wait", "frame"}, conn[bconn].toBot # <<>>
    PROVE  /\ bconn \in Conns /\ bconn # NoConn /\ backlog # <<bconn>> /\ played < BotGames
           /\ BotTook \in [Conns -> Wire] /\ \A d \in Conns : d # bconn => BotTook[d] = conn[d]
           /\ BotTook[bconn].bot = conn[bconn].bot /\ BotTook[bconn].shim = conn[bconn].shim
           /\ BotTook[bconn].toShim = conn[bconn].toShim
           /\ BotTook[bconn].toBot = Tail(conn[bconn].toBot)
           /\ BotHead \in ToBotMsgs /\ BotHead = conn[bconn].toBot[1]
           /\ conn[bconn].shim <=> bconn = peer
           /\ conn[bconn].toBot \in Seq(ToBotMsgs)
<1>. USE DEF IInv, Core, Tight
<1>1. bconn \in Conns /\ bconn # NoConn /\ backlog # <<bconn>> /\ played < BotGames
      /\ (conn[bconn].shim <=> bconn = peer)
  BY TypesThere DEF Ends
<1>2. conn \in [Conns -> Wire] /\ conn[bconn].toBot \in Seq(ToBotMsgs)
  BY <1>1, TypesThere
<1>3. Head(conn[bconn].toBot) = conn[bconn].toBot[1]
  BY <1>2, Taken
<1>4. /\ BotTook \in [Conns -> Wire] /\ \A d \in Conns : d # bconn => BotTook[d] = conn[d]
      /\ BotTook[bconn].bot = conn[bconn].bot /\ BotTook[bconn].shim = conn[bconn].shim
      /\ BotTook[bconn].toShim = conn[bconn].toShim
      /\ BotTook[bconn].toBot = Tail(conn[bconn].toBot)
      /\ BotHead \in ToBotMsgs
  BY <1>1, <1>2, TakeToBot DEF BotTook, BotHead
<1>. QED  BY <1>1, <1>2, <1>3, <1>4 DEF BotHead

\* Reading from a connection that the shim has left.
LEMMA StaleTaken ==
    ASSUME IInv, bot \in {"wait", "frame"}, conn[bconn].toBot # <<>>, bconn' = bconn, peer' = peer,
           adrift' = adrift, conn'[bconn].toBot = Tail(conn[bconn].toBot),
           \/ bot' = "wait"
           \/ /\ BotHead.type = "GameStart" /\ bot' = "frame"
              /\ seen' = <<>> /\ bgame' = BotHead.game /\ blast' = NoTok
    PROVE  Stale'
<1>1. CASE bconn = peer \/ bconn \in adrift
  BY <1>1 DEF Stale
<1>2. CASE bconn # peer /\ bconn \notin adrift
  <2>. DEFINE B == conn[bconn].toBot
              T == Tail(B)
  <2>1. bconn # NoConn /\ B \in Seq(ToBotMsgs) /\ B # <<>>
    BY BotTakes
  <2>2. /\ \A i \in DOMAIN B : /\ B[i].type = "Frame" => i = Len(B)
                               /\ B[i].type = "GameStart" => i = 1
        /\ Len(B) = 2 /\ B[1].type = "GameStart" /\ B[2].type = "Frame" =>
             B[2].tok[1] = B[1].game
    BY <1>2, <2>1 DEF IInv, Stale
  <2>3. conn'[bconn'].toBot = T /\ BotHead = B[1]
    BY BotTakes
  <2>. HIDE DEF B
  <2>4. /\ T \in Seq(ToBotMsgs) /\ Len(B) \in Nat \ {0} /\ Len(T) = Len(B) - 1
        /\ DOMAIN B = 1..Len(B) /\ DOMAIN T = 1..(Len(B) - 1)
        /\ \A i \in 1..(Len(B) - 1) : T[i] = B[i + 1]
        /\ T = <<>> <=> Len(B) = 1
    BY <2>1, Taken
  <2>. HIDE DEF T
  <2>5. \A i \in DOMAIN T : (T[i].type = "Frame" => i = Len(T)) /\ T[i].type # "GameStart"
    <3>1. \A i \in DOMAIN T : i + 1 \in DOMAIN B /\ T[i] = B[i + 1] /\ i + 1 # 1
      BY <2>4
    <3>. QED  BY <2>2, <2>4, <3>1
  <2>7. B[1].type = "GameStart" /\ T # <<>> /\ T[1].type = "Frame" => T[1].tok[1] = B[1].game
    <3>. SUFFICES ASSUME B[1].type = "GameStart", T # <<>>, T[1].type = "Frame"
                  PROVE  T[1].tok[1] = B[1].game
      OBVIOUS
    <3>1. Len(T) = 1 /\ T[1] = B[2]
      BY <2>4, <2>5
    <3>. QED  BY <2>2, <2>4, <3>1
  <2>8. Len(T) = 2 => T[1].type # "GameStart"
    <3>. SUFFICES ASSUME Len(T) = 2  PROVE T[1].type # "GameStart"
      OBVIOUS
    <3>1. Len(B) - 1 = 2
      BY <2>4
    <3>2. DOMAIN T = 1..2
      BY <2>4, <3>1
    <3>3. 1 \in DOMAIN T
      BY <3>2
    <3>. QED  BY <2>5, <3>3
  <2>. QED  BY <2>1, <2>3, <2>5, <2>7, <2>8 DEF Stale
<1>. QED  BY <1>1, <1>2

\* A Hello is answered, wherever it was read.
LEMMA HelloAnswered ==
    ASSUME IInv, HostRests, bconn = peer, Tight, Q # <<>>, Q[1].type = "Hello",
           NEW k \in Skips, Q' = Tail(Q), R' = Append(R, Config(k)), bot' = "wait", bconn' = bconn
    PROVE  Channels' /\ Session'
<1>. USE DEF IInv, Core, Tight
<1>1. Len(Q) \in Nat \ {0} /\ DOMAIN Q = 1..Len(Q) /\ 1 \in DOMAIN Q
  BY View
<1>2. shim = "config" /\ Len(Q) = 1 /\ R = <<>>
  BY <1>1 DEF Channels, ToBotOK
<1>3. Q' = <<>>
  BY <1>2, View, Taken
<1>4. R' = <<Config(k)>> /\ Config(k).type = "ClientConfig"
  BY <1>2, MessageTypes
<1>5. R' # <<>> /\ Len(R') = 1 /\ R'[1] = Config(k) /\ DOMAIN R' = {1}
  BY <1>4
<1>6. ToBotOK' /\ ToShimOK' /\ ThinkOK'
  BY <1>2, <1>3, <1>4, <1>5
     DEF ToBotOK, ToShimOK, ThinkOK, Thinks, HostRests, shimVars
<1>7. ~Open'
  BY <1>3 DEF Open
<1>8. Session'
  BY <1>2, <1>7 DEF Session, HostRests, shimVars
<1>. QED  BY <1>6, <1>8 DEF Channels

\* A message that opens no match and is not for one.
LEMMA MessageSkipped ==
    ASSUME IInv, HostRests, bconn = peer, Tight, Q # <<>>, Q' = Tail(Q), R' = R,
           Q[1].type = "GameEnd" \/ (Q[1].type = "Frame" /\ bot = "wait"),
           bot \in {"wait", "frame"}, bot' = "wait",
           UNCHANGED <<bconn, btok, blast, thrown, adrift>>
    PROVE  Channels' /\ Session'
<1>. USE DEF IInv, Core, Tight
<1>1. /\ Len(Q) \in Nat \ {0} /\ Len(Q') = Len(Q) - 1
      /\ DOMAIN Q = 1..Len(Q) /\ DOMAIN Q' = 1..(Len(Q) - 1)
      /\ \A i \in 1..(Len(Q) - 1) : Q'[i] = Q[i + 1]
      /\ Q' = <<>> <=> Len(Q) = 1
  BY View, Taken
<1>2. \A i \in DOMAIN Q' : i + 1 \in DOMAIN Q /\ Q'[i] = Q[i + 1] /\ i + 1 # 1
  BY <1>1
<1>3. UNCHANGED <<peer, shim, game, frame, match, mode>>
  BY DEF HostRests, shimVars
<1>4. ToBotOK'
  BY <1>1, <1>2, <1>3 DEF Channels, ToBotOK, Thinks
<1>5. ToShimOK' /\ ThinkOK'
  <2>1. shim = "config" /\ R = <<>> => Q' # <<>> /\ Q'[Len(Q')].type = "Hello"
    BY <1>1 DEF Channels, ToShimOK
  <2>. QED  BY <1>3, <2>1 DEF Channels, ToShimOK, ThinkOK, Thinks
<1>6. ~Open /\ ~Open'
  <2>1. ~Open
    BY <1>1 DEF Open
  <2>2. \A i \in DOMAIN Q' : Q'[i].type # "GameStart"
    BY <1>2, <1>3 DEF Channels, ToBotOK
  <2>3. Q' # <<>> => 1 \in DOMAIN Q'
    BY <1>1
  <2>. QED  BY <2>1, <2>2, <2>3 DEF Open
<1>7. Session'
  BY <1>3, <1>6 DEF Session, Linked
<1>. QED  BY <1>4, <1>5, <1>7 DEF Channels

\* The GameStart that the bot waits for.
LEMMA SessionStarts ==
    ASSUME IInv, HostRests, bconn = peer, Tight, Q # <<>>, Q[1].type = "GameStart",
           Q' = Tail(Q), R' = R, bot = "wait", bot' = "frame", bgame' = Q[1].game,
           blast' = NoTok, seen' = <<>>, UNCHANGED <<bconn, pending, answers, nEvents, thrown, adrift>>
    PROVE  Channels' /\ Session'
<1>. USE DEF IInv, Core, Tight
<1>1. /\ Len(Q) \in Nat \ {0} /\ Len(Q') = Len(Q) - 1
      /\ DOMAIN Q = 1..Len(Q) /\ DOMAIN Q' = 1..(Len(Q) - 1)
      /\ \A i \in 1..(Len(Q) - 1) : Q'[i] = Q[i + 1]
      /\ Q' = <<>> <=> Len(Q) = 1
  BY View, Taken
<1>2. \A i \in DOMAIN Q' : i + 1 \in DOMAIN Q /\ Q'[i] = Q[i + 1] /\ i + 1 # 1
  BY <1>1
<1>3. UNCHANGED <<peer, shim, game, frame, match, mode>>
  BY DEF HostRests, shimVars
<1>4. ToBotOK'
  BY <1>1, <1>2, <1>3 DEF Channels, ToBotOK, Thinks
<1>5. ToShimOK' /\ ThinkOK'
  <2>1. shim = "config" /\ R = <<>> => Q' # <<>> /\ Q'[Len(Q')].type = "Hello"
    BY <1>1 DEF Channels, ToShimOK
  <2>. QED  BY <1>3, <2>1 DEF Channels, ToShimOK, ThinkOK, Thinks
<1>6. Open' <=> Open
  <2>1. \A i \in DOMAIN Q : i > 1 => i - 1 \in DOMAIN Q' /\ Q'[i - 1] = Q[i]
    BY <1>1
  <2>2. \A i \in DOMAIN Q' : i + 1 > 1
    BY <1>1
  <2>. QED  BY <1>1, <1>2, <2>1, <2>2 DEF Open
<1>7. OpenGame' = OpenGame /\ OpenSeen' = OpenSeen /\ OpenLast' = OpenLast
      /\ FrameEvents' = FrameEvents /\ OpenRun' = OpenRun
  <2>1. FrameEvents' = FrameEvents
    <3>1. CASE Q' = <<>>
      BY <1>1, <3>1 DEF FrameEvents
    <3>2. CASE Q' # <<>>
      <4>1. Q'[Len(Q')] = Q[Len(Q)]
        BY <1>1, <3>2
      <4>. QED  BY <3>2, <4>1 DEF FrameEvents
    <3>. QED  BY <3>1, <3>2
  <2>. QED  BY <2>1 DEF OpenGame, OpenSeen, OpenLast, OpenRun
<1>8. Session'
  BY <1>2, <1>3, <1>6, <1>7 DEF Session, Linked
<1>. QED  BY <1>4, <1>5, <1>8 DEF Channels

\* The Frame that the bot reads in a match.
LEMMA FrameRead ==
    ASSUME IInv, HostRests, bconn = peer, Tight, Q # <<>>, Q[1].type = "Frame",
           Q' = Tail(Q), R' = R, bot = "frame", bot' = "think", btok' = Q[1].tok,
           seen' = seen \o Q[1].events,
           UNCHANGED <<bconn, bgame, blast, pending, answers, nEvents, thrown, adrift>>
    PROVE  Channels' /\ Session'
<1>. USE DEF IInv, Core, Tight
<1>1. Len(Q) \in Nat \ {0} /\ DOMAIN Q = 1..Len(Q) /\ 1 \in DOMAIN Q /\ Q[1] \in ToBotMsgs
  BY View
<1>2. shim = "commands" /\ Len(Q) = 1 /\ R = <<>> /\ Q[1].tok = <<game, frame>>
  BY <1>1 DEF Channels, ToBotOK
<1>3. Q' = <<>> /\ match = "running"
  BY <1>2, View, Taken DEF Calls
<1>4. UNCHANGED <<peer, shim, game, frame, match, mode>>
  BY DEF HostRests, shimVars
<1>5. ToBotOK' /\ ToShimOK' /\ ThinkOK'
  BY <1>2, <1>3, <1>4 DEF ToBotOK, ToShimOK, ThinkOK, Thinks
<1>6. Open /\ Open'
  BY <1>1, <1>2, <1>3 DEF Open
<1>7. FrameEvents = Q[1].events /\ FrameEvents' = <<>>
  BY <1>2, <1>3 DEF FrameEvents
<1>8. /\ seen \in Seq(1..MaxEvents) /\ Q[1].events \in Seq(1..MaxEvents)
      /\ pending \in Seq(1..MaxEvents)
  BY <1>1, ToBotKinds, EventSeqsAre, TypesThere
<1>9. OpenRun' = OpenRun /\ OpenRun = (seen \o Q[1].events) \o pending
  <2>1. (seen \o Q[1].events) \o <<>> = seen \o Q[1].events
    BY <1>8, ConcatProperties, ConcatEmptySeq
  <2>. QED  BY <1>7, <2>1 DEF OpenRun, OpenSeen
<1>11. Session'
  <2>1. OpenGame' = OpenGame /\ OpenLast' = OpenLast
    BY DEF OpenGame, OpenLast
  <2>2. \A i \in DOMAIN Q' : FALSE
    BY <1>3
  <2>. QED  BY <1>3, <1>4, <1>6, <1>9, <2>1, <2>2 DEF Session, Linked
<1>. QED  BY <1>5, <1>11 DEF Channels

\* The bot takes a Hello and sends its ClientConfig, or finds the connection dead.
LEMMA AnswersHello ==
    ASSUME IInv, HostRests, bot \in {"wait", "frame"}, conn[bconn].toBot # <<>>,
           BotHead.type = "Hello", NEW k \in Skips, BotSends(BotTook, Config(k), "wait"),
           played' \in 0..BotGames, played' < BotGames,
           UNCHANGED <<backlog, bgame, btok, blast, seen, faults, thrown, adrift>>
    PROVE  Core' /\ Stale'
<1>. USE DEF IInv, Core, Tight
<1>1. /\ bconn \in Conns /\ bconn # NoConn /\ backlog # <<bconn>>
      /\ BotTook \in [Conns -> Wire] /\ \A d \in Conns : d # bconn => BotTook[d] = conn[d]
      /\ BotTook[bconn].bot = conn[bconn].bot /\ BotTook[bconn].shim = conn[bconn].shim
      /\ BotTook[bconn].toShim = conn[bconn].toShim
      /\ BotTook[bconn].toBot = Tail(conn[bconn].toBot)
      /\ BotHead = conn[bconn].toBot[1]
      /\ conn[bconn].shim <=> bconn = peer
  BY BotTakes
<1>2. peer' = peer /\ Config(k) \in ToShimMsgs /\ (~conn[bconn].shim => conn[bconn].toShim = <<>>)
  BY <1>1, MessagesThere DEF Ends, HostRests, shimVars
<1>3. CASE conn' = ToShim(BotTook, bconn, Config(k)) /\ bot' = "wait" /\ bconn' = bconn
  <2>1. /\ conn' \in [Conns -> Wire] /\ \A d \in Conns : d # bconn => conn'[d] = BotTook[d]
        /\ conn'[bconn].bot = BotTook[bconn].bot /\ conn'[bconn].shim = BotTook[bconn].shim
        /\ conn'[bconn].toBot = BotTook[bconn].toBot
        /\ conn'[bconn].toShim = IF BotTook[bconn].shim
                                 THEN Append(BotTook[bconn].toShim, Config(k))
                                 ELSE BotTook[bconn].toShim
    BY <1>1, <1>2, <1>3, ToShimDoes
  <2>2. Ends'
    BY <1>1, <1>2, <1>3, <2>1, BotStays
  <2>3. Channels' /\ Session'
    <3>1. CASE ~Tight'
      BY <3>1, NotTight
    <3>2. CASE Tight' /\ bconn # peer
      <4>1. Q' = <<>> /\ R' = R
        BY <1>1, <1>2, <2>1, <3>2, TypesThere DEF Q, R, Ends
      <4>. QED  BY <1>3, <3>2, <4>1, BotApart
    <3>3. CASE Tight' /\ bconn = peer
      <4>2. Tight
        BY <1>2, <3>3 DEF HostRests
      <4>1. Q # <<>> /\ Q[1].type = "Hello" /\ Q' = Tail(Q) /\ R' = Append(R, Config(k))
        BY <1>1, <1>2, <2>1, <3>3 DEF Q, R
      <4>. QED  BY <1>3, <3>3, <4>1, <4>2, HelloAnswered
    <3>. QED  BY <3>1, <3>2, <3>3
  <2>4. TypeOK'
    BY <1>1, <1>3, <2>1, BotTypes DEF TypeOK
  <2>5. Stale'
    BY <1>1, <1>2, <1>3, <2>1, StaleTaken
  <2>. QED  BY <2>2, <2>3, <2>4, <2>5, HostStays
<1>4. CASE ~BotTook[bconn].shim /\ Reconnect(BotTook)
  <2>1. conn' = BotCloses(BotTook, bconn) /\ bconn' = NoConn /\ bot' = "connecting"
    BY <1>4 DEF Reconnect
  <2>2. conn' \in [Conns -> Wire] /\ Ends' /\ Calls' /\ Channels' /\ Session' /\ Held' /\ Stale'
    BY <1>1, <2>1, BotGone
  <2>3. TypeOK'
    BY <2>1, <2>2, BotTypes DEF TypeOK
  <2>. QED  BY <2>2, <2>3
<1>. QED  BY <1>3, <1>4 DEF BotSends

LEMMA BotWaitsInv == ASSUME IInv, BotWaits  PROVE Core' /\ Stale'
<1>. USE DEF IInv, Core, Tight
<1>1. /\ HostRests /\ bot = "wait" /\ conn[bconn].toBot # <<>>
      /\ UNCHANGED <<backlog, btok, played, faults, thrown, adrift, peer, pending, answers, nEvents>>
  BY DEF BotWaits, hostVars, gameVars, shimVars, HostRests
<1>2. \/ /\ BotHead.type = "Hello" /\ \E k \in Skips : BotSends(BotTook, Config(k), "wait")
         /\ UNCHANGED <<bgame, blast, seen>>
      \/ /\ BotHead.type = "GameStart" /\ BotStartsMatch(BotHead.game)
         /\ conn' = BotTook /\ bot' = "frame" /\ bconn' = bconn
      \/ /\ BotHead.type \in {"GameEnd", "Frame"}
         /\ conn' = BotTook /\ UNCHANGED <<bot, bconn, bgame, blast, seen>>
  BY DEF BotWaits
<1>3. /\ bconn \in Conns /\ bconn # NoConn /\ backlog # <<bconn>> /\ played < BotGames
      /\ BotTook \in [Conns -> Wire] /\ \A d \in Conns : d # bconn => BotTook[d] = conn[d]
      /\ BotTook[bconn].bot = conn[bconn].bot /\ BotTook[bconn].shim = conn[bconn].shim
      /\ BotTook[bconn].toShim = conn[bconn].toShim
      /\ BotTook[bconn].toBot = Tail(conn[bconn].toBot)
      /\ BotHead \in ToBotMsgs /\ BotHead = conn[bconn].toBot[1]
      /\ conn[bconn].shim <=> bconn = peer
  BY <1>1, BotTakes
<1>4. ~conn[bconn].shim => conn[bconn].toShim = <<>>
  BY <1>3 DEF Ends
<1>5. ASSUME conn' = BotTook, bconn' = bconn, bot' \in {"wait", "frame"}
      PROVE  Ends' /\ (peer # NoConn /\ bconn # peer => Channels' /\ Session')
             /\ (bconn = peer => Q' = Tail(Q) /\ R' = R)
  <2>1. Ends'
    BY <1>1, <1>3, <1>4, <1>5, BotStays
  <2>2. peer # NoConn /\ bconn # peer => Q' = <<>> /\ R' = R
    BY <1>1, <1>3, <1>5, TypesThere DEF Q, R, Ends
  <2>3. bconn = peer => Q' = Tail(Q) /\ R' = R
    BY <1>1, <1>3, <1>5 DEF Q, R
  <2>. QED  BY <1>1, <1>5, <2>1, <2>2, <2>3, BotApart
<1>6. CASE BotHead.type = "Hello"
  <2>1. PICK k \in Skips : BotSends(BotTook, Config(k), "wait")
    BY <1>2, <1>6
  <2>2. UNCHANGED <<bgame, blast, seen>> /\ played \in 0..BotGames
    BY <1>2, <1>6 DEF TypeOK
  <2>. QED  BY <1>1, <1>3, <1>6, <2>1, <2>2, AnswersHello
<1>7. CASE BotHead.type = "GameStart"
  <2>1. /\ bgame' = BotHead.game /\ blast' = NoTok /\ seen' = <<>>
        /\ conn' = BotTook /\ bot' = "frame" /\ bconn' = bconn
    BY <1>2, <1>7 DEF BotStartsMatch
  <2>2. Ends' /\ (peer # NoConn /\ bconn # peer => Channels' /\ Session')
        /\ (bconn = peer => Q' = Tail(Q) /\ R' = R)
    BY <1>5, <2>1
  <2>3. Tight /\ bconn = peer => Channels' /\ Session'
    <3>1. bconn = peer => Q # <<>> /\ Q[1] = BotHead
      BY <1>1, <1>3 DEF Q
    <3>. QED  BY <1>1, <1>3, <1>7, <2>1, <2>2, <3>1, SessionStarts
  <2>4. Channels' /\ Session'
    BY <1>1, <2>2, <2>3, NotTight
  <2>5. TypeOK'
    <3>1. BotHead.game \in 1..Games /\ NoTok \in Toks /\ <<>> \in Seq(1..MaxEvents)
      BY <1>3, <1>7, ToBotKinds, TokensAre, EmptySeq
    <3>2. BotHead.game \in 0..Games
      BY <3>1, BoundsAssumption
    <3>. QED  BY <1>1, <1>3, <2>1, <3>1, <3>2, BotTypes DEF TypeOK
  <2>6. Stale'
    BY <1>1, <1>3, <1>7, <2>1, StaleTaken
  <2>. QED  BY <1>1, <2>2, <2>4, <2>5, <2>6, HostStays
<1>8. CASE BotHead.type \in {"GameEnd", "Frame"}
  <2>1. conn' = BotTook /\ UNCHANGED <<bot, bconn, bgame, blast, seen>>
    BY <1>2, <1>8
  <2>2. Ends' /\ (peer # NoConn /\ bconn # peer => Channels' /\ Session')
        /\ (bconn = peer => Q' = Tail(Q) /\ R' = R)
    BY <1>1, <1>5, <2>1
  <2>3. Tight /\ bconn = peer => Channels' /\ Session'
    <3>1. bconn = peer => Q # <<>> /\ Q[1] = BotHead
      BY <1>1, <1>3 DEF Q
    <3>. QED  BY <1>1, <1>3, <1>8, <2>1, <2>2, <3>1, MessageSkipped
  <2>4. Channels' /\ Session'
    BY <1>1, <2>2, <2>3, NotTight
  <2>5. TypeOK'
    BY <1>1, <1>3, <2>1, BotTypes DEF TypeOK
  <2>6. Stale'
    BY <1>1, <1>3, <2>1, StaleTaken
  <2>. QED  BY <1>1, <2>2, <2>4, <2>5, <2>6, HostStays
<1>. QED  BY <1>2, <1>6, <1>7, <1>8

LEMMA BotReadsInv == ASSUME IInv, BotReads  PROVE Core' /\ Stale'
<1>. USE DEF IInv, Core, Tight
<1>1. /\ HostRests /\ bot = "frame" /\ conn[bconn].toBot # <<>>
      /\ UNCHANGED <<backlog, faults, thrown, adrift, peer, pending, answers, nEvents, bgame, blast>>
  BY DEF BotReads, hostVars, gameVars, shimVars, HostRests
<1>2. \/ /\ BotHead.type = "Frame"
         /\ btok' = BotHead.tok /\ seen' = seen \o BotHead.events
         /\ conn' = BotTook /\ bot' = "think" /\ UNCHANGED <<bconn, played>>
      \/ BotHead.type = "GameEnd" /\ BotEndsMatch(FALSE)
      \/ BotHead.type = "Hello" /\ BotEndsMatch(TRUE)
  BY DEF BotReads
<1>3. /\ bconn \in Conns /\ bconn # NoConn /\ backlog # <<bconn>> /\ played < BotGames
      /\ BotTook \in [Conns -> Wire] /\ \A d \in Conns : d # bconn => BotTook[d] = conn[d]
      /\ BotTook[bconn].bot = conn[bconn].bot /\ BotTook[bconn].shim = conn[bconn].shim
      /\ BotTook[bconn].toShim = conn[bconn].toShim
      /\ BotTook[bconn].toBot = Tail(conn[bconn].toBot)
      /\ BotHead \in ToBotMsgs /\ BotHead = conn[bconn].toBot[1]
      /\ conn[bconn].shim <=> bconn = peer
      /\ conn[bconn].toBot \in Seq(ToBotMsgs)
  BY <1>1, BotTakes
<1>4. ~conn[bconn].shim => conn[bconn].toShim = <<>>
  BY <1>3 DEF Ends
<1>5. ASSUME conn' = BotTook, bconn' = bconn, bot' \in {"wait", "think"}, played' < BotGames
      PROVE  Ends' /\ (peer # NoConn /\ bconn # peer => Channels' /\ Session')
             /\ (bconn = peer => Q' = Tail(Q) /\ R' = R)
  <2>1. Ends'
    BY <1>1, <1>3, <1>4, <1>5, BotStays
  <2>2. peer # NoConn /\ bconn # peer => Q' = <<>> /\ R' = R
    BY <1>1, <1>3, <1>5, TypesThere DEF Q, R, Ends
  <2>3. bconn = peer => Q' = Tail(Q) /\ R' = R
    BY <1>1, <1>3, <1>5 DEF Q, R
  <2>. QED  BY <1>1, <1>5, <2>1, <2>2, <2>3, BotApart
<1>6. bconn = peer => Q # <<>> /\ Q[1] = BotHead
  BY <1>1, <1>3 DEF Q
<1>7. CASE BotHead.type = "Frame"
  <2>1. /\ btok' = BotHead.tok /\ seen' = seen \o BotHead.events
        /\ conn' = BotTook /\ bot' = "think" /\ UNCHANGED <<bconn, played>>
    BY <1>2, <1>7
  <2>2. Ends' /\ (peer # NoConn /\ bconn # peer => Channels' /\ Session')
        /\ (bconn = peer => Q' = Tail(Q) /\ R' = R)
    BY <1>3, <1>5, <2>1
  <2>3. Tight /\ bconn = peer => Channels' /\ Session'
    BY <1>1, <1>3, <1>6, <1>7, <2>1, <2>2, FrameRead
  <2>4. Channels' /\ Session'
    BY <1>1, <2>2, <2>3, NotTight
  <2>. DEFINE B == conn[bconn].toBot
  <2>5. bconn # peer /\ bconn \notin adrift => conn'[bconn].toBot = <<>>
    <3>. SUFFICES ASSUME bconn # peer, bconn \notin adrift  PROVE conn'[bconn].toBot = <<>>
      OBVIOUS
    <3>. HIDE DEF B
    <3>1. B \in Seq(ToBotMsgs) /\ B # <<>> /\ B[1] = BotHead
      BY <1>1, <1>3 DEF B
    <3>2. Len(B) \in Nat \ {0} /\ DOMAIN B = 1..Len(B) /\ (Tail(B) = <<>> <=> Len(B) = 1)
      BY <3>1, Taken
    <3>3. Len(B) = 1
      BY <1>1, <1>3, <1>7, <3>1, <3>2 DEF Stale, B
    <3>4. conn'[bconn].toBot = Tail(B)
      BY <1>3, <2>1 DEF B
    <3>. QED  BY <3>2, <3>3, <3>4
  <2>6. TypeOK'
    <3>2. BotHead.events \in Seq(1..MaxEvents) /\ BotHead.tok \in Toks
      BY <1>3, <1>7, ToBotKinds, TokensAre, EventSeqsAre
    <3>1. btok' \in Toks /\ seen' \in Seq(1..MaxEvents)
      BY <2>1, <3>2, ConcatProperties, TypesThere
    <3>. QED  BY <1>1, <1>3, <2>1, <3>1, BotTypes DEF TypeOK
  <2>7. Stale'
    <3>1. bconn' = bconn /\ peer' = peer /\ adrift' = adrift
      BY <1>1, <2>1
    <3>2. bconn # peer /\ bconn \notin adrift => conn'[bconn'].toBot = <<>>
      BY <2>1, <2>5
    <3>. QED  BY <3>1, <3>2 DEF Stale
  <2>. QED  BY <1>1, <2>2, <2>4, <2>6, <2>7, HostStays
<1>8. CASE BotHead.type \in {"GameEnd", "Hello"}
  <2>1. /\ played' = played + 1 /\ UNCHANGED <<btok, seen>>
        /\ IF played + 1 >= BotGames
           THEN conn' = BotCloses(BotTook, bconn) /\ bconn' = NoConn /\ bot' = "down"
           ELSE NextMatch(BotHead.type = "Hello")
    BY <1>2, <1>8 DEF BotEndsMatch
  <2>2. played' \in 0..BotGames /\ (~(played + 1 >= BotGames) => played' < BotGames)
    BY <1>3, <2>1, BoundsAssumption DEF TypeOK
  <2>3. CASE played + 1 >= BotGames
    <3>1. conn' = BotCloses(BotTook, bconn) /\ bconn' = NoConn /\ bot' = "down"
      BY <2>1, <2>3
    <3>2. conn' \in [Conns -> Wire] /\ Ends' /\ Calls' /\ Channels' /\ Session' /\ Held' /\ Stale'
      BY <1>1, <1>3, <3>1, BotGone
    <3>3. TypeOK'
      BY <1>1, <2>1, <2>2, <3>1, <3>2, BotTypes DEF TypeOK
    <3>. QED  BY <3>2, <3>3
  <2>4. CASE ~(played + 1 >= BotGames) /\ BotHead.type = "Hello"
    <3>1. PICK k \in Skips : BotSends(BotTook, Config(k), "wait")
      BY <2>1, <2>4 DEF NextMatch
    <3>. QED  BY <1>1, <2>1, <2>2, <2>4, <3>1, AnswersHello
  <2>5. CASE ~(played + 1 >= BotGames) /\ BotHead.type # "Hello"
    <3>1. conn' = BotTook /\ bot' = "wait" /\ bconn' = bconn /\ BotHead.type = "GameEnd"
      BY <1>8, <2>1, <2>5 DEF NextMatch
    <3>2. Ends' /\ (peer # NoConn /\ bconn # peer => Channels' /\ Session')
          /\ (bconn = peer => Q' = Tail(Q) /\ R' = R)
      BY <1>5, <2>2, <2>5, <3>1
    <3>3. Tight /\ bconn = peer => Channels' /\ Session'
      BY <1>1, <1>3, <1>6, <2>1, <3>1, <3>2, MessageSkipped
    <3>4. Channels' /\ Session'
      BY <1>1, <3>2, <3>3, NotTight
    <3>5. TypeOK'
      BY <1>1, <1>3, <2>1, <2>2, <3>1, BotTypes DEF TypeOK
    <3>6. Stale'
      BY <1>1, <1>3, <3>1, StaleTaken
    <3>. QED  BY <1>1, <3>2, <3>4, <3>5, <3>6, HostStays
  <2>. QED  BY <2>3, <2>4, <2>5
<1>. QED  BY <1>2, <1>7, <1>8

\* What a bot that thinks knows of its connection.
LEMMA WhenThinking ==
    ASSUME IInv, bot = "think"
    PROVE  /\ bconn \in Conns /\ bconn # NoConn /\ backlog # <<bconn>> /\ played < BotGames
           /\ conn[bconn].shim <=> bconn = peer
           /\ conn[bconn].toBot = <<>> \/ bconn \in adrift
           /\ ~conn[bconn].shim => conn[bconn].toShim = <<>>
           /\ Linked => /\ shim = "commands" /\ btok = <<game, frame>> /\ Q = <<>>
                        /\ \A i \in DOMAIN R : R[i].type # "Commands"
<1>. USE DEF IInv, Core, Tight
<1>1. bconn \in Conns /\ bconn # NoConn /\ backlog # <<bconn>> /\ played < BotGames
      /\ (conn[bconn].shim <=> bconn = peer)
      /\ (~conn[bconn].shim => conn[bconn].toShim = <<>>)
  BY TypesThere DEF Ends
<1>2. Linked => /\ shim = "commands" /\ btok = <<game, frame>> /\ Q = <<>>
                /\ \A i \in DOMAIN R : R[i].type # "Commands"
  BY <1>1 DEF Channels, ThinkOK, ToShimOK, Thinks, Linked
<1>3. conn[bconn].toBot = <<>> \/ bconn \in adrift
  BY <1>1, <1>2 DEF Stale, Q, Linked
<1>. QED  BY <1>1, <1>2, <1>3

LEMMA BotSendsConfigInv == ASSUME IInv, BotSendsConfig  PROVE Core' /\ Stale'
<1>. USE DEF IInv, Core, Tight
<1>1. /\ HostRests /\ bot = "think" /\ conn[bconn].toShim = <<>> /\ conn[bconn].toBot = <<>>
      /\ UNCHANGED <<backlog, faults, thrown, adrift, peer, pending, answers, nEvents, bgame, btok, blast,
                     seen, played, shim, game, frame, match, mode>>
  BY DEF BotSendsConfig, hostVars, gameVars, shimVars, HostRests
<1>2. /\ bconn \in Conns /\ bconn # NoConn /\ backlog # <<bconn>> /\ played < BotGames
      /\ conn[bconn].shim <=> bconn = peer
      /\ Linked => shim = "commands" /\ btok = <<game, frame>> /\ Q = <<>>
  BY <1>1, WhenThinking
<1>3. PICK k \in Skips : BotSends(conn, Config(k), "think")
  BY DEF BotSendsConfig
<1>4. CASE conn' = ToShim(conn, bconn, Config(k)) /\ bot' = "think" /\ bconn' = bconn
  <2>1. /\ conn' \in [Conns -> Wire] /\ \A d \in Conns : d # bconn => conn'[d] = conn[d]
        /\ conn'[bconn].bot = conn[bconn].bot /\ conn'[bconn].shim = conn[bconn].shim
        /\ conn'[bconn].toBot = conn[bconn].toBot
        /\ conn'[bconn].toShim = IF conn[bconn].shim
                                 THEN Append(conn[bconn].toShim, Config(k))
                                 ELSE conn[bconn].toShim
    BY <1>2, <1>4, TypesThere, MessagesThere, ToShimDoes
  <2>2. Ends'
    BY <1>1, <1>2, <1>4, <2>1, BotStays
  <2>3. Channels' /\ Session'
    <3>1. CASE ~Tight'
      BY <3>1, NotTight
    <3>2. CASE Tight' /\ bconn # peer
      <4>1. Q' = <<>> /\ R' = R
        BY <1>1, <1>2, <2>1, <3>2, TypesThere DEF Q, R, Ends
      <4>. QED  BY <1>1, <1>4, <3>2, <4>1, BotApart
    <3>3. CASE Tight' /\ bconn = peer
      <4>6. Linked
        BY <1>1, <3>3 DEF Linked, HostRests
      <4>1. R' = <<Config(k)>> /\ Q' = <<>> /\ Q = <<>> /\ shim = "commands"
        <5>1. conn'[peer].toShim = Append(<<>>, Config(k))
          BY <1>1, <1>2, <2>1, <3>3
        <5>. QED  BY <1>1, <1>2, <2>1, <3>3, <4>6, <5>1 DEF Q, R
      <4>2. \A i \in DOMAIN R' : R'[i].type = "ClientConfig"
        BY <4>1, MessageTypes
      <4>3. ToBotOK' /\ ToShimOK' /\ ThinkOK'
        BY <1>1, <1>2, <1>4, <3>3, <4>1, <4>2, <4>6 DEF ToBotOK, ToShimOK, ThinkOK, Thinks
      <4>4. /\ Open' = Open /\ Linked' = Linked /\ OpenGame' = OpenGame /\ OpenLast' = OpenLast
            /\ OpenRun' = OpenRun
        BY <1>1, <1>4, <3>3, <4>1
           DEF Open, Linked, OpenGame, OpenLast, OpenSeen, FrameEvents, OpenRun
      <4>5. Session'
        BY <1>1, <4>1, <4>4 DEF Session
      <4>. QED  BY <4>3, <4>5 DEF Channels
    <3>. QED  BY <3>1, <3>2, <3>3
  <2>4. TypeOK'
    BY <1>1, <1>2, <1>4, <2>1, BotTypes DEF TypeOK
  <2>5. Stale'
    BY <1>1, <1>2, <1>4, <2>1 DEF Stale
  <2>. QED  BY <1>1, <2>2, <2>3, <2>4, <2>5, HostStays
<1>5. CASE ~conn[bconn].shim /\ Reconnect(conn)
  <2>1. conn' = BotCloses(conn, bconn) /\ bconn' = NoConn /\ bot' = "connecting"
    BY <1>5 DEF Reconnect
  <2>2. conn' \in [Conns -> Wire] /\ Ends' /\ Calls' /\ Channels' /\ Session' /\ Held' /\ Stale'
    BY <1>1, <1>2, <2>1, BotGone, TypesThere
  <2>3. TypeOK'
    BY <1>1, <2>1, <2>2, BotTypes DEF TypeOK
  <2>. QED  BY <2>2, <2>3
<1>. QED  BY <1>3, <1>4, <1>5 DEF BotSends

LEMMA BotAnswersInv == ASSUME IInv, BotAnswers  PROVE Core' /\ Stale'
<1>. USE DEF IInv, Core, Tight
<1>1. /\ HostRests /\ bot = "think" /\ blast' = btok
      /\ BotSends(conn, Commands(btok), "frame")
      /\ UNCHANGED <<backlog, faults, thrown, adrift, peer, pending, answers, nEvents, bgame, btok,
                     seen, played, shim, game, frame, match, mode>>
  BY DEF BotAnswers, hostVars, gameVars, shimVars, HostRests
<1>2. /\ bconn \in Conns /\ bconn # NoConn /\ backlog # <<bconn>> /\ played < BotGames
      /\ conn[bconn].shim <=> bconn = peer
      /\ conn[bconn].toBot = <<>> \/ bconn \in adrift
      /\ ~conn[bconn].shim => conn[bconn].toShim = <<>>
      /\ Linked => /\ shim = "commands" /\ btok = <<game, frame>> /\ Q = <<>>
                   /\ \A i \in DOMAIN R : R[i].type # "Commands"
  BY <1>1, WhenThinking
<1>3. Commands(btok) \in ToShimMsgs /\ Commands(btok).type = "Commands" /\ Commands(btok).tok = btok
      /\ btok \in Toks
  <2>1. btok \in Decisions
    BY <1>1, TypesThere, TokensAre DEF Told
  <2>. QED  BY <2>1, TypesThere, MessagesThere, MessageTypes
<1>4. CASE conn' = ToShim(conn, bconn, Commands(btok)) /\ bot' = "frame" /\ bconn' = bconn
  <2>1. /\ conn' \in [Conns -> Wire] /\ \A d \in Conns : d # bconn => conn'[d] = conn[d]
        /\ conn'[bconn].bot = conn[bconn].bot /\ conn'[bconn].shim = conn[bconn].shim
        /\ conn'[bconn].toBot = conn[bconn].toBot
        /\ conn'[bconn].toShim = IF conn[bconn].shim
                                 THEN Append(conn[bconn].toShim, Commands(btok))
                                 ELSE conn[bconn].toShim
    BY <1>2, <1>3, <1>4, TypesThere, ToShimDoes
  <2>2. Ends'
    BY <1>1, <1>2, <1>4, <2>1, BotStays
  <2>3. Channels' /\ Session'
    <3>1. CASE ~Tight'
      BY <3>1, NotTight
    <3>2. CASE Tight' /\ bconn # peer
      <4>1. Q' = <<>> /\ R' = R
        BY <1>1, <1>2, <2>1, <3>2, TypesThere DEF Q, R, Ends
      <4>. QED  BY <1>1, <1>4, <3>2, <4>1, BotApart
    <3>3. CASE Tight' /\ bconn = peer
      <4>6. Linked
        BY <1>1, <3>3 DEF Linked, HostRests
      <4>1. R' = Append(R, Commands(btok)) /\ Q' = <<>> /\ Q = <<>>
        BY <1>1, <1>2, <2>1, <3>3, <4>6 DEF Q, R
      <4>2. /\ Len(R) \in Nat /\ Len(R') = Len(R) + 1 /\ R' # <<>> /\ DOMAIN R' = 1..(Len(R) + 1)
            /\ R'[Len(R) + 1] = Commands(btok) /\ DOMAIN R = 1..Len(R)
            /\ \A i \in 1..Len(R) : R'[i] = R[i]
        BY <1>3, <3>3, <4>1, View, Appended
      <4>3. ToBotOK' /\ ThinkOK'
        BY <1>1, <1>4, <4>1 DEF ToBotOK, ThinkOK, Thinks
      <4>4. ToShimOK'
        BY <1>1, <1>2, <1>3, <1>4, <3>3, <4>2, <4>6 DEF ToShimOK, Thinks
      <4>5. Session'
        <5>1. Open /\ Open' /\ match = "running" /\ answers = NoTok
          BY <1>1, <1>2, <1>4, <3>3, <4>1, <4>6 DEF Open, Calls
        <5>2. OpenGame' = OpenGame /\ OpenRun' = OpenRun
          BY <1>1, <1>4, <4>1 DEF OpenGame, OpenSeen, FrameEvents, OpenRun
        <5>3. OpenLast' = <<game, frame>>
          BY <1>1, <1>2, <1>4, <3>3, <4>6 DEF OpenLast
        <5>4. <<game, frame>>[2] <= frame
          BY TypesThere
        <5>5. \A i \in DOMAIN Q' : FALSE
          BY <4>1
        <5>. QED  BY <1>1, <3>3, <5>1, <5>2, <5>3, <5>4, <5>5 DEF Session, Linked
      <4>. QED  BY <4>3, <4>4, <4>5 DEF Channels
    <3>. QED  BY <3>1, <3>2, <3>3
  <2>4. TypeOK'
    BY <1>1, <1>2, <1>3, <1>4, <2>1, BotTypes DEF TypeOK
  <2>5. Stale'
    BY <1>1, <1>2, <1>4, <2>1 DEF Stale
  <2>. QED  BY <1>1, <2>2, <2>3, <2>4, <2>5, HostStays
<1>5. CASE ~conn[bconn].shim /\ Reconnect(conn)
  <2>1. conn' = BotCloses(conn, bconn) /\ bconn' = NoConn /\ bot' = "connecting"
    BY <1>5 DEF Reconnect
  <2>2. conn' \in [Conns -> Wire] /\ Ends' /\ Calls' /\ Channels' /\ Session' /\ Held' /\ Stale'
    BY <1>1, <1>2, <2>1, BotGone, TypesThere
  <2>3. TypeOK'
    BY <1>1, <1>3, <2>1, <2>2, BotTypes DEF TypeOK
  <2>. QED  BY <2>2, <2>3
<1>. QED  BY <1>1, <1>4, <1>5 DEF BotSends

-----------------------------------------------------------------------------
(* All steps                                                               *)

\* The connection of a bot that the shim has left stays as it is while the shim
\* moves, and only a dying module leaves one.
LEMMA StaleStays ==
    ASSUME IInv, UNCHANGED <<bconn, bot, bgame, blast, seen>>, adrift \subseteq adrift',
           bconn # NoConn /\ bconn # peer' => bconn # peer /\ conn'[bconn] = conn[bconn]
    PROVE  Stale'
<1>. SUFFICES ASSUME bconn # NoConn, bconn # peer', bconn \notin adrift'  PROVE Stale'
  BY DEF Stale
<1>1. bconn # peer /\ bconn \notin adrift /\ conn'[bconn] = conn[bconn] /\ UNCHANGED <<bconn, bot, bgame, blast, seen>>
  OBVIOUS
<1>. QED  BY <1>1 DEF IInv, Stale

\* The shim touches its own connection, or the one it accepts.
LEMMA ShimTouches ==
    ASSUME IInv, NEW c \in Conns, peer = c \/ peer = NoConn, bconn \in Conns \cup {NoConn},
           UNCHANGED <<bconn, bot, bgame, blast, seen>>, adrift \subseteq adrift',
           \A d \in Conns : d # c => conn'[d] = conn[d],
           peer' = c \/ ~conn[c].bot
    PROVE  Stale'
<1>1. conn[c].bot <=> bconn = c
  BY DEF IInv, Core, Ends
<1>2. bconn # NoConn /\ bconn # peer' => bconn # c
  BY <1>1
<1>. QED  BY <1>2, StaleStays

LEMMA HelloStale ==
    ASSUME IInv, NEW c \in Conns, SendHello(conn, c), peer = c \/ peer = NoConn,
           UNCHANGED <<bconn, bot, bgame, blast, seen>>, adrift \subseteq adrift'
    PROVE  Stale'
<1>1. conn \in [Conns -> Wire] /\ Hello \in ToBotMsgs /\ bconn \in Conns \cup {NoConn}
  BY TypesThere, MessagesThere DEF IInv, Core
<1>2. CASE conn' = ToBot(conn, c, Hello) /\ peer' = c
  BY <1>1, <1>2, ToBotDoes, ShimTouches
<1>3. CASE ~conn[c].bot /\ conn' = ShimCloses(conn, c)
  BY <1>1, <1>3, ShimClosesDoes, ShimTouches
<1>. QED  BY <1>2, <1>3 DEF SendHello

LEMMA DropStale ==
    ASSUME IInv, peer # NoConn, NEW cn \in [Conns -> Wire], DropPeer(cn), ~conn[peer].bot,
           \A d \in Conns : d # peer => cn[d] = conn[d], UNCHANGED <<bconn, bot, bgame, blast, seen>>,
           adrift \subseteq adrift'
    PROVE  Stale'
<1>1. peer \in Conns /\ bconn \in Conns \cup {NoConn}
  BY TypesThere DEF IInv, Core
<1>2. \A d \in Conns : d # peer => conn'[d] = conn[d]
  BY <1>1, ShimClosesDoes DEF DropPeer
<1>. QED  BY <1>1, <1>2, ShimTouches

\* A module that dies leaves what the bot still reads: a Frame of an open session.
LEMMA LeavesStale ==
    ASSUME IInv, match = "running", UNCHANGED <<bconn, bot, bgame, blast, seen>>, bconn \in Conns,
           conn'[bconn].toBot = conn[bconn].toBot, adrift \subseteq adrift'
    PROVE  Stale'
<1>. USE DEF IInv, Core, Tight
<1>1. CASE bconn # peer \/ bconn \in adrift
  BY <1>1 DEF Stale
<1>2. CASE bconn = peer /\ bconn \notin adrift
  <2>1. peer # NoConn /\ conn'[bconn'].toBot = Q
    BY <1>2, TypesThere DEF Q
  <2>2. Len(Q) \in Nat /\ DOMAIN Q = 1..Len(Q) /\ (Q = <<>> <=> Len(Q) = 0)
        /\ \A i \in DOMAIN Q : Q[i] \in ToBotMsgs
    BY <2>1, View
  <2>3. \A i \in DOMAIN Q : /\ Q[i].type = "Frame" => /\ i = Len(Q) /\ shim = "commands"
                                                      /\ Q[i].tok = <<game, frame>>
                            /\ Q[i].type = "GameStart" => i = 1 /\ bot = "wait"
    BY <1>2, <2>1 DEF Channels, ToBotOK
  <2>4. bot = "think" => Q = <<>>
    BY <1>2, <2>1 DEF Channels, ThinkOK, Thinks
  <2>5. ASSUME bot = "frame", Q # <<>>, Q[1].type = "Frame"
        PROVE  Q[1].tok[1] = bgame /\ (blast = NoTok \/ blast[2] <= Q[1].tok[2])
    <3>1. 1 \in DOMAIN Q /\ Len(Q) = 1
      BY <2>2, <2>3, <2>5
    <3>2. Open
      BY <2>2, <2>5, <3>1 DEF Open
    <3>7. bgame = game /\ (blast = NoTok \/ blast[2] <= frame)
      BY <1>2, <2>1, <2>5, <3>2 DEF Session, Linked, OpenGame, OpenLast
    <3>8. Q[1].tok = <<game, frame>>
      BY <2>3, <2>5, <3>1
    <3>. QED  BY <3>7, <3>8
  <2>6. ASSUME Len(Q) = 2, Q[1].type = "GameStart", Q[2].type = "Frame"
        PROVE  Q[2].tok[1] = Q[1].game
    <3>1. 1 \in DOMAIN Q /\ 2 \in DOMAIN Q /\ DOMAIN Q = {1, 2} /\ Q # <<>>
      BY <2>2, <2>6
    <3>2. bot = "wait" /\ Q[2].tok = <<game, frame>>
      BY <2>3, <2>6, <3>1
    <3>3. Open
      BY <2>6, <3>1, <3>2 DEF Open
    <3>4. Q[1].game = game
      BY <1>2, <2>1, <3>2, <3>3 DEF Session, Linked, OpenGame
    <3>. QED  BY <3>2, <3>4
  <2>. QED  BY <2>1, <2>3, <2>4, <2>5, <2>6 DEF Stale
<1>. QED  BY <1>1, <1>2

\* The actions of the shim and of its game.
HostNext ==
    \/ MatchStart \/ Accept \/ AcceptFails \/ RecvConfig \/ LoseHandshake
    \/ GameEvent \/ GamePauses \/ OnFrame \/ ExchangeFrame \/ RecvCommands \/ LoseBot
    \/ MatchEnd \/ GameDies

\* Of the steps of the host only one is without an answer, and none forgets that.
LEMMA HostDrifts == ASSUME HostNext  PROVE adrift \subseteq adrift'
BY DEF HostNext, MatchStart, Accept, AcceptFails, RecvConfig, LoseHandshake, GameEvent, GamePauses,
       OnFrame, ExchangeFrame, RecvCommands, LoseBot, MatchEnd, GameDies, NoFault, StubThrows,
       DecisionThrows

LEMMA HostStale == ASSUME IInv, HostNext  PROVE Stale'
<1>. USE DEF IInv, Core, Tight
<1>1. /\ conn \in [Conns -> Wire] /\ peer \in Conns \cup {NoConn} /\ bconn \in Conns \cup {NoConn}
      /\ NoConn \notin Conns /\ UNCHANGED <<bconn, bot, bgame, blast, seen>>
      /\ adrift \subseteq adrift'
  <2>1. UNCHANGED botVars
    BY DEF HostNext, MatchStart, Accept, AcceptFails, RecvConfig, LoseHandshake, GameEvent,
           GamePauses, OnFrame, ExchangeFrame, RecvCommands, LoseBot, MatchEnd, GameDies
  <2>. QED  BY <2>1, TypesThere, HostDrifts DEF botVars
<1>2. ASSUME UNCHANGED <<conn, peer>>  PROVE Stale'
  BY <1>1, <1>2, StaleStays
<1>3. ASSUME NEW m \in ToBotMsgs, NEW cn \in [Conns -> Wire], peer # NoConn, peer' = peer,
             \A d \in Conns : d # peer => cn[d] = conn[d],
             conn' = ToBot(cn, peer, m) \/ conn' = cn
      PROVE  Stale'
  <2>1. \A d \in Conns : d # peer => conn'[d] = conn[d]
    BY <1>1, <1>3, ToBotDoes
  <2>. QED  BY <1>1, <1>3, <2>1, ShimTouches
<1>4. CASE MatchStart
  <2>1. CASE Connected /\ SendHello(conn, peer)
    BY <1>1, <2>1, HelloStale DEF Connected, SendHello
  <2>. QED  BY <1>2, <1>4, <2>1 DEF MatchStart
<1>5. CASE Accept
  <2>1. PICK c \in Conns : backlog = <<c>>
    BY <1>5 DEF Accept, Ends
  <2>2. SendHello(conn, c) /\ peer = NoConn
    BY <1>5, <2>1 DEF Accept, Ends
  <2>. QED  BY <1>1, <2>2, HelloStale
<1>6. CASE AcceptFails
  BY <1>2, <1>6 DEF AcceptFails
<1>7. CASE RecvConfig
  <2>. DEFINE cn == [conn EXCEPT ![peer].toShim = Tail(@)]
  <2>1. peer \in Conns /\ peer # NoConn /\ conn[peer].toShim # <<>>
    BY <1>1, <1>7 DEF RecvConfig, Ends
  <2>2. /\ cn \in [Conns -> Wire] /\ \A d \in Conns : d # peer => cn[d] = conn[d]
        /\ cn[peer].bot = conn[peer].bot
    BY <1>1, <2>1, TakeToShim
  <2>3. \/ conn' = ToBot(cn, peer, GameStart(game)) /\ peer' = peer
        \/ ~cn[peer].bot /\ DropPeer(cn)
        \/ conn' = cn /\ peer' = peer
    BY <1>7 DEF RecvConfig
  <2>4. GameStart(game) \in ToBotMsgs
    BY TypesThere, MessagesThere
  <2>. HIDE DEF cn
  <2>. QED  BY <1>1, <1>3, <2>1, <2>2, <2>3, <2>4, DropStale
<1>8. CASE LoseHandshake
  <2>1. peer # NoConn /\ DropPeer(conn) /\ ~conn[peer].bot
    BY <1>8 DEF LoseHandshake, Ends
  <2>. QED  BY <1>1, <2>1, DropStale
<1>9. CASE GameEvent
  BY <1>2, <1>9 DEF GameEvent
<1>10. CASE GamePauses
  BY <1>2, <1>10 DEF GamePauses, shimVars
<1>11. CASE OnFrame
  BY <1>2, <1>11 DEF OnFrame
<1>12. CASE ExchangeFrame
  <2>. DEFINE F == Frame(<<game, frame>>, pending, answers)
  <2>1. \/ conn' = ToBot(conn, peer, F) /\ peer' = peer
        \/ ~conn[peer].bot /\ DropPeer(conn)
        \/ UNCHANGED <<conn, peer>>
    BY <1>12 DEF ExchangeFrame
  <2>2. F \in ToBotMsgs /\ peer # NoConn
    <3>1. <<game, frame>> \in Decisions /\ peer # NoConn
      BY <1>12, TokensAre, TypesThere DEF ExchangeFrame, Ends, Calls, TypeOK
    <3>. QED  BY <3>1, TypesThere, MessagesThere
  <2>. HIDE DEF F
  <2>. QED  BY <1>1, <1>2, <1>3, <2>1, <2>2, DropStale
<1>13. CASE RecvCommands
  <2>. DEFINE cn == [conn EXCEPT ![peer].toShim = Tail(@)]
  <2>1. peer \in Conns /\ peer # NoConn /\ conn[peer].toShim # <<>> /\ conn' = cn /\ peer' = peer
    BY <1>1, <1>13 DEF RecvCommands, Ends
  <2>2. cn \in [Conns -> Wire] /\ \A d \in Conns : d # peer => cn[d] = conn[d]
    BY <1>1, <2>1, TakeToShim
  <2>. HIDE DEF cn
  <2>. QED  BY <1>1, <1>3, <2>1, <2>2, MessagesThere
<1>14. CASE LoseBot
  <2>1. peer # NoConn /\ DropPeer(conn) /\ ~conn[peer].bot
    BY <1>14 DEF LoseBot, Ends
  <2>. QED  BY <1>1, <2>1, DropStale
<1>15. CASE MatchEnd
  <2>1. \/ peer # NoConn /\ conn' = ToBot(conn, peer, GameEnd) /\ peer' = peer
        \/ peer # NoConn /\ ~conn[peer].bot /\ DropPeer(conn)
        \/ UNCHANGED <<conn, peer>>
    BY <1>15 DEF MatchEnd, Connected
  <2>. QED  BY <1>1, <1>2, <1>3, <2>1, DropStale, MessagesThere
<1>16. CASE GameDies
  <2>1. CASE UNCHANGED <<shimVars, conn>>
    BY <1>2, <2>1 DEF shimVars
  <2>2. CASE conn' = [c \in Conns |-> ShimCloses(conn, c)[c]]
    <3>1. CASE bconn = NoConn
      BY <1>1, <3>1 DEF Stale
    <3>2. CASE bconn # NoConn
      <4>1. bconn \in Conns /\ conn[bconn].bot /\ match = "running"
        BY <1>1, <1>16, <3>2 DEF Ends, GameDies
      <4>. DEFINE x == ShimCloses(conn, bconn)
      <4>2. conn'[bconn] = x[bconn]
        BY <2>2, <4>1
      <4>3. x[bconn].toBot = IF conn[bconn].bot THEN conn[bconn].toBot ELSE <<>>
        BY <1>1, <4>1, ShimClosesDoes
      <4>. HIDE DEF x
      <4>. QED  BY <1>1, <4>1, <4>2, <4>3, LeavesStale
    <3>. QED  BY <3>1, <3>2
  <2>. QED  BY <1>16, <2>1, <2>2 DEF GameDies
<1>. QED  BY <1>4, <1>5, <1>6, <1>7, <1>8, <1>9, <1>10, <1>11, <1>12, <1>13, <1>14, <1>15, <1>16
         DEF HostNext

\* What a bot is told and a decision left unanswered.
LEMMA ToldInv == ASSUME IInv, [Next]_vars  PROVE Told'
<1>. USE DEF IInv, Core
<1>1. ASSUME UNCHANGED <<bot, btok, adrift, thrown, backlog>>  PROVE Told'
  BY <1>1 DEF Told
<1>2. /\ adrift = {} \/ thrown
      /\ \A c \in Conns : backlog = <<c>> => c \notin adrift
      /\ \A c, d \in Conns : <<c>> # <<>> /\ (<<c>> = <<d>> => c = d)
  BY DEF Told
<1>3. ASSUME HostNext, ~RecvCommands  PROVE Told'
  <2>1. UNCHANGED <<bot, btok, adrift>> /\ (thrown => thrown')
        /\ (backlog' = backlog \/ backlog' = <<>>)
    <3>1. /\ UNCHANGED botVars /\ (NoFault \/ StubThrows \/ UNCHANGED <<thrown, adrift>>)
          /\ \/ backlog' \in {backlog, <<>>}
             \/ backlog # <<>> /\ backlog' = Tail(backlog)
      BY <1>3 DEF HostNext, MatchStart, Accept, AcceptFails, RecvConfig, LoseHandshake, GameEvent,
                  GamePauses, OnFrame, ExchangeFrame, LoseBot, MatchEnd, GameDies
    <3>2. backlog # <<>> => Tail(backlog) = <<>>
      <4>1. ASSUME NEW c \in Conns, backlog = <<c>>  PROVE Tail(backlog) = <<>>
        BY <4>1
      <4>. QED  BY <4>1 DEF Ends
    <3>. QED  BY <3>1, <3>2 DEF botVars, NoFault, StubThrows, Throws
  <2>. QED  BY <1>2, <2>1 DEF Told
<1>4. CASE RecvCommands
  <2>1. /\ UNCHANGED <<bot, btok, backlog>> /\ shim = "commands"
        /\ UNCHANGED <<adrift, thrown>>
           \/ (thrown' = TRUE /\ (adrift' = adrift \/ adrift' = adrift \cup {peer}))
    BY <1>4 DEF RecvCommands, botVars, NoFault, StubThrows, DecisionThrows, Throws
  <2>2. \A c \in Conns : backlog = <<c>> => peer # c
    BY DEF Ends
  <2>. QED  BY <1>2, <2>1, <2>2 DEF Told
<1>5. CASE BotConnects
  <2>1. PICK c \in Conns : adrift' = adrift \ {c} /\ backlog' = Append(backlog, c) /\ backlog = <<>>
    BY <1>5 DEF BotConnects
  <2>2. backlog' = <<c>> /\ bot' = "wait" /\ thrown' = thrown
    BY <1>5, <2>1 DEF BotConnects, hostVars
  <2>. QED  BY <1>2, <2>1, <2>2 DEF Told
<1>6. ASSUME BotStarts \/ BotWaits \/ BotAnswers \/ BotDisconnected \/ BotCrashes \/ BotSendsConfig
      PROVE  Told'
  <2>1. UNCHANGED <<adrift, thrown, backlog>>
    BY <1>6 DEF BotStarts, BotWaits, BotAnswers, BotDisconnected, BotCrashes, BotSendsConfig, hostVars
  <2>2. bot' # "think" \/ UNCHANGED <<bot, btok>>
    BY <1>6 DEF BotStarts, BotWaits, BotSends, Reconnect, BotAnswers, BotDisconnected, BotCrashes,
                BotSendsConfig
  <2>. QED  BY <1>2, <2>1, <2>2 DEF Told
<1>7. CASE BotReads
  <2>1. UNCHANGED <<adrift, thrown, backlog>> /\ bot = "frame" /\ conn[bconn].toBot # <<>>
    BY <1>7 DEF BotReads, hostVars
  <2>2. bot' = "think" => BotHead.type = "Frame" /\ btok' = BotHead.tok
    BY <1>7 DEF BotReads, BotEndsMatch, NextMatch, BotSends, Reconnect
  <2>3. BotHead \in ToBotMsgs
    BY <2>1, BotTakes
  <2>4. bot' = "think" => btok' # NoTok
    BY <2>2, <2>3, ToBotKinds, TokensAre
  <2>. QED  BY <1>2, <2>1, <2>4 DEF Told
<1>8. CASE UNCHANGED vars
  BY <1>1, <1>8 DEF vars, botVars
<1>. QED  BY <1>3, <1>4, <1>5, <1>6, <1>7, <1>8 DEF Next, HostNext

LEMMA NextInv == ASSUME IInv, [Next]_vars  PROVE IInv'
<1>1. CASE HostNext
  <2>1. Core'
    BY <1>1, MatchStartInv, AcceptInv, AcceptFailsInv, RecvConfigInv, LoseHandshakeInv,
       GameEventInv, GamePausesInv, OnFrameInv, ExchangeFrameInv, RecvCommandsInv, LoseBotInv,
       MatchEndInv, GameDiesInv DEF HostNext
  <2>. QED  BY <1>1, <2>1, HostStale, ToldInv DEF IInv
<1>2. CASE \/ BotStarts \/ BotConnects \/ BotWaits \/ BotReads \/ BotSendsConfig
           \/ BotAnswers \/ BotDisconnected \/ BotCrashes
  BY <1>2, BotStartsInv, BotConnectsInv, BotWaitsInv, BotReadsInv, BotSendsConfigInv,
     BotAnswersInv, BotDisconnectedInv, BotCrashesInv, ToldInv DEF IInv
<1>3. CASE UNCHANGED vars
  <2>1. /\ UNCHANGED <<mode, match, game, frame, paused, nEvents, shim, after, frameSkip, pending>>
        /\ UNCHANGED <<answers, applied, listening, peer, backlog, conn, bot, bconn, bgame, btok>>
        /\ UNCHANGED <<blast, seen, played, faults, thrown, adrift>>
    BY <1>3 DEF vars, gameVars, shimVars, botVars
  <2>2. TypeOK' /\ Ends' /\ Calls' /\ Held' /\ Stale'
    BY <2>1 DEF IInv, Core, TypeOK, Ends, Calls, Held, Stale
  <2>3. /\ Q' = Q /\ R' = R /\ Open' = Open /\ Linked' = Linked /\ OpenGame' = OpenGame
        /\ OpenLast' = OpenLast /\ OpenRun' = OpenRun
    BY <2>1, OpenStays DEF OpenRun
  <2>4. Channels' /\ Session'
    BY <2>1, <2>3 DEF IInv, Core, Channels, ToBotOK, ToShimOK, ThinkOK, Thinks, Session, Tight
  <2>. QED  BY <2>2, <2>4, ToldInv DEF IInv, Core
<1>. QED  BY <1>1, <1>2, <1>3 DEF Next, HostNext

LEMMA Invariance == Spec => []IInv
BY InitInv, NextInv, PTL DEF Spec

-----------------------------------------------------------------------------
(* What the invariant gives                                                *)

\* The queue of an open session holds one Frame at most, so that the events in
\* it are the events of that Frame.
LEMMA EventsOfNone == EventsOf(<<>>) = <<>>
<1>. DEFINE e == [i \in DOMAIN <<>> |-> (<<>>)[i].events]
<1>1. DOMAIN <<>> = 1..0 /\ 1..0 = {}
  OBVIOUS
<1>2. e \in [1..0 -> {}]
  BY <1>1
<1>3. e \in Seq({}) /\ Len(e) = 0
  BY <1>2, SeqDef, LenProperties
<1>4. e = <<>>
  BY <1>3, EmptySeq
<1>. QED  BY <1>3, <1>4 DEF EventsOf, FlattenSeq

LEMMA FlattenOne ==
    ASSUME NEW e, Len(e) = 1  PROVE FlattenSeq(e) = e[1]
<1>. DEFINE flatten[i \in 1..Len(e)] == IF i = 1 THEN e[i] ELSE flatten[i - 1] \o e[i]
            step(f) == [i \in 1..Len(e) |-> IF i = 1 THEN e[i] ELSE f[i - 1] \o e[i]]
            one == [i \in 1..Len(e) |-> e[i]]
<1>1. one = step(one)
  OBVIOUS
<1>2. flatten = CHOOSE f : f = step(f)
  OBVIOUS
<1>. HIDE DEF flatten
<1>3. flatten = step(flatten)
  BY <1>1, <1>2
<1>4. flatten[1] = e[1]
  BY <1>3
<1>5. FlattenSeq(e) = flatten[Len(e)]
  BY DEF FlattenSeq, flatten
<1>. QED  BY <1>4, <1>5

LEMMA EventsOfOne ==
    ASSUME NEW q \in Seq(ToBotMsgs), Len(q) = 1
    PROVE  EventsOf(q) = q[1].events
<1>. DEFINE e == [i \in DOMAIN q |-> q[i].events]
<1>1. DOMAIN q = 1..1 /\ e[1] = q[1].events
  BY LenProperties
<1>2. Len(e) = 1
  <2>1. e \in [1..1 -> {q[1].events}]
    BY <1>1
  <2>. QED  BY <2>1, SeqDef, LenProperties
<1>. HIDE DEF e
<1>3. FlattenSeq(e) = e[1]
  BY <1>2, FlattenOne
<1>. QED  BY <1>1, <1>3 DEF EventsOf, e

\* A shim that waits for Commands has either asked a bot that has not read its
\* Frame yet or still thinks about it, or been answered.
Asked ==
    shim = "commands" /\ Linked =>
    \/ thrown \/ Thinks
    \/ Q # <<>> /\ Q[Len(Q)].type = "Frame"
    \/ R # <<>> /\ R[Len(R)].type = "Commands"

LEMMA ExchangeAsks == ASSUME IInv, ExchangeFrame  PROVE Asked'
<1>. USE DEF IInv, Core, Tight
<1>. DEFINE F == Frame(<<game, frame>>, pending, answers)
<1>1. SUFFICES ASSUME shim' = "commands", Linked'
               PROVE  Q' # <<>> /\ Q'[Len(Q')].type = "Frame"
  BY DEF Asked
<1>2. /\ conn' = ToBot(conn, peer, F) /\ peer' = peer /\ bconn' = bconn
      /\ peer # NoConn /\ bconn = peer /\ peer \in Conns /\ frame \in 0..MaxFrame
  BY <1>1, TypesThere DEF ExchangeFrame, FrameDone, Linked, botVars, Ends, Calls
<1>3. F \in ToBotMsgs /\ F.type = "Frame"
  <2>1. <<game, frame>> \in Decisions
    BY <1>2, TokensAre, TypesThere
  <2>. QED  BY <2>1, TypesThere, MessagesThere, MessageTypes
<1>. HIDE DEF F
<1>4. Q' = Append(Q, F)
  <2>1. conn'[peer].toBot = IF conn[peer].bot THEN Append(conn[peer].toBot, F) ELSE conn[peer].toBot
    BY <1>2, <1>3, TypesThere, ToBotDoes
  <2>. QED  BY <1>2, <2>1 DEF Q, Ends
<1>5. Len(Q') = Len(Q) + 1 /\ Q' # <<>> /\ Q'[Len(Q) + 1] = F
  BY <1>2, <1>3, <1>4, View, Appended
<1>. QED  BY <1>3, <1>5

\* A ClientConfig leaves the Commands that follow it.
LEMMA ConfigStillAsks == ASSUME IInv, Asked, RecvCommands  PROVE Asked'
<1>. USE DEF IInv, Core, Tight
<1>. DEFINE m == Head(conn[peer].toShim)
<1>1. SUFFICES ASSUME shim' = "commands", Linked'  PROVE Asked'
  BY DEF Asked
<1>2. /\ shim = "commands" /\ R # <<>> /\ m.type # "Commands" /\ m = Head(R)
      /\ conn' = [conn EXCEPT ![peer].toShim = Tail(@)]
      /\ UNCHANGED <<peer, bconn, bot, faults, thrown, adrift>> /\ Tight /\ peer \in Conns
  BY <1>1, TypesThere DEF RecvCommands, FrameDone, NoFault, botVars, R, Ends, Linked
<1>. HIDE DEF m
<1>3. Q' = Q /\ R' = Tail(R)
  <2>. DEFINE cn == [conn EXCEPT ![peer].toShim = Tail(@)]
  <2>1. cn[peer].toBot = conn[peer].toBot /\ cn[peer].toShim = Tail(conn[peer].toShim)
    BY <1>2, TypesThere, TakeToShim DEF R
  <2>. HIDE DEF cn
  <2>2. conn' = cn
    BY <1>2 DEF cn
  <2>. QED  BY <1>2, <2>1, <2>2 DEF Q, R
<1>4. /\ Len(R) \in Nat \ {0} /\ Len(R') = Len(R) - 1 /\ m = R[1]
      /\ \A i \in 1..(Len(R) - 1) : R'[i] = R[i + 1]
      /\ R' = <<>> <=> Len(R) = 1
  BY <1>2, <1>3, View, Taken
<1>5. R[Len(R)].type = "Commands" => R' # <<>> /\ R'[Len(R')] = R[Len(R)]
  BY <1>2, <1>4
<1>6. Linked /\ Thinks' = Thinks
  BY <1>1, <1>2 DEF Linked, Thinks
<1>. QED  BY <1>2, <1>3, <1>5, <1>6 DEF Asked

\* What the bot takes from an open connection is answered or of no matter.
LEMMA TakenStillAsks ==
    ASSUME IInv, Asked, bot \in {"wait", "frame"}, conn[bconn].toBot # <<>>,
           conn' = BotTook, UNCHANGED <<peer, bconn, shim, thrown, adrift>>,
           BotHead.type # "Frame" \/ bot = "wait" \/ bot' = "think"
    PROVE  Asked'
<1>. USE DEF IInv, Core, Tight
<1>1. SUFFICES ASSUME shim = "commands", bconn = peer, Tight, ~thrown, ~Thinks',
                      R = <<>> \/ R[Len(R)].type # "Commands"
               PROVE  Q' # <<>> /\ Q'[Len(Q')].type = "Frame"
  <2>1. bconn = peer => R' = R
    <3>1. BotTook[bconn].toShim = conn[bconn].toShim
      BY BotTakes
    <3>. QED  BY <3>1 DEF R
  <2>. QED  BY <2>1 DEF Asked, Linked
<1>2. Q # <<>> /\ BotHead = Q[1] /\ Q' = Tail(Q)
  BY <1>1, BotTakes DEF Q
<1>3. /\ Len(Q) \in Nat \ {0} /\ Len(Q') = Len(Q) - 1 /\ DOMAIN Q = 1..Len(Q)
      /\ \A i \in 1..(Len(Q) - 1) : Q'[i] = Q[i + 1]
      /\ Q' = <<>> <=> Len(Q) = 1
  BY <1>1, <1>2, View, Taken
<1>4. Q[Len(Q)].type = "Frame"
  BY <1>1, <1>2 DEF Asked, Linked, Thinks
<1>5. Len(Q) # 1
  <2>. SUFFICES ASSUME Len(Q) = 1  PROVE FALSE
    OBVIOUS
  <2>1. Q[1].type = "Frame" /\ bot = "wait"
    BY <1>1, <1>2, <1>4 DEF Thinks
  <2>2. ~Open
    BY <2>1 DEF Open
  <2>. QED  BY <1>1, <2>2 DEF Session, Linked, Calls
<1>. QED  BY <1>3, <1>4, <1>5

LEMMA AskedInv == ASSUME IInv, Asked, [Next]_vars  PROVE Asked'
<1>. USE DEF IInv, Core, Tight
<1>. HIDE DEF Tight
<1>1. ASSUME UNCHANGED <<peer, conn, bot, bconn, shim, thrown, adrift>>  PROVE Asked'
  BY <1>1 DEF Asked, Linked, Tight, Thinks, Q, R
<1>2. ASSUME shim' # "commands" \/ bconn' = NoConn \/ ~Tight'  PROVE Asked'
  BY <1>2 DEF Asked, Linked, Tight
<1>3. CASE HostNext
  <2>1. CASE ExchangeFrame
    BY <2>1, ExchangeAsks
  <2>2. CASE RecvCommands
    BY <2>2, ConfigStillAsks
  <2>3. CASE shim' # "commands"
    BY <1>2, <2>3
  <2>4. CASE GameEvent \/ GamePauses
    BY <1>1, <2>4 DEF GameEvent, GamePauses, NoFault, shimVars, botVars
  <2>5. ASSUME MatchStart \/ Accept \/ AcceptFails \/ RecvConfig \/ LoseHandshake
               \/ OnFrame \/ LoseBot \/ MatchEnd \/ GameDies
        PROVE  shim' # "commands"
    BY <2>5 DEF MatchStart, Accept, SendHello, AcceptFails, CallbackReturns, RecvConfig, FrameDone,
                LoseHandshake, OnFrame, LoseBot, MatchEnd, GameDies, shimVars, Calls
  <2>. QED  BY <1>3, <2>1, <2>2, <2>3, <2>4, <2>5 DEF HostNext
<1>4. CASE UNCHANGED vars
  BY <1>1, <1>4 DEF vars, shimVars, botVars
<1>5. CASE BotStarts
  <2>1. bconn' = NoConn
    BY <1>5 DEF BotStarts, Ends
  <2>. QED  BY <1>2, <2>1
<1>6. CASE BotConnects
  <2>1. PICK c \in Conns : conn[c] = FreeConn /\ bconn' = c /\ peer' = peer
    BY <1>6 DEF BotConnects, hostVars, shimVars
  <2>2. peer # c
    BY <2>1 DEF Ends, FreeConn
  <2>. QED  BY <2>1, <2>2 DEF Asked, Linked, Tight
<1>7. CASE BotWaits
  <2>1. /\ bot = "wait" /\ conn[bconn].toBot # <<>> /\ UNCHANGED <<peer, shim, thrown, adrift>>
    BY <1>7 DEF BotWaits, hostVars, shimVars
  <2>2. CASE BotHead.type = "Hello"
    <3>1. bconn = peer /\ Tight => shim = "config"
      <4>1. bconn = peer /\ Tight => Q # <<>> /\ Q[1].type = "Hello" /\ 1 \in DOMAIN Q
        BY <2>1, <2>2, BotTakes, View DEF Q, Tight
      <4>. QED  BY <4>1 DEF Channels, ToBotOK
    <3>2. bconn' = bconn \/ bconn' = NoConn
      BY <1>7, <2>2 DEF BotWaits, BotSends, Reconnect
    <3>. QED  BY <2>1, <3>1, <3>2 DEF Asked, Linked, Tight
  <2>3. CASE BotHead.type # "Hello"
    <3>1. conn' = BotTook /\ bconn' = bconn
      BY <1>7, <2>3 DEF BotWaits
    <3>. QED  BY <2>1, <3>1, TakenStillAsks
  <2>. QED  BY <2>2, <2>3
<1>8. CASE BotReads
  <2>1. /\ bot = "frame" /\ conn[bconn].toBot # <<>> /\ UNCHANGED <<peer, shim, thrown, adrift>>
    BY <1>8 DEF BotReads, hostVars, shimVars
  <2>2. CASE BotHead.type = "Hello"
    <3>1. bconn = peer /\ Tight => shim = "config"
      <4>1. bconn = peer /\ Tight => Q # <<>> /\ Q[1].type = "Hello" /\ 1 \in DOMAIN Q
        BY <2>1, <2>2, BotTakes, View DEF Q, Tight
      <4>. QED  BY <4>1 DEF Channels, ToBotOK
    <3>2. bconn' = bconn \/ bconn' = NoConn
      BY <1>8, <2>2 DEF BotReads, BotEndsMatch, NextMatch, BotSends, Reconnect
    <3>. QED  BY <2>1, <3>1, <3>2 DEF Asked, Linked, Tight
  <2>3. CASE BotHead.type = "Frame"
    <3>1. conn' = BotTook /\ bconn' = bconn /\ bot' = "think"
      BY <1>8, <2>3 DEF BotReads
    <3>. QED  BY <2>1, <3>1, TakenStillAsks
  <2>4. CASE BotHead.type = "GameEnd"
    <3>1. bconn' = NoConn \/ (conn' = BotTook /\ bconn' = bconn)
      BY <1>8, <2>4 DEF BotReads, BotEndsMatch, NextMatch
    <3>. QED  BY <1>2, <2>1, <2>4, <3>1, TakenStillAsks
  <2>. QED  BY <1>8, <2>2, <2>3, <2>4 DEF BotReads
<1>9. CASE BotSendsConfig
  <2>1. UNCHANGED <<peer, adrift>> /\ (bconn' = NoConn \/ (bot' = "think" /\ bconn' = bconn))
    BY <1>9 DEF BotSendsConfig, BotSends, Reconnect, hostVars, shimVars
  <2>. QED  BY <1>2, <2>1 DEF Asked, Linked, Thinks
<1>10. CASE BotAnswers
  <2>1. bot = "think" /\ UNCHANGED <<peer, shim, adrift>>
        /\ (bconn' = NoConn \/ (conn' = ToShim(conn, bconn, Commands(btok)) /\ bconn' = bconn))
    BY <1>10 DEF BotAnswers, BotSends, Reconnect, hostVars, shimVars
  <2>2. Commands(btok) \in ToShimMsgs /\ Commands(btok).type = "Commands"
    <3>1. btok \in Decisions
      BY <2>1, TypesThere, TokensAre DEF Told
    <3>. QED  BY <3>1, MessagesThere, MessageTypes
  <2>3. ASSUME bconn' # NoConn, bconn = peer, Tight
        PROVE  R' # <<>> /\ R'[Len(R')].type = "Commands"
    <3>1. R' = Append(R, Commands(btok)) /\ R \in Seq(ToShimMsgs)
      <4>1. conn' = ToShim(conn, bconn, Commands(btok)) /\ bconn \in Conns /\ conn[bconn].shim
        BY <2>1, <2>3, WhenThinking DEF Ends
      <4>2. ToShim(conn, bconn, Commands(btok))[bconn].toShim
              = Append(conn[bconn].toShim, Commands(btok))
        <5>. DEFINE m == Commands(btok)
        <5>1. conn \in [Conns -> Wire] /\ bconn \in Conns /\ m \in ToShimMsgs
          BY <2>2, <4>1, TypesThere
        <5>. HIDE DEF m
        <5>2. ToShim(conn, bconn, m)[bconn].toShim
                = IF conn[bconn].shim THEN Append(conn[bconn].toShim, m) ELSE conn[bconn].toShim
          BY <5>1, ToShimDoes
        <5>. QED  BY <4>1, <5>2 DEF m
      <4>. QED  BY <2>1, <2>3, <4>1, <4>2, View DEF R
    <3>2. R' # <<>> /\ Len(R') = Len(R) + 1 /\ R'[Len(R) + 1] = Commands(btok)
      BY <2>2, <3>1, Appended
    <3>. QED  BY <2>2, <3>2
  <2>. QED  BY <1>2, <2>1, <2>3 DEF Asked, Linked, Tight
<1>11. CASE BotDisconnected \/ BotCrashes
  BY <1>2, <1>11 DEF BotDisconnected, BotCrashes, Reconnect
<1>. QED  BY <1>3, <1>4, <1>5, <1>6, <1>7, <1>8, <1>9, <1>10, <1>11 DEF Next, HostNext

\* Both invariants together, from the start.
LEMMA AllOfIt == Spec => [](IInv /\ Asked)
<1>1. Init => Asked
  BY DEF Init, Asked
<1>2. IInv /\ Asked /\ [Next]_vars => (IInv /\ Asked)'
  BY NextInv, AskedInv
<1>. QED  BY <1>1, <1>2, InitInv, PTL DEF Spec

\* What a bot in a session finds on its connection: one Frame at most.
LEMMA InASession ==
    ASSUME IInv, InSession, peer \notin adrift
    PROVE  /\ Linked /\ Open /\ peer # NoConn /\ bot # "wait" /\ bgame = game
           /\ match = "running" /\ Q \in Seq(ToBotMsgs) /\ DOMAIN Q = 1..Len(Q)
           /\ \A i \in DOMAIN Q : Q[i].type = "Frame"
           /\ Q = <<>> \/ Len(Q) = 1
<1>. USE DEF IInv, Core, Tight
<1>1. /\ Linked /\ Open /\ peer # NoConn /\ bot # "wait" /\ bgame = game /\ match = "running"
      /\ \A i \in DOMAIN Q : Q[i].type = "Frame"
  BY DEF InSession, Linked, Open, Q, Ends
<1>2. Q \in Seq(ToBotMsgs) /\ DOMAIN Q = 1..Len(Q) /\ Len(Q) \in Nat /\ (Q = <<>> <=> Len(Q) = 0)
  BY <1>1, View
<1>3. Len(Q) # 0 => 1 \in DOMAIN Q
  BY <1>2
<1>4. Len(Q) # 0 => Len(Q) = 1
  BY <1>1, <1>3 DEF Channels, ToBotOK
<1>. QED  BY <1>1, <1>2, <1>4

LEMMA RunIsWhole == ASSUME IInv, peer \notin adrift  PROVE EventsContiguous
<1>. USE DEF IInv, Core, Tight
<1>1. SUFFICES ASSUME InSession
               PROVE  LET all == seen \o EventsOf(conn[peer].toBot) \o pending
                      IN  \A i \in 1..Len(all) : all[i] = nEvents - Len(all) + i
  BY DEF EventsContiguous
<1>2. EventsOf(Q) = FrameEvents
  <2>1. CASE Q = <<>>
    BY <2>1, EventsOfNone DEF FrameEvents
  <2>2. CASE Len(Q) = 1
    <3>1. EventsOf(Q) = Q[1].events /\ Q # <<>> /\ Q[1].type = "Frame"
      BY <1>1, <2>2, InASession, EventsOfOne, EmptySeq
    <3>. QED  BY <2>2, <3>1 DEF FrameEvents
  <2>. QED  BY <1>1, <2>1, <2>2, InASession
<1>3. RunTo(OpenRun, nEvents) /\ OpenSeen = seen
  BY <1>1, InASession DEF Session, OpenSeen
<1>4. OpenRun = (seen \o EventsOf(conn[peer].toBot)) \o pending
  BY <1>2, <1>3 DEF OpenRun, Q
<1>. QED  BY <1>3, <1>4 DEF RunTo

LEMMA AnswersAreRight == ASSUME IInv  PROVE AnswersAreMine
<1>. USE DEF IInv, Core, Tight
<1>1. SUFFICES ASSUME InSession, peer \notin adrift, NEW i \in DOMAIN Q, Q[i].answers # NoTok
               PROVE  \/ Q[i].answers = blast
                      \/ blast = NoTok /\ Q[i].answers[1] = bgame /\ bot = "frame" /\ i = 1
  BY DEF AnswersAreMine, Q
<1>2. OpenLast = blast /\ Q[i].type = "Frame" /\ bgame = game /\ i = 1 /\ Q # <<>>
  <2>1. Q[i].type = "Frame" /\ Q # <<>> /\ i = 1
    BY <1>1, InASession, EmptySeq
  <2>. QED  BY <1>1, <2>1, InASession DEF OpenLast
<1>3. Q[i].answers[1] = game /\ blast \in {NoTok, Q[i].answers}
  BY <1>1, <1>2, InASession DEF Session
<1>4. bot = "frame"
  <2>1. ~Thinks
    BY <1>1, <1>2, InASession DEF Channels, ThinkOK, Linked
  <2>. QED  BY <1>1, <2>1 DEF InSession, Thinks
<1>. QED  BY <1>2, <1>3, <1>4

LEMMA SomeoneMoves == ASSUME IInv, Asked  PROVE NoMutualWait
<1>. USE DEF IInv, Core, Tight
<1>1. SUFFICES ASSUME shim \in {"config", "commands"}, bot \in {"wait", "frame"}, bconn = peer,
                      Q = <<>>, R = <<>>, peer \notin adrift
               PROVE  thrown
  BY DEF NoMutualWait, Q, R, Told
<1>2. Linked /\ ~Thinks
  BY <1>1 DEF Linked, Thinks, Ends
<1>3. shim # "config"
  BY <1>1, <1>2 DEF Channels, ToShimOK, Linked
<1>. QED  BY <1>1, <1>2, <1>3 DEF Asked

-----------------------------------------------------------------------------
(* The theorems                                                            *)

\* Every variable keeps its type, in every behaviour of the link: the bounds of
\* the model are never left, the frame skip is never below one, and only what
\* either side can send is ever on its way.
THEOREM TypeCorrect == Spec => []TypeOK
<1>1. IInv => TypeOK
  BY DEF IInv, Core
<1>. QED  BY <1>1, Invariance, PTL

\* No game event is lost, doubled or overtaken within a session: what the bot
\* has read, what is in flight and what Bridge::pendingEvents_ still holds are
\* one unbroken run, whatever crashed or was lost before, unless a decision was
\* left unanswered over the shim's connection.
THEOREM EventsAreContiguous == Spec => [](peer \in adrift \/ EventsContiguous)
<1>1. IInv => peer \in adrift \/ EventsContiguous
  BY RunIsWhole
<1>. QED  BY <1>1, Invariance, PTL

\* The placement answers in a Frame are those to the last queries of the bot
\* that reads it, or it has asked nothing in this match yet and they are those
\* to the bot before it, in the one Frame it waits for; unless a decision was
\* left unanswered over the shim's connection.
THEOREM AnswersAreTheBots == Spec => []AnswersAreMine
BY AnswersAreRight, Invariance, PTL

\* The shim and the bot never wait for each other over an empty connection,
\* unless a BWAPI stub threw in the module.
THEOREM NobodyWaits == Spec => []NoMutualWait
<1>1. IInv /\ Asked => NoMutualWait
  BY SomeoneMoves
<1>. QED  BY <1>1, AllOfIt, PTL

\* A bot in a match reads Frames of that match only, and none from before the
\* one it answered last, those included that it still reads from a connection
\* whose module died with its game, unless a decision was left unanswered over it.
THEOREM FramesAreInOrder == Spec => FramesInOrder
<1>1. ASSUME IInv, [Next]_vars, bot = "frame", bot' = "think", bconn \notin adrift
      PROVE  btok'[1] = bgame /\ (blast = NoTok \/ blast[2] <= btok'[2])
  <2>. USE DEF IInv, Core, Tight
  <2>1. BotReads
    BY <1>1 DEF Next, vars, botVars, hostVars, MatchStart, Accept, AcceptFails, RecvConfig,
                LoseHandshake, GameEvent, GamePauses, OnFrame, ExchangeFrame, RecvCommands, LoseBot,
                MatchEnd, GameDies, BotStarts, BotConnects, BotWaits, BotSendsConfig, BotAnswers,
                BotDisconnected, Reconnect, BotCrashes
  <2>. DEFINE B == conn[bconn].toBot
  <2>2. B # <<>> /\ BotHead = Head(B) /\ BotHead.type = "Frame" /\ btok' = BotHead.tok
    BY <1>1, <2>1 DEF BotReads, BotEndsMatch, NextMatch, BotSends, Reconnect, BotHead
  <2>3. bconn \in Conns /\ bconn # NoConn
    BY <1>1, TypesThere DEF Ends
  <2>4. BotHead = B[1] /\ 1 \in DOMAIN B /\ Len(B) \in Nat \ {0}
    <3>1. B \in Seq(ToBotMsgs)
      BY <1>1, <2>3, TypesThere
    <3>. HIDE DEF B
    <3>. QED  BY <2>2, <3>1, Taken
  <2>5. CASE bconn = peer
    <3>1. Q = B /\ Q[1].type = "Frame" /\ 1 \in DOMAIN Q
      BY <2>2, <2>4, <2>5 DEF Q
    <3>2. shim = "commands" /\ Q[1].tok = <<game, frame>> /\ Len(Q) = 1
      BY <1>1, <2>3, <2>5, <3>1 DEF Channels, ToBotOK
    <3>3. DOMAIN Q = 1..Len(Q)
      BY <1>1, <2>3, <2>5, View
    <3>4. Open /\ Linked /\ match = "running"
      BY <1>1, <2>3, <2>5, <3>1, <3>2, <3>3 DEF Open, Linked, Calls
    <3>5. bgame = game /\ (blast = NoTok \/ blast[2] <= frame)
      BY <1>1, <3>4 DEF Session, OpenGame, OpenLast
    <3>. QED  BY <2>2, <2>4, <3>1, <3>2, <3>5
  <2>6. CASE bconn # peer
    BY <1>1, <2>2, <2>3, <2>4, <2>6 DEF Stale
  <2>. QED  BY <2>5, <2>6
<1>. QED  BY <1>1, Invariance, PTL DEF Spec, FramesInOrder

\* The game's side of the link, seen through (shim = "commands") and
\* (peer \in adrift), is the Lockstep specification: a decision is asked once
\* and answered by the Commands for that very decision or given up, and the
\* frame count moves on only when none is open; after one that was left
\* unanswered, the Commands may be late until the connection is closed.
Adrift == peer \in adrift
AdriftLasts == Adrift' = Adrift \/ ~Adrift'

LEMMA AdriftIsConnection == ASSUME AdriftLasts  PROVE Game!Connection
<1>. SUFFICES Adrift' = Adrift \/ Adrift' = FALSE
  BY DEF Game!Connection, Adrift
<1>1. CASE ~Adrift'
  <2>1. Adrift' \in BOOLEAN
    BY DEF Adrift
  <2>. QED  BY <1>1, <2>1
<1>. QED  BY <1>1 DEF AdriftLasts

LEMMA FrameMovesOn ==
    ASSUME match = "running", frame <= MaxFrame, FrameDone, shim # "commands", AdriftLasts,
           UNCHANGED <<match, game, applied>>
    PROVE  Game!Next \/ UNCHANGED Game!vars
<1>1. (frame' = frame \/ frame' = frame + 1) /\ shim' = "idle"
  BY DEF FrameDone
<1>2. CASE frame' = frame + 1
  <2>1. Game!Advance
    BY <1>1, <1>2, AdriftIsConnection DEF Game!Advance
  <2>. QED  BY <2>1 DEF Game!Next
<1>3. CASE frame' = frame /\ Adrift' = Adrift
  BY <1>1, <1>3 DEF Game!vars, Adrift
<1>4. CASE frame' = frame /\ ~Adrift'
  <2>1. Game!Leave
    BY <1>1, <1>4 DEF Game!Leave, Adrift
  <2>. QED  BY <2>1 DEF Game!Next
<1>5. Adrift' = Adrift \/ ~Adrift'
  BY DEF AdriftLasts
<1>. QED  BY <1>1, <1>2, <1>3, <1>4, <1>5

LEMMA NothingMoves ==
    ASSUME UNCHANGED <<match, game, frame, applied>>, (shim = "commands") = (shim = "commands")',
           Adrift' = Adrift \/ (~Adrift' /\ shim # "commands")
    PROVE  Game!Next \/ UNCHANGED Game!vars
<1>1. CASE Adrift' = Adrift
  BY <1>1 DEF Game!vars, Adrift
<1>2. CASE ~Adrift' /\ shim # "commands"
  <2>1. Game!Leave
    BY <1>2 DEF Game!Leave, Adrift
  <2>. QED  BY <2>1 DEF Game!Next
<1>. QED  BY <1>1, <1>2

\* Only RecvCommands leaves a decision unanswered: any other step of the host
\* keeps the shim's connection as it is, or closes it, or takes one that nothing
\* has happened on yet.
LEMMA HostAdrift ==
    ASSUME IInv, HostNext
    PROVE  AdriftLasts \/ RecvCommands
<1>. USE DEF IInv, Core
<1>1. \A c \in Conns : backlog = <<c>> => c \notin adrift
  BY DEF Told
<1>2. adrift' = adrift \/ RecvCommands
  BY DEF HostNext, MatchStart, Accept, AcceptFails, RecvConfig, LoseHandshake, GameEvent, GamePauses,
         OnFrame, ExchangeFrame, LoseBot, MatchEnd, GameDies, NoFault, StubThrows
<1>3. peer' \in {peer, NoConn} \/ \E c \in Conns : backlog = <<c>> /\ peer' \in {c, NoConn} /\ Accept
  <2>1. CASE Accept
    <3>1. PICK c \in Conns : backlog = <<c>>
      BY <2>1 DEF Accept, Ends
    <3>2. peer' \in {c, NoConn}
      BY <2>1, <3>1 DEF Accept, SendHello
    <3>. QED  BY <2>1, <3>1, <3>2
  <2>2. CASE MatchStart
    BY <2>2 DEF MatchStart, SendHello
  <2>3. CASE ~Accept /\ ~MatchStart
    BY <2>3 DEF HostNext, AcceptFails, RecvConfig, LoseHandshake, GameEvent, GamePauses, OnFrame,
                ExchangeFrame, RecvCommands, LoseBot, MatchEnd, GameDies, DropPeer, shimVars
  <2>. QED  BY <2>1, <2>2, <2>3
<1>4. NoConn \notin adrift
  BY TypesThere
<1>5. CASE RecvCommands
  BY <1>5
<1>6. CASE adrift' = adrift /\ peer' = peer
  <2>1. Adrift' = Adrift
    BY <1>6 DEF Adrift
  <2>. QED  BY <2>1 DEF AdriftLasts
<1>7. CASE adrift' = adrift /\ peer' \notin adrift
  <2>1. ~Adrift'
    BY <1>7 DEF Adrift
  <2>. QED  BY <2>1 DEF AdriftLasts
<1>. QED  BY <1>1, <1>2, <1>3, <1>4, <1>5, <1>6, <1>7

LEMMA StepIsLockstep == ASSUME IInv, [Next]_vars  PROVE [Game!Next]_(Game!vars)
<1>. USE DEF IInv, Core
<1>. SUFFICES Game!Next \/ UNCHANGED Game!vars
  OBVIOUS
<1>1. shim # "idle" => match = "running" /\ (after = "frame" => frame <= MaxFrame)
  BY DEF Calls
<1>2. CASE MatchStart
  <2>1. shim = "idle" /\ shim' \in {"idle", "config", "accept"}
    BY <1>2 DEF MatchStart, SendHello
  <2>2. AdriftLasts
    BY <1>2, <2>1, HostAdrift DEF HostNext, RecvCommands
  <2>3. Game!Start
    BY <1>2, <2>1, <2>2, AdriftIsConnection DEF MatchStart, Game!Start
  <2>. QED  BY <2>3 DEF Game!Next
<1>3. CASE Accept \/ LoseHandshake
  <2>1. shim # "commands" /\ shim' # "commands" /\ UNCHANGED <<match, game, frame, applied>>
    BY <1>3 DEF Accept, SendHello, LoseHandshake, gameVars
  <2>2. AdriftLasts
    BY <1>3, <2>1, HostAdrift DEF HostNext, RecvCommands
  <2>. QED  BY <2>1, <2>2, NothingMoves DEF AdriftLasts, Adrift
<1>4. CASE AcceptFails
  <2>1. UNCHANGED <<peer, adrift, match, game, applied>> /\ shim = "accept"
    BY <1>4 DEF AcceptFails
  <2>2. CASE after = "frame"
    BY <1>1, <1>4, <2>1, <2>2, FrameMovesOn DEF AcceptFails, CallbackReturns, AdriftLasts, Adrift
  <2>3. CASE after # "frame"
    BY <1>4, <2>1, <2>3, NothingMoves DEF AcceptFails, CallbackReturns, SameFrame, Adrift
  <2>. QED  BY <2>2, <2>3
<1>5. CASE RecvConfig
  <2>1. shim = "config" /\ UNCHANGED <<match, game, applied>>
        /\ ((SameFrame /\ shim' \in {"exchange", "idle", "accept"}) \/ CallbackReturns)
    BY <1>5 DEF RecvConfig
  <2>2. AdriftLasts
    BY <1>5, <2>1, HostAdrift DEF HostNext, RecvCommands
  <2>3. CASE CallbackReturns /\ after = "frame"
    BY <1>1, <2>1, <2>2, <2>3, FrameMovesOn DEF CallbackReturns
  <2>4. CASE CallbackReturns /\ after # "frame"
    BY <2>1, <2>2, <2>4, NothingMoves DEF CallbackReturns, SameFrame, AdriftLasts, Adrift
  <2>5. CASE SameFrame /\ shim' \in {"exchange", "idle", "accept"}
    BY <2>1, <2>2, <2>5, NothingMoves DEF SameFrame, AdriftLasts, Adrift
  <2>. QED  BY <2>1, <2>3, <2>4, <2>5
<1>6. CASE GameEvent \/ GamePauses
  BY <1>6, NothingMoves DEF GameEvent, GamePauses, SameFrame, NoFault, shimVars, Adrift
<1>7. CASE OnFrame
  <2>1. shim = "idle" /\ match = "running" /\ frame <= MaxFrame /\ UNCHANGED <<match, game, applied>>
        /\ (FrameDone \/ (shim' \in {"exchange", "accept"} /\ SameFrame)) /\ UNCHANGED <<peer, adrift>>
    BY <1>7 DEF OnFrame, NoFault
  <2>. QED  BY <2>1, FrameMovesOn, NothingMoves DEF SameFrame, AdriftLasts, Adrift
<1>8. CASE ExchangeFrame
  <2>1. shim = "exchange" /\ after = "frame" /\ UNCHANGED <<match, game, applied>>
        /\ ((shim' = "commands" /\ SameFrame /\ UNCHANGED <<peer, adrift>>) \/ FrameDone)
    BY <1>8 DEF ExchangeFrame, Calls, NoFault
  <2>2. CASE FrameDone
    <3>1. AdriftLasts
      BY <1>8, <2>1, HostAdrift DEF HostNext, RecvCommands
    <3>. QED  BY <1>1, <2>1, <2>2, <3>1, FrameMovesOn
  <2>3. CASE shim' = "commands" /\ SameFrame /\ UNCHANGED <<peer, adrift>>
    <3>1. Game!Ask
      BY <1>1, <2>1, <2>3 DEF SameFrame, Game!Ask
    <3>. QED  BY <3>1 DEF Game!Next
  <2>. QED  BY <2>1, <2>2, <2>3
<1>9. CASE RecvCommands
  <2>. DEFINE m == Head(conn[peer].toShim)
  <2>1. /\ shim = "commands" /\ peer # NoConn /\ R # <<>> /\ m = Head(R) /\ peer \in Conns
        /\ UNCHANGED <<match, game, peer>> /\ frame \in Nat
    BY <1>9, TypesThere DEF RecvCommands, Ends, R
  <2>2. \/ m.type = "Commands" /\ applied' = m.tok /\ FrameDone /\ UNCHANGED adrift
        \/ m.type # "Commands" /\ UNCHANGED <<applied, shim, adrift>> /\ SameFrame
        \/ FrameDone /\ UNCHANGED applied /\ adrift' = adrift \cup {peer}
    BY <1>9 DEF RecvCommands, NoFault, StubThrows, DecisionThrows
  <2>. HIDE DEF m
  <2>3. CASE m.type = "Commands" /\ applied' = m.tok /\ FrameDone /\ UNCHANGED adrift
    <3>1. R \in Seq(ToShimMsgs)
      BY <2>1, TypesThere DEF R
    <3>2. Head(R) = R[1] /\ Len(R) \in Nat \ {0} /\ DOMAIN R = 1..Len(R) /\ Head(R) \in ToShimMsgs
      BY <2>1, <3>1, Taken, HeadTailProperties
    <3>3. m = R[1] /\ 1 \in DOMAIN R /\ m.tok \in Decisions
      BY <2>1, <2>3, <3>2, ToShimKinds
    <3>4. peer \notin adrift => m.tok = <<game, frame>>
      BY <2>1, <2>3, <3>3 DEF Channels, ToShimOK, Tight
    <3>5. Game!Decisions = Decisions
      BY DEF Game!Decisions, Decisions
    <3>6. Game!Answer
      BY <2>1, <2>3, <3>3, <3>4, <3>5 DEF FrameDone, Game!Answer
    <3>. QED  BY <3>6 DEF Game!Next
  <2>4. CASE m.type # "Commands" /\ UNCHANGED <<applied, shim, adrift>> /\ SameFrame
    BY <2>1, <2>4, NothingMoves DEF SameFrame, Adrift
  <2>5. CASE FrameDone /\ UNCHANGED applied /\ adrift' = adrift \cup {peer}
    <3>1. Game!Abandon
      BY <2>1, <2>5 DEF FrameDone, Game!Abandon
    <3>. QED  BY <3>1 DEF Game!Next
  <2>. QED  BY <2>2, <2>3, <2>4, <2>5
<1>10. CASE LoseBot
  <2>1. Game!GiveUp
    BY <1>10, TypesThere DEF LoseBot, FrameDone, DropPeer, NoFault, Game!GiveUp
  <2>. QED  BY <2>1 DEF Game!Next
<1>11. CASE MatchEnd
  <2>1. AdriftLasts
    BY <1>11, HostAdrift DEF HostNext, RecvCommands, MatchEnd
  <2>2. Game!End
    BY <1>11, <2>1, AdriftIsConnection DEF MatchEnd, Game!End
  <2>. QED  BY <2>2 DEF Game!Next
<1>12. CASE GameDies
  <2>1. UNCHANGED adrift
    BY <1>12 DEF GameDies
  <2>2. CASE mode = "client" /\ shim = "idle" /\ UNCHANGED <<shimVars, backlog, conn>>
    <3>1. Game!End
      BY <1>12, <2>1, <2>2 DEF GameDies, shimVars, Game!End, Game!Connection
    <3>. QED  BY <3>1 DEF Game!Next
  <2>3. CASE mode = "module" /\ shim' = "idle" /\ applied' = NoTok /\ peer' = NoConn
    <3>1. Game!Die
      BY <1>12, <2>1, <2>3, TypesThere DEF GameDies, NoTok, Game!Die, Game!None
    <3>. QED  BY <3>1 DEF Game!Next
  <2>. QED  BY <1>12, <2>2, <2>3 DEF GameDies
<1>13. CASE \/ BotStarts \/ BotConnects \/ BotWaits \/ BotReads \/ BotSendsConfig
            \/ BotAnswers \/ BotDisconnected \/ BotCrashes
  <2>1. UNCHANGED <<match, game, frame, applied, shim, peer>>
    BY <1>13 DEF BotStarts, BotConnects, BotWaits, BotReads, BotSendsConfig, BotAnswers,
                 BotDisconnected, BotCrashes, hostVars, gameVars, shimVars
  <2>2. Adrift' = Adrift
    <3>1. CASE BotConnects
      <4>1. PICK c \in Conns : conn[c] = FreeConn /\ adrift' = adrift \ {c}
        BY <3>1 DEF BotConnects
      <4>2. peer # c
        BY <4>1 DEF Ends, FreeConn
      <4>. QED  BY <2>1, <4>1, <4>2 DEF Adrift
    <3>2. CASE ~BotConnects
      <4>1. UNCHANGED adrift
        BY <1>13, <3>2 DEF BotStarts, BotWaits, BotReads, BotSendsConfig, BotAnswers,
                           BotDisconnected, BotCrashes
      <4>. QED  BY <2>1, <4>1 DEF Adrift
    <3>. QED  BY <3>1, <3>2
  <2>. QED  BY <2>1, <2>2, NothingMoves
<1>14. CASE UNCHANGED vars
  BY <1>14, NothingMoves DEF vars, gameVars, shimVars, Adrift
<1>. QED  BY <1>2, <1>3, <1>4, <1>5, <1>6, <1>7, <1>8, <1>9, <1>10, <1>11, <1>12, <1>13, <1>14
         DEF Next

\* The link implements the Lockstep specification, whatever the bot does, loses
\* or crashes in.
THEOREM LinkIsLockstep == Spec => LockstepSpec
<1>1. Init => Game!Init
  BY NoConnAssumption DEF Init, NoTok, Game!Init, Game!None
<1>. QED  BY <1>1, StepIsLockstep, Invariance, PTL DEF Spec, LockstepSpec, Game!Spec

=============================================================================
