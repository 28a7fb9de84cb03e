--------------------------- MODULE MakerSessions ----------------------------
(***************************************************************************)
(* The maker channel: the engine's WebSocket sessions of one maker address *)
(* (server.ts) and the bots that quote for it (maker-bot index.ts and      *)
(* transport.ts), of which a second may start before the first stops.      *)
(* Messages of a connection arrive in order until it goes down, which each *)
(* end notices on its own: the server by its heartbeat or a close event.   *)
(* Signatures and verifications take time, and so does pricing a quote;    *)
(* pricing that fails, and quotes the engine refuses for what they say,    *)
(* are left out, and so are the engine's answers to quotes.                *)
(***************************************************************************)
EXTENDS Integers, Sequences, SequencesExt

CONSTANTS
    Auctions,       \* RFQs
    Bots,           \* bot processes of one maker
    MaxConnections  \* bound: connections opened

ASSUME MakerAssumption == MaxConnections \in Nat /\ IsFiniteSet(Auctions)

Connections == 1..MaxConnections
NoConnection == 0

VARIABLES
    auction,   \* auction[r]: "none", "stored", "open" once announced, "ended", "closed"
    quotes,    \* the auctions that hold a quote of the maker
    session,   \* session[c]: the server's side of a connection
    toBot,     \* toBot[c], toServer[c]: messages under way
    toServer,
    bot        \* bot[b]: the state of its MakerWsClient and of cmdRun

makerVars == <<auction, quotes, session, toBot, toServer, bot>>

-----------------------------------------------------------------------------
NoSession == [opened |-> FALSE, up |-> FALSE, registered |-> FALSE,
              named |-> FALSE, verifying |-> {}, replay |-> {}]

Used == {c \in Connections : session[c].opened}
InStore(r) == auction[r] \in {"stored", "open", "ended"}

\* Auctions to come or over; bots that run or do not, and not yet connected.
MakerInit ==
    /\ auction \in [Auctions -> {"none", "closed"}] /\ quotes = {}
    /\ session = [c \in Connections |-> NoSession]
    /\ toBot = [c \in Connections |-> <<>>] /\ toServer = [c \in Connections |-> <<>>]
    /\ \E off \in SUBSET Bots :
          bot = [b \in Bots |-> [ws |-> NoConnection, authed |-> FALSE, stopped |-> b \in off,
                                 signing |-> {}, building |-> {}, quoted |-> {}]]

\* sendWs: messages sent on a connection that is down are lost.
Sent(queues, c, messages) ==
    IF session[c].up THEN [queues EXCEPT ![c] = @ \o messages] ELSE queues

Authenticated(s) == s.registered /\ s.named

\* broadcastToMakers: to the authenticated sessions.
Hears(s) == Authenticated(s)

Broadcast(message) ==
    toBot' = [c \in Connections |->
                 IF Hears(session[c]) /\ session[c].up THEN Append(toBot[c], message)
                 ELSE toBot[c]]

\* openRfq: stored, then announced (rfq_open).
OpenRfq(r) ==
    /\ auction[r] = "none"
    /\ auction' = [auction EXCEPT ![r] = "stored"]
    /\ UNCHANGED <<quotes, session, toBot, toServer, bot>>

Announce(r) ==
    /\ auction[r] = "stored"
    /\ auction' = [auction EXCEPT ![r] = "open"]
    /\ Broadcast([type |-> "rfq_open", rfq |-> r])
    /\ UNCHANGED <<quotes, session, toServer, bot>>

\* auctionEndsAt passes; the timer closes the auction (rfq_closed).
AuctionEnds(r) ==
    /\ auction[r] = "open"
    /\ auction' = [auction EXCEPT ![r] = "ended"]
    /\ UNCHANGED <<quotes, session, toBot, toServer, bot>>

Closes(r) ==
    /\ auction[r] = "ended"
    /\ auction' = [auction EXCEPT ![r] = "closed"]
    /\ Broadcast([type |-> "rfq_closed", rfq |-> r])
    /\ UNCHANGED <<quotes, session, toServer, bot>>

\* connect and onMakerConnect: a new socket, a session and a challenge.
Connect(b, c) ==
    /\ bot[b].ws = NoConnection /\ ~bot[b].stopped
    /\ c \notin Used /\ \A d \in Connections : d < c => d \in Used
    /\ session' = [session EXCEPT ![c] = [@ EXCEPT !.opened = TRUE, !.up = TRUE,
                                                    !.registered = TRUE]]
    /\ toBot' = [toBot EXCEPT ![c] = <<[type |-> "auth_challenge"]>>]
    /\ bot' = [bot EXCEPT ![b].ws = c, ![b].authed = FALSE]
    /\ UNCHANGED <<auction, quotes, toServer>>

\* MakerWsClient.handle and cmdRun's onRfq and onEvent up to their first await.
Handled(b, c, m) ==
    CASE m.type = "auth_challenge" -> [b EXCEPT !.signing = @ \cup {c}]
      [] m.type = "auth_ok" -> [b EXCEPT !.authed = TRUE]
      [] m.type = "superseded" -> [b EXCEPT !.ws = NoConnection, !.stopped = TRUE]
      [] m.type = "rfq_closed" -> [b EXCEPT !.quoted = @ \ {m.rfq}]
      [] m.type = "rfq_open" ->
            IF m.rfq \in b.quoted \/ auction[m.rfq] \in {"ended", "closed"} THEN b
            ELSE [b EXCEPT !.building = @ \cup {m.rfq}]

BotReceives(b) ==
    LET c == bot[b].ws
    IN  /\ c # NoConnection /\ session[c].up /\ toBot[c] # <<>>
        /\ bot' = [bot EXCEPT ![b] = Handled(@, c, Head(toBot[c]))]
        /\ toBot' = [toBot EXCEPT ![c] = Tail(@)]
        /\ UNCHANGED <<auction, quotes, session, toServer>>

\* signMessage answers: auth goes out on whichever socket is then the client's.
Signed(b, c) ==
    /\ c \in bot[b].signing
    /\ bot' = [bot EXCEPT ![b].signing = @ \ {c}]
    /\ toServer' = IF bot[b].ws = NoConnection THEN toServer
                   ELSE Sent(toServer, bot[b].ws, <<[type |-> "auth", challenge |-> c]>>)
    /\ UNCHANGED <<auction, quotes, session, toBot>>

\* buildSignedQuote answers: sendQuote on a connected socket, authenticated or
\* not, and the RFQ counts as quoted; with no socket it throws and does not.
QuoteBuilt(b, r) ==
    /\ r \in bot[b].building
    /\ LET c == bot[b].ws
       IN  /\ bot' = [bot EXCEPT ![b].building = @ \ {r},
                                 ![b].quoted = IF c = NoConnection THEN @ ELSE @ \cup {r}]
           /\ toServer' = IF c = NoConnection THEN toServer
                          ELSE Sent(toServer, c, <<[type |-> "quote", rfq |-> r]>>)
    /\ UNCHANGED <<auction, quotes, session, toBot>>

\* onMakerMessage up to its first await: verifyMessage, or submitQuote, which
\* an unauthenticated session is refused.
ServerReceives(c) ==
    /\ session[c].up /\ toServer[c] # <<>>
    /\ LET m == Head(toServer[c])
       IN  IF m.type = "auth"
           THEN /\ session' = [session EXCEPT ![c].verifying = @ \cup {m.challenge = c}]
                /\ UNCHANGED quotes
           ELSE /\ quotes' = IF session[c].named /\ InStore(m.rfq)
                             THEN quotes \cup {m.rfq} ELSE quotes
                /\ UNCHANGED session
    /\ toServer' = [toServer EXCEPT ![c] = Tail(@)]
    /\ UNCHANGED <<auction, toBot, bot>>

\* Mutant: only sessions whose connection is down are superseded.
OlderDown(c) == {d \in Connections \ {c} : Authenticated(session[d]) /\ ~session[d].up}

\* The maker's other sessions.
Older(c) == {d \in Connections \ {c} : Authenticated(session[d])}

\* verifyMessage answers, perhaps after the connection closed: a good signature
\* supersedes the maker's other sessions, names this one and lists the open RFQs.
Verified(c, good) ==
    /\ good \in session[c].verifying
    /\ IF good
       THEN /\ session' = [d \in Connections |->
                  IF d \in Older(c) THEN [session[d] EXCEPT !.registered = FALSE]
                  ELSE IF d = c
                  THEN [session[c] EXCEPT !.verifying = @ \ {good}, !.named = TRUE,
                                          !.replay = {r \in Auctions : InStore(r)}]
                  ELSE session[d]]
            /\ toBot' = [d \in Connections |->
                  IF ~session[d].up THEN toBot[d]
                  ELSE IF d \in Older(c) THEN Append(toBot[d], [type |-> "superseded"])
                  ELSE IF d = c THEN Append(toBot[d], [type |-> "auth_ok"])
                  ELSE toBot[d]]
       ELSE /\ session' = [session EXCEPT ![c].verifying = @ \ {good}]
            /\ UNCHANGED toBot
    /\ UNCHANGED <<auction, quotes, toServer, bot>>

\* listOpenRfqs answers: the replay is sent.
ReplayOpen(c) ==
    /\ session[c].replay # {}
    /\ session' = [session EXCEPT ![c].replay = {}]
    /\ toBot' = Sent(toBot, c, SetToSeq({[type |-> "rfq_open", rfq |-> r] :
                                             r \in session[c].replay}))
    /\ UNCHANGED <<auction, quotes, toServer, bot>>

\* The connection goes down with what was under way; the ends notice later.
GoesDown(c) ==
    /\ session[c].up
    /\ session' = [session EXCEPT ![c].up = FALSE]
    /\ toBot' = [toBot EXCEPT ![c] = <<>>] /\ toServer' = [toServer EXCEPT ![c] = <<>>]
    /\ UNCHANGED <<auction, quotes, bot>>

\* close, error, or heartbeat: the server forgets the session.
ServerNotices(c) ==
    /\ session[c].registered /\ ~session[c].up
    /\ session' = [session EXCEPT ![c].registered = FALSE]
    /\ UNCHANGED <<auction, quotes, toBot, toServer, bot>>

\* The client's close event: it connects again, after a delay.
BotNotices(b) ==
    /\ bot[b].ws # NoConnection /\ ~session[bot[b].ws].up
    /\ bot' = [bot EXCEPT ![b].ws = NoConnection, ![b].authed = FALSE]
    /\ UNCHANGED <<auction, quotes, session, toBot, toServer>>

MakerNext ==
    \/ \E r \in Auctions : OpenRfq(r) \/ Announce(r) \/ AuctionEnds(r) \/ Closes(r)
    \/ \E b \in Bots : \/ BotReceives(b) \/ BotNotices(b)
                       \/ \E c \in Connections : Connect(b, c) \/ Signed(b, c)
                       \/ \E r \in Auctions : QuoteBuilt(b, r)
    \/ \E c \in Connections : \/ ServerReceives(c) \/ ReplayOpen(c)
                              \/ GoesDown(c) \/ ServerNotices(c)
                              \/ \E good \in BOOLEAN : Verified(c, good)

MakerSpec == MakerInit /\ [][MakerNext]_makerVars

-----------------------------------------------------------------------------
\* The auctions, the sessions and the bots have their types.
MakerTypeOK ==
    /\ auction \in [Auctions -> {"none", "stored", "open", "ended", "closed"}]
    /\ quotes \subseteq Auctions
    /\ \A c \in Connections : session[c].named => c \in Used
    /\ \A b \in Bots : /\ bot[b].ws \in Connections \cup {NoConnection}
                       /\ bot[b].building \cup bot[b].quoted \subseteq Auctions
                       /\ bot[b].signing \subseteq Used

UnderWay(c, r) == \E i \in DOMAIN toBot[c] : toBot[c][i] = [type |-> "rfq_open", rfq |-> r]

\* A maker has one registered session at most, and an announced auction reaches
\* its bot whatever else happens during authentication: it is to be replayed,
\* is under way, or is at the bot (server.ts onMakerMessage: supersede, name,
\* then list; the broadcast to named sessions).
LiveAuctionsReachMaker ==
    /\ \A c, d \in Connections : Authenticated(session[c]) /\ Authenticated(session[d]) => c = d
    /\ \A b \in Bots, r \in Auctions :
          LET c == bot[b].ws
          IN  c # NoConnection /\ auction[r] = "open" =>
              (Authenticated(session[c]) /\ session[c].up =>
                  \/ r \in session[c].replay \/ UnderWay(c, r)
                  \/ r \in bot[b].building \cup bot[b].quoted)

\* "Authenticates on every (re)connect; the engine replays currently-open RFQs
\* after auth_ok, so reconnects never miss live auctions" (transport.ts): a bot
\* that is authenticated and has nothing left to hear, build or send has a quote
\* in every auction that is still open.
ReconnectsMissNothing ==
    \A b \in Bots, r \in Auctions :
        LET c == bot[b].ws
        IN  /\ c # NoConnection /\ bot[b].authed /\ auction[r] = "open"
            /\ session[c].up /\ Authenticated(session[c]) /\ session[c].replay = {}
            /\ toBot[c] = <<>> /\ toServer[c] = <<>> /\ bot[b].building = {}
            => r \in quotes
=============================================================================
