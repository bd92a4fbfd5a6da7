---------------------------- MODULE SignalingHub ----------------------------
(***************************************************************************)
(* The SignalingHub and the MediaSessions of wl2:webrtc (the JavaScript in    *)
(* wl2_webrtc.cpp) behind the WebSockets of wl2:http, wired as docs/api.md    *)
(* shows: onMessage and onClose of the endpoint call the hub, whose answers   *)
(* are sent on the connection.  A handler of the hub is one step, as          *)
(* JavaScript runs it; what it sends follows, send by send.                   *)
(*                                                                          *)
(* The application's callbacks may throw or close the session.  The peer      *)
(* connection is outside the repository: a description that was asked for     *)
(* becomes ready at any time, and its calls may throw.                        *)
(***************************************************************************)
EXTENDS WebSockets

CONSTANTS
  Sessions,     \* sessions that can be created: PeerConnection.create fails after
  None          \* no session, no connection

ASSUME SignalingHubAssumption ==
  /\ None \notin Sessions \cup Conns
  /\ Texts = {"hello", "start", "answer", "pump", "stop"}

VARIABLES
  known,        \* connections with a record in _clients
  authed,       \* those whose record says authed
  session,      \* conn -> the session of its record
  life,         \* session -> "none", "started" or "closed"
  owner,        \* session -> its connection
  offer         \* session -> "no", "asked", "ready" or "sent"

records == <<known, authed, session>>
media == <<life, owner, offer>>
hub == <<records, media>>
vars == <<wsVars, hub>>

Init ==
  /\ WsInit
  /\ known = {} /\ authed = {} /\ session = [c \in Conns |-> None]
  /\ life = [s \in Sessions |-> "none"]
  /\ owner = [s \in Sessions |-> None]
  /\ offer = [s \in Sessions |-> "no"]

\* close() of sessions, of those that are not closed yet.
Closing(S) == [s \in Sessions |-> IF s \in S THEN "closed" ELSE life[s]]
Of(C) == {session[c] : c \in C} \ {None}

Says(calls) == say' = calls
Reply(c) == <<"send", c>>

-----------------------------------------------------------------------------
(* The hub. *)

\* A callback of a server that is closed is not made; the endpoint has no use for
\* onOpen.
Skip(what, c, text) ==
  /\ Dispatch(what, c, text) /\ (over \/ what = "open")
  /\ UNCHANGED <<say, hub>>

\* onMessage() finds the record of the connection or makes one.  (A text that is not
\* JSON goes no further, one of another type is handled as "pump".)
Heard(c, text) ==
  /\ Dispatch("message", c, text) /\ ~over
  /\ known' = known \cup {c}

\* _authenticateClient(): the application accepts the client or not.
Hello(c) ==
  /\ Heard(c, "hello")
  /\ \/ authed' = authed \cup {c} /\ Says(<<Reply(c)>>)
     \/ authed' = authed \ {c} /\ Says(<<Reply(c), <<"close", c>>>>)
  /\ UNCHANGED <<session, media>>

TooEarly(c, text) ==
  /\ Heard(c, text) /\ text # "hello" /\ c \notin authed
  /\ Says(<<Reply(c)>>)
  /\ UNCHANGED <<authed, session, media>>

\* pump() of session s, which was lf[s]: a hook closes the session first; or what is
\* ready is signalled, an offer, changes of state; a callback may close the
\* session between them.
Pump(s, c, lf, of) ==
  \/ /\ life' = [lf EXCEPT ![s] = "closed"]
     /\ offer' = of /\ Says(<<>>)
  \/ \E changes \in 0..1, stays \in BOOLEAN :
       /\ changes = 0 => stays
       /\ life' = IF stays THEN lf ELSE [lf EXCEPT ![s] = "closed"]
       /\ offer' = IF of[s] = "ready" THEN [of EXCEPT ![s] = "sent"] ELSE of
       /\ Says([i \in 1..(changes + IF of[s] = "ready" THEN 1 ELSE 0) |-> Reply(c)])

\* _startClient() when the peer connection cannot be created.
StartNothing(c) ==
  /\ Heard(c, "start") /\ c \in authed
  /\ life' = Closing(Of({c}))
  /\ session' = [session EXCEPT ![c] = None]
  /\ Says(<<>>)
  /\ UNCHANGED <<authed, owner, offer>>

\* The application or start() throws: the session is closed and forgotten.
StartFails(c, s) ==
  /\ Heard(c, "start") /\ c \in authed /\ life[s] = "none"
  /\ life' = Closing(Of({c}) \cup {s})
  /\ owner' = [owner EXCEPT ![s] = c]
  /\ session' = [session EXCEPT ![c] = None]
  /\ Says(<<Reply(c)>>)
  /\ UNCHANGED <<authed, offer>>

\* Mutant of Start: the session that the client had is only replaced.
StartOver(c, s) ==
  /\ Heard(c, "start") /\ c \in authed /\ life[s] = "none"
  /\ owner' = [owner EXCEPT ![s] = c]
  /\ session' = [session EXCEPT ![c] = s]
  /\ \E ready \in {"asked", "ready"} :
       Pump(s, c, [life EXCEPT ![s] = "started"], [offer EXCEPT ![s] = ready])
  /\ UNCHANGED authed

\* The session of the client is replaced; start() asks for an offer and pumps,
\* unless the application has closed the session (the first case of Pump).
Start(c, s) ==
  /\ Heard(c, "start") /\ c \in authed /\ life[s] = "none"
  /\ owner' = [owner EXCEPT ![s] = c]
  /\ session' = [session EXCEPT ![c] = s]
  /\ \E ready \in {"asked", "ready"} :
       Pump(s, c, [Closing(Of({c})) EXCEPT ![s] = "started"],
            [offer EXCEPT ![s] = ready])
  /\ UNCHANGED authed

Live(c) == session[c] # None /\ life[session[c]] = "started"

\* handleSignal(): an answer the peer connection refuses is reported.
Signal(c, text) ==
  /\ Heard(c, text) /\ text \in {"answer", "pump"} /\ c \in authed /\ Live(c)
  /\ \/ text = "answer" /\ Says(<<Reply(c)>>) /\ UNCHANGED <<life, offer>>
     \/ Pump(session[c], c, life, offer)
  /\ UNCHANGED <<authed, session, owner>>

Stop(c) ==
  /\ Heard(c, "stop") /\ c \in authed /\ Live(c)
  /\ life' = Closing(Of({c})) /\ Says(<<>>)
  /\ UNCHANGED <<authed, session, owner, offer>>

\* Nobody to hand the message to.
Ignore(c, text) ==
  /\ Heard(c, text) /\ text \in {"answer", "pump", "stop"} /\ c \in authed /\ ~Live(c)
  /\ Says(<<>>)
  /\ UNCHANGED <<authed, session, media>>

\* onClose()
OnClose(c) ==
  /\ Dispatch("close", c, "") /\ ~over
  /\ life' = Closing(Of({c}))
  /\ known' = known \ {c} /\ authed' = authed \ {c}
  /\ session' = [session EXCEPT ![c] = None]
  /\ UNCHANGED <<say, owner, offer>>

\* hub.close(), called by the application.
Close ==
  /\ say = <<>>
  /\ life' = Closing(Of(known))
  /\ known' = {} /\ authed' = {} /\ session' = [c \in Conns |-> None]
  /\ UNCHANGED <<wsVars, owner, offer>>

\* session.close(), called by the application.
CloseSession(s) ==
  /\ say = <<>> /\ life[s] = "started"
  /\ life' = Closing({s})
  /\ UNCHANGED <<wsVars, records, owner, offer>>

\* session.pump(), called by the application.
PumpSession(s) ==
  /\ say = <<>> /\ life[s] = "started"
  /\ Pump(s, owner[s], life, offer)
  /\ UNCHANGED <<sockets, tasks, jobs, told, records, owner>>

\* A thread of the library has the description that was asked for.
Describe(s) ==
  /\ life[s] = "started" /\ offer[s] = "asked"
  /\ offer' = [offer EXCEPT ![s] = "ready"]
  /\ UNCHANGED <<wsVars, records, life, owner>>

-----------------------------------------------------------------------------
Handlers ==
  \/ \E c \in Conns :
       \/ Skip("open", c, "") \/ Skip("close", c, "") \/ OnClose(c)
       \/ Hello(c) \/ StartNothing(c) \/ Stop(c)
       \/ \E s \in Sessions : StartFails(c, s) \/ Start(c, s)
       \/ \E text \in Texts :
            Skip("message", c, text) \/ TooEarly(c, text) \/ Signal(c, text)
              \/ Ignore(c, text)

\* The calls that the callback in progress makes.
Calls == /\ \E c \in Conns : Hangup(c) \/ \E what \in Sends : Send(c, what)
         /\ UNCHANGED hub

App ==
  \/ CloseServer /\ UNCHANGED hub
  \/ Close
  \/ \E s \in Sessions : CloseSession(s) \/ PumpSession(s)

Worker ==
  /\ RunCloseServer \/ \E c \in Conns : RunBye(c) \/ \E what \in Sends : RunSend(c, what)
  /\ UNCHANGED hub

Network ==
  /\ \E c \in Conns : \/ Upgrade(c) \/ TooBig(c) \/ CloseFrame(c) \/ Flushed(c)
                      \/ \E text \in Texts : Message(c, text)
  /\ UNCHANGED hub

Next == Handlers \/ Calls \/ App \/ Worker \/ Network \/ \E s \in Sessions : Describe(s)

Spec == Init /\ [][Next]_vars

\* The two threads run.  Callbacks are taken from a queue in order, so that turns of
\* the application do not keep them waiting for ever.  Nothing is assumed of clients
\* and of the application.
FairSpec == Spec /\ SF_vars(Handlers) /\ WF_vars(Calls) /\ WF_vars(Worker)

-----------------------------------------------------------------------------
(* Properties. *)

TypeOK ==
  /\ WsTypeOK
  /\ known \subseteq Conns /\ authed \subseteq known
  /\ session \in [Conns -> Sessions \cup {None}]
  /\ life \in [Sessions -> {"none", "started", "closed"}]
  /\ owner \in [Sessions -> Conns \cup {None}]
  /\ offer \in [Sessions -> {"no", "asked", "ready", "sent"}]

\* A session that runs is the one session of a record of the hub, and the hub will
\* yet be told of the end of its connection, unless the server was closed: no
\* restart, failure, hub.close() or late message leaves a session, with its
\* pipeline, that nobody can close.
NoGhostSession ==
  \A s \in Sessions : life[s] = "started" =>
    /\ owner[s] \in known /\ session[owner[s]] = s
    /\ link[owner[s]] = "down" =>
         over \/ \E i \in DOMAIN jobs : jobs[i] = <<"close", owner[s], "">>

\* When a connection is gone its sessions end, unless the server is closed first.
SessionsFollow ==
  \A c \in Conns :
    link[c] = "down" ~> over \/ \A s \in Sessions : owner[s] = c => life[s] # "started"
=============================================================================
