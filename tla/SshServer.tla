------------------------------- MODULE SshServer -------------------------------
(***************************************************************************)
(* libssh/examples/server/main/server.c: one task accepts a session, waits *)
(* until its client has given the password and opened a channel, serves    *)
(* the channel until it closes, and goes on to the next session.  What the *)
(* callbacks learn is kept in three globals that outlive the session.      *)
(*                                                                         *)
(* ssh_event_dopoll() runs the callbacks of the packets that have come, of *)
(* one session only, and any number of them in one call.  The library lets *)
(* a packet through only at its stage of the protocol.                     *)
(***************************************************************************)
EXTENDS Integers, FiniteSets

CONSTANTS
    Client,     \* the clients
    Nobody,     \* NULL
    MaxTries,   \* 3
    MaxPolls,   \* 100, the calls of dopoll before the wait is given up
    Visits      \* bound of the model: how often a client connects

ASSUME SshAssumption ==
    /\ Nobody \notin Client
    /\ {MaxTries, MaxPolls, Visits} \subseteq Nat \ {0}

VARIABLES
    pc,             \* where the task is
    session,        \* the client of session, or Nobody
    authenticated,  \* the globals
    tries,
    channel,        \* the client whose session the channel belongs to
    polls,          \* polls so far
    stage,          \* per client: how far the library is in the protocol
    visits,         \* per client: connections made
    failed,         \* per client: wrong passwords of its session (history)
    passed,         \* per client: gave the right one (history)
    replied         \* per client: what data_function wrote to it (history)

globals == <<authenticated, tries, channel>>
history == <<failed, passed, replied>>
sshVars == <<pc, session, globals, polls, stage, visits, history>>

Polling == {"poll_wait", "poll_serve"}
OpenStage == {"channel", "pty", "shell"}
Stage == {"away", "pending", "exchange", "auth", "password", "granted", "gone"}
           \cup OpenStage

\* ssh_channel_is_open(): of the client's own channel.  Mutant: the pointer is
\* tested instead.
IsSet(c) == c # Nobody
IsOpen(c) == c # Nobody /\ stage[c] \in OpenStage

SshTypeOK ==
    /\ pc \in {"listen", "accept", "exchange", "setup", "wait", "serve", "cleanup",
               "stopped"} \cup Polling
    /\ session \in Client \cup {Nobody}
    /\ authenticated \in BOOLEAN
    /\ tries \in 0..MaxTries
    /\ channel \in Client \cup {Nobody}
    /\ polls \in 0..MaxPolls
    /\ stage \in [Client -> Stage]
    /\ visits \in [Client -> 0..Visits]
    /\ failed \in [Client -> 0..MaxTries]
    /\ passed \in [Client -> BOOLEAN]
    /\ replied \in [Client -> SUBSET {"prefix", "data", "prompt"}]

SshInit ==
    /\ pc = "listen"
    /\ session = Nobody
    /\ authenticated = FALSE
    /\ tries = 0
    /\ channel = Nobody
    /\ polls = 0
    /\ stage = [c \in Client |-> "away"]
    /\ visits = [c \in Client |-> 0]
    /\ failed = [c \in Client |-> 0]
    /\ passed = [c \in Client |-> FALSE]
    /\ replied = [c \in Client |-> {}]

Goto(p) == pc' = p
Enter(c, s) == stage' = [stage EXCEPT ![c] = s]

----------------------------------------------------------------------------
\* The callbacks.  Each needs a packet of the session that is polled.

Packet(s) == pc \in Polling /\ session # Nobody /\ stage[session] \in s

\* auth_none: denied; the client is told that passwords are taken.
AuthNone ==
    /\ Packet({"auth"})
    /\ Enter(session, "password")
    /\ UNCHANGED <<pc, session, globals, polls, visits, history>>

\* auth_password, the right one.
AuthSucceeds ==
    /\ Packet({"auth", "password"})
    /\ authenticated' = TRUE
    /\ Enter(session, "granted")
    /\ passed' = [passed EXCEPT ![session] = TRUE]
    /\ UNCHANGED <<pc, session, tries, channel, polls, visits, failed, replied>>

\* Where wrong password number t leaves the session: the last try disconnects.
\* Mutant: it only denies.
AfterFailureDenied(t) == "password"
AfterFailure(t) == IF t >= MaxTries THEN "gone" ELSE "password"

\* auth_password, a wrong one.
AuthFails ==
    /\ Packet({"auth", "password"})
    /\ tries' = tries + 1
    /\ Enter(session, AfterFailure(tries'))
    /\ failed' = [failed EXCEPT ![session] = @ + 1]
    /\ UNCHANGED <<pc, session, authenticated, channel, polls, visits, passed, replied>>

\* channel_open: only one channel; a second request is refused and changes nothing.
ChannelOpen ==
    /\ Packet({"granted"})
    /\ channel = Nobody
    /\ channel' = session
    /\ Enter(session, "channel")
    /\ UNCHANGED <<pc, session, authenticated, tries, polls, visits, history>>

PtyRequest ==
    /\ Packet({"channel"})
    /\ Enter(session, "pty")
    /\ UNCHANGED <<pc, session, globals, polls, visits, history>>

ShellRequest ==
    /\ Packet({"channel", "pty"})
    /\ Enter(session, "shell")
    /\ UNCHANGED <<pc, session, globals, polls, visits, history>>

\* data_function: ssh_channel_write() returns the number of bytes it took, and
\* anything but SSH_OK, which is zero, ends the function: after the prefix.
DataFunction ==
    /\ Packet({"shell"})
    /\ replied' = [replied EXCEPT ![session] = @ \cup {"prefix"}]
    /\ UNCHANGED <<pc, session, globals, polls, stage, visits, failed, passed>>

\* The client closes its channel, or the connection.
HangUp ==
    /\ Packet(Stage \ {"gone"})
    /\ Enter(session, "gone")
    /\ UNCHANGED <<pc, session, globals, polls, visits, history>>

Callback ==
    \/ AuthNone \/ AuthSucceeds \/ AuthFails \/ ChannelOpen
    \/ PtyRequest \/ ShellRequest \/ DataFunction \/ HangUp

----------------------------------------------------------------------------
\* app_main.

Listen ==
    /\ pc = "listen"
    /\ \E p \in {"accept", "stopped"} : Goto(p)
    /\ UNCHANGED <<session, globals, polls, stage, visits, history>>

\* ssh_bind_accept() and the session's callbacks.
Accept(c) ==
    /\ pc = "accept"
    /\ stage[c] = "pending"
    /\ session' = c
    /\ Goto("exchange")
    /\ Enter(c, "exchange")
    /\ failed' = [failed EXCEPT ![c] = 0]
    /\ passed' = [passed EXCEPT ![c] = FALSE]
    /\ replied' = [replied EXCEPT ![c] = {}]
    /\ UNCHANGED <<globals, polls, visits>>

AcceptFails(c) ==
    /\ pc = "accept"
    /\ stage[c] = "pending"
    /\ Enter(c, "gone")
    /\ UNCHANGED <<pc, session, globals, polls, visits, history>>

KeyExchange ==
    /\ pc = "exchange"
    /\ Goto("setup")
    /\ Enter(session, "auth")
    /\ UNCHANGED <<session, globals, polls, visits, history>>

\* ssh_event_new() and ssh_event_add_session().
AddSession ==
    /\ pc = "setup"
    /\ Goto("wait")
    /\ polls' = 0
    /\ UNCHANGED <<session, globals, stage, visits, history>>

\* The key exchange or the event fails: disconnect, free, continue.
SetupFails ==
    /\ pc \in {"exchange", "setup"}
    /\ Goto("accept")
    /\ session' = Nobody
    /\ Enter(session, "gone")
    /\ UNCHANGED <<globals, polls, visits, history>>

\* The condition of the wait for authentication and channel.
Waiting == ~authenticated \/ channel = Nobody
GivenUp == tries >= MaxTries \/ polls >= MaxPolls
\* Where the task goes once the wait is over.
AfterWait == IF channel # Nobody THEN "serve" ELSE "cleanup"

WaitLoop ==
    /\ pc = "wait"
    /\ IF Waiting /\ ~GivenUp THEN Goto("poll_wait") ELSE Goto(AfterWait)
    /\ UNCHANGED <<session, globals, polls, stage, visits, history>>

\* dopoll returns, for its time-out or for a packet.
PollEnds ==
    /\ \/ pc = "poll_wait" /\ Goto("wait") /\ polls' = polls + 1
       \/ pc = "poll_serve" /\ Goto("serve") /\ UNCHANGED polls
    /\ UNCHANGED <<session, globals, stage, visits, history>>

PollFails ==
    /\ pc \in Polling
    /\ Goto(IF pc = "poll_wait" THEN AfterWait ELSE "cleanup")
    /\ UNCHANGED <<session, globals, polls, stage, visits, history>>

ServeLoop ==
    /\ pc = "serve"
    /\ Goto(IF IsOpen(channel) THEN "poll_serve" ELSE "cleanup")
    /\ UNCHANGED <<session, globals, polls, stage, visits, history>>

\* Mutant: the channel only.
ResetChannelOnly == channel' = Nobody /\ UNCHANGED <<authenticated, tries>>
ResetGlobals ==
    /\ channel' = Nobody
    /\ authenticated' = FALSE
    /\ tries' = 0

CleanUp ==
    /\ pc = "cleanup"
    /\ ResetGlobals
    /\ Enter(session, "gone")
    /\ session' = Nobody
    /\ Goto("accept")
    /\ UNCHANGED <<polls, visits, history>>

AppMain ==
    \/ KeyExchange \/ AddSession \/ SetupFails \/ WaitLoop
    \/ PollEnds \/ PollFails \/ ServeLoop \/ CleanUp
    \/ \E c \in Client : Accept(c) \/ AcceptFails(c)

\* A client connects, again or for the first time.
Connect(c) ==
    /\ pc \notin {"listen", "stopped"}
    /\ stage[c] \in {"away", "gone"}
    /\ session # c
    /\ visits[c] < Visits
    /\ visits' = [visits EXCEPT ![c] = @ + 1]
    /\ Enter(c, "pending")
    /\ UNCHANGED <<pc, session, globals, polls, history>>

SshNext == Listen \/ AppMain \/ Callback \/ \E c \in Client : Connect(c)

SshSpec == SshInit /\ [][SshNext]_sshVars

\* The task runs on, every dopoll has a time-out, and accept() takes connections
\* in turn; a client whose channel is served leaves some day.
SshFairness ==
    /\ WF_sshVars(AppMain)
    /\ \A c \in Client : SF_sshVars(Accept(c) \/ AcceptFails(c))
    /\ SF_sshVars(pc = "poll_serve" /\ HangUp)

SshFairSpec == SshSpec /\ SshFairness

----------------------------------------------------------------------------

\* The globals speak of the session at hand, whatever the sessions before it
\* did and however they ended: its own wrong passwords, its own success, its
\* own channel; and of nobody between sessions.
GlobalsAreTheSessions ==
    IF session = Nobody
    THEN ~authenticated /\ tries = 0 /\ channel = Nobody
    ELSE /\ tries = failed[session]
         /\ authenticated = passed[session]
         /\ channel \in {Nobody, session}

\* Only a client that gave the password within its tries is served.
ServedIsAuthenticated ==
    pc \in {"serve", "poll_serve"} =>
        /\ channel = session
        /\ passed[session]
        /\ failed[session] < MaxTries

\* A client that has connected is taken from the queue, however many of the
\* clients before it stay silent, run out of tries or lose their connection.
PendingTaken ==
    \A c \in Client : stage[c] = "pending" ~> stage[c] # "pending"

----------------------------------------------------------------------------
(* The inductive invariant behind the safety properties.                   *)

\* There is a session outside of accept() only.
InSession == session = Nobody <=> pc \in {"listen", "accept", "stopped"}

\* A session that is being set up starts clean.
StartsClean == pc \in {"exchange", "setup"} => ~authenticated /\ tries = 0 /\ channel = Nobody

\* What the stage of its protocol says of the session, and of the globals.
Staged ==
    session # Nobody =>
        /\ stage[session] \in {"auth", "password"} =>
              ~authenticated /\ channel = Nobody /\ tries < MaxTries
        /\ stage[session] = "granted" => authenticated
        /\ channel # Nobody => authenticated
        /\ authenticated => tries < MaxTries

\* A channel is there once it is served, and polls are left for the next one.
Polled ==
    /\ pc \in {"serve", "poll_serve"} => channel # Nobody
    /\ pc = "poll_wait" => polls < MaxPolls

SshInv ==
    /\ SshTypeOK
    /\ InSession /\ StartsClean /\ Staged /\ Polled
    /\ GlobalsAreTheSessions

=============================================================================
