------------------------------ MODULE Sessions ------------------------------
(***************************************************************************)
(* src/server/server.cpp and src/client/client.cpp together: the client    *)
(* program, the thread that serves its connection, and the table of names  *)
(* in use that the threads share.                                          *)
(*                                                                         *)
(* A client program sends one line and reads once.  Lines end with nothing *)
(* (client.cpp:340), so that lines sent before the server reads are read   *)
(* as one; an answer longer than the buffer (client.cpp:342) is read in    *)
(* parts, and what is left is what the next call reads.  A program may be  *)
(* killed at any time.  A connection that is closed while answers wait in  *)
(* it is reset, and so is one that an answer reaches after it was closed;  *)
(* an answer sent to a reset connection ends the server, since it handles  *)
(* no SIGPIPE (server.cpp:91).                                             *)
(*                                                                         *)
(* Abstractions.  What a command does in the engine is MatchingEngine's    *)
(* part; here it is answered or refused.  Each element of Conn is one      *)
(* connection at a time and used again when it is free.  The file          *)
(* descriptor in active_sessions is printed and otherwise unused.          *)
(***************************************************************************)
EXTENDS Naturals, Sequences

CONSTANTS Conn,      \* connections
          Name,      \* client ids that users choose
          NoConn,    \* the name is not in active_sessions
          NoName,    \* authenticated_client_id is empty
          Checked,   \* commands that name their client: ORDER and the like, all
                     \* treated alike but for the answer to VWAP_STATUS
          MaxUnread  \* bound: lines and answers of a connection that wait to be read

VARIABLES
  client,           \* the program: "out", at the "menu", "leaving", or the request
                    \* whose answer it waits for
  user,             \* its client_id; NoName also if the user typed none
  link,             \* "none", "open", or as the program left it: "closed", "reset"
  requests,         \* lines the server has not read
  answers,          \* answers the program has not read, or not entirely
  serving,          \* is there a thread in handle_client?
  identity,         \* its authenticated_client_id
  active_sessions,  \* [Name -> connection registered for it]
  server,           \* "up" or "down"
  parted,           \* history: did a read leave some of the answers behind?
  logged_out        \* history: names under which a LOGOUT was answered and that some
                    \* thread has used ever since

table == <<active_sessions, logged_out>>
vars == <<client, user, link, requests, answers, serving, identity, table, server,
          parted>>

Command == Checked \cup {"BOOK"}
Request == Command \cup {"LOGIN", "LOGOUT"}

\* A long answer needs more than one read.
Reply == [to : Request, is : {"done", "refused", "long"}]

ASSUME NothingAssumption == NoConn \notin Conn /\ NoName \notin Name
ASSUME CommandAssumption ==
  Checked \subseteq {"ORDER", "STOP_LIMIT_ORDER", "TRAILING_STOP_ORDER", "VWAP_ORDER",
                     "VWAP_STATUS", "CANCEL"}
ASSUME BoundAssumption == MaxUnread \in Nat \ {0}

Init ==
  /\ client = [c \in Conn |-> "out"]
  /\ user = [c \in Conn |-> NoName]
  /\ link = [c \in Conn |-> "none"]
  /\ requests = [c \in Conn |-> <<>>]
  /\ answers = [c \in Conn |-> <<>>]
  /\ serving = [c \in Conn |-> FALSE]
  /\ identity = [c \in Conn |-> NoName]
  /\ active_sessions = [n \in Name |-> NoConn]
  /\ server = "up"
  /\ parted = [c \in Conn |-> FALSE]
  /\ logged_out = {}
-----------------------------------------------------------------------------
(***************************************************************************)
(* The client program.                                                     *)
(***************************************************************************)
\* main, connect_to_server and the first half of login; n is NoName at the end of the
\* input.
Connect(c, n) ==
  /\ client[c] = "out" /\ link[c] = "none"
  /\ user' = [user EXCEPT ![c] = n]
  /\ link' = [link EXCEPT ![c] = "open"]
  /\ client' = [client EXCEPT ![c] = "LOGIN"]
  /\ requests' = [requests EXCEPT ![c] = <<"LOGIN">>]
  /\ UNCHANGED <<answers, serving, identity, table, server, parted>>

\* A command of the menu: place_order and its siblings, get_vwap_status, get_book,
\* and logout for LOGOUT and QUIT.
Ask(c, r) ==
  /\ client[c] = "menu"
  /\ Len(requests[c]) + Len(answers[c]) < MaxUnread
  /\ client' = [client EXCEPT ![c] = r]
  /\ requests' = [requests EXCEPT ![c] = Append(@, r)]
  /\ UNCHANGED <<user, link, answers, serving, identity, table, server, parted>>

\* What the program does next, after an answer that begins with reply a.
After(c, a) ==
  IF client[c] = "LOGOUT" \/ (client[c] = "LOGIN" /\ a.is = "refused")
  THEN "leaving" ELSE "menu"

\* read in send_message: k answers to their end, and perhaps a part of a long one.
Receive(c) ==
  /\ client[c] \in Request
  /\ answers[c] # <<>>
  /\ \E k \in 0..Len(answers[c]) :
       /\ k = 0 => answers[c][1].is = "long"
       /\ answers' = [answers EXCEPT ![c] = SubSeq(@, k + 1, Len(@))]
       /\ parted' = [parted EXCEPT ![c] = @ \/ k < Len(answers[c])]
  /\ client' = [client EXCEPT ![c] = After(c, answers[c][1])]
  /\ UNCHANGED <<user, link, requests, serving, identity, table, server>>

\* The socket is closed, by the destructor or by the program's end.
HangUp(c) ==
  /\ client' = [client EXCEPT ![c] = "out"]
  /\ link' = [link EXCEPT ![c] = IF answers[c] = <<>> THEN "closed" ELSE "reset"]
  /\ answers' = [answers EXCEPT ![c] = <<>>]
  /\ UNCHANGED <<user, requests, serving, identity, table, server, parted>>

Leave(c) == client[c] = "leaving" /\ HangUp(c)

Kill(c) == client[c] \notin {"out", "leaving"} /\ HangUp(c)
-----------------------------------------------------------------------------
(***************************************************************************)
(* The server: one thread per connection.                                  *)
(***************************************************************************)
Accept(c) ==
  /\ link[c] # "none" /\ ~serving[c]
  /\ serving' = [serving EXCEPT ![c] = TRUE]
  /\ UNCHANGED <<client, user, link, requests, answers, identity, table, server, parted>>

\* One read, of n lines at once.
Read(c, n) ==
  /\ serving[c]
  /\ requests' = [requests EXCEPT ![c] = SubSeq(@, n + 1, Len(@))]
  /\ UNCHANGED <<client, user, serving, parted>>

\* Wrong variant: an answer goes out in two pieces.
SendInTwo(c, a) ==
  \/ link[c] = "open" /\ answers' = [answers EXCEPT ![c] = Append(@, a)]
       /\ UNCHANGED <<link, server>>
  \/ link[c] # "open" /\ server' = "down" /\ UNCHANGED <<link, answers>>

SendReply(c, a) ==
  \/ /\ link[c] = "open"
     /\ answers' = [answers EXCEPT ![c] = Append(@, a)]
     /\ UNCHANGED <<link, server>>
  \/ /\ link[c] = "closed"
     /\ link' = [link EXCEPT ![c] = "reset"]
     /\ UNCHANGED <<answers, server>>
  \/ /\ link[c] = "reset"
     /\ server' = "down"
     /\ UNCHANGED <<link, answers>>

\* Wrong variant: the name is taken over from whoever has it.
AddOrReplaceSession(n, c) == active_sessions' = [active_sessions EXCEPT ![n] = c]

\* add_session, when it returns true.
AddSession(n, c) ==
  /\ active_sessions[n] = NoConn
  /\ active_sessions' = [active_sessions EXCEPT ![n] = c]

\* Whoever the name is registered for.
RemoveSession(n) ==
  active_sessions' = [m \in Name |-> IF m = n THEN NoConn ELSE active_sessions[m]]

\* Wrong variant: handle_client does not see that the login succeeded.
LoginUnnoticed(c) ==
  /\ requests[c] # <<>> /\ Head(requests[c]) = "LOGIN"
  /\ user[c] # NoName
  /\ Read(c, 1)
  /\ AddSession(user[c], c)
  /\ SendReply(c, [to |-> "LOGIN", is |-> "done"])
  /\ UNCHANGED <<identity, logged_out>>

\* LOGIN, with what handle_client does on LOGIN_SUCCESS.
LoginSucceeds(c) ==
  /\ requests[c] # <<>> /\ Head(requests[c]) = "LOGIN"
  /\ user[c] # NoName
  /\ Read(c, 1)
  /\ AddSession(user[c], c)
  /\ identity' = [identity EXCEPT ![c] = user[c]]
  /\ SendReply(c, [to |-> "LOGIN", is |-> "done"])
  /\ UNCHANGED logged_out

\* No client id, or one in use.
LoginFails(c) ==
  /\ requests[c] # <<>> /\ Head(requests[c]) = "LOGIN"
  /\ user[c] # NoName => active_sessions[user[c]] # NoConn
  /\ Read(c, 1)
  /\ SendReply(c, [to |-> "LOGIN", is |-> "refused"])
  /\ UNCHANGED <<identity, table>>

\* Wrong variant: the table is asked instead of the thread (is_authenticated).
Registered(c, r, n) ==
  r \in Checked => n = 1 /\ identity[c] # NoName /\ active_sessions[identity[c]] = c

\* The client id at the end of the line is the thread's; lines read with it spoil it.
Admitted(c, r, n) ==
  r \in Checked => n = 1 /\ identity[c] # NoName /\ identity[c] = user[c]

\* Wrong variant: a line that was spoilt is not answered.
ServeUnlessSpoilt(c, r, n) ==
  /\ requests[c] # <<>> /\ r = Head(requests[c]) /\ r \in Command
  /\ Read(c, n)
  /\ IF n > 1 THEN UNCHANGED <<link, answers, server>>
     ELSE \E is \in {"done"} \cup (IF r = "VWAP_STATUS" THEN {"long"} ELSE {}) :
            SendReply(c, [to |-> r, is |-> is])
  /\ UNCHANGED <<identity, table>>

\* A command, read alone or with the lines sent after it, which are lost.
Serve(c, r, n) ==
  /\ requests[c] # <<>> /\ r = Head(requests[c]) /\ r \in Command
  /\ Read(c, n)
  /\ \/ Admitted(c, r, n) /\ SendReply(c, [to |-> r, is |-> "done"])
     \/ Admitted(c, r, n) /\ r = "VWAP_STATUS" /\ SendReply(c, [to |-> r, is |-> "long"])
     \/ ~Admitted(c, r, n) /\ SendReply(c, [to |-> r, is |-> "refused"])
  /\ UNCHANGED <<identity, table>>

\* LOGOUT: the connection keeps its identity.
Logout(c) ==
  /\ requests[c] # <<>> /\ Head(requests[c]) = "LOGOUT"
  /\ Read(c, 1)
  /\ \/ /\ identity[c] # NoName
        /\ RemoveSession(identity[c])
        /\ logged_out' = logged_out \cup {identity[c]}
        /\ SendReply(c, [to |-> "LOGOUT", is |-> "done"])
     \/ /\ identity[c] = NoName
        /\ UNCHANGED table
        /\ SendReply(c, [to |-> "LOGOUT", is |-> "refused"])
  /\ UNCHANGED identity

\* A reset may discard what was not read.
LoseRequests(c) ==
  /\ link[c] = "reset" /\ requests[c] # <<>>
  /\ requests' = [requests EXCEPT ![c] = <<>>]
  /\ UNCHANGED <<client, user, link, answers, serving, identity, table, server, parted>>

\* close: the thread ends, and with it all that belonged to the connection; the LOGOUT
\* under a name is history when no thread uses the name.
Free(c) ==
  /\ link' = [link EXCEPT ![c] = "none"]
  /\ serving' = [serving EXCEPT ![c] = FALSE]
  /\ identity' = [identity EXCEPT ![c] = NoName]
  /\ user' = [user EXCEPT ![c] = NoName]
  /\ parted' = [parted EXCEPT ![c] = FALSE]
  /\ logged_out' = {n \in logged_out : \E d \in Conn \ {c} : serving[d] /\ identity[d] = n}

\* Wrong variant: only a connection that has logged out gives the name back.
HandleEofKeepingName(c) ==
  /\ serving[c]
  /\ link[c] \in {"closed", "reset"} /\ requests[c] = <<>>
  /\ Free(c)
  /\ UNCHANGED <<client, requests, answers, active_sessions, server>>

\* Wrong variant: lines that still wait are dropped.
HandleEofAtOnce(c) ==
  /\ serving[c]
  /\ link[c] \in {"closed", "reset"}
  /\ RemoveSession(identity[c])
  /\ Free(c)
  /\ UNCHANGED <<client, requests, answers, server>>

\* The end of handle_client.
HandleEof(c) ==
  /\ serving[c]
  /\ link[c] \in {"closed", "reset"} /\ requests[c] = <<>>
  /\ RemoveSession(identity[c])
  /\ Free(c)
  /\ UNCHANGED <<client, requests, answers, server>>
-----------------------------------------------------------------------------
Program(c) ==
  \/ \E n \in Name \cup {NoName} : Connect(c, n)
  \/ \E r \in Command \cup {"LOGOUT"} : Ask(c, r)
  \/ Receive(c) \/ Leave(c) \/ Kill(c)

Thread(c) ==
  \/ Accept(c)
  \/ LoginSucceeds(c) \/ LoginFails(c) \/ Logout(c)
  \/ \E r \in Command : \E n \in 1..Len(requests[c]) : Serve(c, r, n)
  \/ LoseRequests(c) \/ HandleEof(c)

Next == server = "up" /\ \E c \in Conn : Program(c) \/ Thread(c)

Spec == Init /\ [][Next]_vars

\* Threads are scheduled.  Users and their programs need not do anything.
FairSpec == Spec /\ \A c \in Conn : WF_vars(server = "up" /\ Thread(c))
-----------------------------------------------------------------------------
(***************************************************************************)
(* Properties.                                                             *)
(***************************************************************************)
\* Types, and what becomes of a connection: a free one has no program, no thread
\* and nothing unread, and only an open one holds answers.
TypeOK ==
  /\ client \in [Conn -> Request \cup {"out", "menu", "leaving"}]
  /\ user \in [Conn -> Name \cup {NoName}]
  /\ link \in [Conn -> {"none", "open", "closed", "reset"}]
  /\ requests \in [Conn -> Seq(Request)] /\ answers \in [Conn -> Seq(Reply)]
  /\ serving \in [Conn -> BOOLEAN]
  /\ identity \in [Conn -> Name \cup {NoName}]
  /\ active_sessions \in [Name -> Conn \cup {NoConn}]
  /\ server \in {"up", "down"}
  /\ parted \in [Conn -> BOOLEAN] /\ logged_out \subseteq Name
  /\ \A c \in Conn :
       /\ link[c] = "open" <=> client[c] # "out"
       /\ link[c] # "open" => answers[c] = <<>>
       /\ link[c] = "none" => ~serving[c] /\ requests[c] = <<>>

\* The program believes it is logged in (authenticated, client.cpp:14).
LoggedIn(c) == client[c] \in Command \cup {"menu"}

\* A name is registered for a connection whose thread still runs and has that very
\* identity, so that the end of the connection frees it (handle_client).
SessionsBelong ==
  \A n \in Name : active_sessions[n] # NoConn =>
    serving[active_sessions[n]] /\ identity[active_sessions[n]] = n

\* A program at its menu, or that waits for a command's answer, is served by a thread
\* that knows it by its client id.  As long as no answer to it was read in parts, it
\* has at most one line or answer under way, which is what it waits for, and none of
\* its commands is refused, whatever happened to its name in the table.  After an
\* answer was read in parts only the first holds.
InStepAt(c) ==
  \/ client[c] \notin Request /\ requests[c] = <<>> /\ answers[c] = <<>>
  \/ client[c] \in Request /\ requests[c] = <<client[c]>> /\ answers[c] = <<>>
  \/ /\ client[c] \in Request /\ requests[c] = <<>>
     /\ \E a \in Reply :
          answers[c] = <<a>> /\ a.to = client[c] /\ (a.is = "refused" => a.to = "LOGIN")

InStep ==
  \A c \in Conn :
    /\ LoggedIn(c) => serving[c] /\ identity[c] = user[c] /\ user[c] # NoName
    /\ link[c] = "open" /\ ~parted[c] => InStepAt(c)

\* Two threads act under one name only if a LOGOUT under it has been answered since
\* a moment when no thread used it (HandleEof forgets the LOGOUT when the last one is
\* gone): connections that break, at whatever moment, never cause it.
NamesSharedOnlyAfterLogout ==
  \A c, d \in Conn :
    c # d /\ serving[c] /\ serving[d] /\ identity[c] = identity[d] =>
      identity[c] \in logged_out \cup {NoName}

\* The server survives every program that is killed or leaves, except one that had
\* left part of an answer unread: no other is sent anything after a reset.
OnlyPartedResetsKill == server = "down" => \E c \in Conn : link[c] = "reset" /\ parted[c]

\* What the program's read will return: the answer to what it asked or, once an answer
\* was read in parts, any answer or the rest of one.
AnswerWaits(c) ==
  /\ client[c] \in Request /\ answers[c] # <<>>
  /\ parted[c] \/ Head(answers[c]).to = client[c]

\* A program that asks and is not killed gets an answer, and its own one unless an
\* answer was read in parts.  Then lines may be read together and all but the first
\* are lost (Serve), and still no program waits for ever.
RequestsAnswered ==
  \A c \in Conn :
    client[c] \in Request ~> AnswerWaits(c) \/ client[c] = "out" \/ server = "down"

\* A name does not stay registered for a program that is gone.
NamesGetFree ==
  \A c \in Conn, n \in Name :
    client[c] = "out" /\ active_sessions[n] = c ~> active_sessions[n] # c \/ server = "down"

\* "LOGIN_FAILED:Client ID already in use" (server.cpp:146): a second program does
\* not get a name that one at its menu uses.
OneProgramPerName ==
  \A c, d \in Conn : c # d /\ LoggedIn(c) /\ LoggedIn(d) => user[c] # user[d]
=============================================================================
