------------------------------ MODULE Network -------------------------------
(***************************************************************************)
(* The server and the programs that connect to it: the update of the       *)
(* client (Client_network_controler::update) and the administrator         *)
(* (admin_app.cpp).                                                        *)
(*                                                                         *)
(* update writes every file it receives over the one it has, one after the *)
(* other, and closes after the last without waiting for the end of the     *)
(* answer.  Opening a file for writing empties it: a client that is ended  *)
(* before it has written the text leaves a file without a text.            *)
(*                                                                         *)
(* The administrator connects before the person at the terminal is asked   *)
(* for the request, who may also choose to leave, or name a package that   *)
(* cannot be read.  Any of the programs may be ended.                      *)
(*                                                                         *)
(* A peer connects again when the server has closed its last connection.   *)
(***************************************************************************)
EXTENDS Server

CONSTANTS Lists,          \* the file names a client may be started with
          AdminRequests   \* what an administrator may send

ASSUME ListsAssumption ==
  \A list \in Lists : list \in Seq({list[i] : i \in DOMAIN list}) \ {<<>>}
ASSUME RequestsAssumption ==
  \A r \in AdminRequests : r \in [type : {"add", "remove"}, package : Package,
                                  file : {r.file}, password : BOOLEAN]

VARIABLES local,    \* for each user, the repository files of its client
          got,      \* for each user, how many files this update has written
          writing   \* the users whose client has opened the next file

serverVars == <<files, queue, loop, stop, child, open>>
clientVars == <<local, got, writing>>
vars == <<serverVars, request, inbox, present, clientVars>>

Init == /\ ServerInit
        /\ local = [u \in User |-> [f \in File |-> {}]]
        /\ got = [u \in User |-> 0]
        /\ writing = {}

-----------------------------------------------------------------------------

\* connect.  The kernel takes the connection whether or not accept is called.
Connect(p) ==
  /\ p \notin present \cup open
  /\ ~At("ended")
  /\ queue' = Append(queue, p)
  /\ open' = open \cup {p}
  /\ present' = present \cup {p}
  /\ request' = [request EXCEPT ![p] = NoRequest]
  /\ UNCHANGED <<files, loop, stop, child, inbox, clientVars>>

Send(p, r) == /\ p \in present
              /\ request[p] = NoRequest
              /\ request' = [request EXCEPT ![p] = r]
              /\ UNCHANGED <<serverVars, inbox, present, clientVars>>

Update(u) == \E list \in Lists : Send(u, [type |-> "update", files |-> list])
Administer(a) == \E r \in AdminRequests : Send(a, r)

\* The socket is closed, and what was not received is dropped.
Close(p) == /\ present' = present \ {p}
            /\ inbox' = [inbox EXCEPT ![p] = <<>>]
            /\ got' = [u \in User |-> IF u = p THEN 0 ELSE got[u]]
            /\ writing' = writing \ {p}

\* The program ends without an answer: the person leaves, or an exception.
Leave(p) == /\ p \in present
            /\ Close(p)
            /\ UNCHANGED <<serverVars, request, local>>

\* Nothing will come any more, and recv_json or send_json throws.
Eof(p) == /\ p \in present \ open
          /\ inbox[p] = <<>>
          /\ Close(p)
          /\ UNCHANGED <<serverVars, request, local>>

Message(p) == Head(inbox[p])
CanReceive(p) == p \in present /\ inbox[p] # <<>>

\* The administrator prints the response.
ReadResponse(a) == /\ CanReceive(a)
                   /\ Close(a)
                   /\ UNCHANGED <<serverVars, request, local>>

HasFile(u) == CanReceive(u) /\ Message(u).kind = "file"

\* The file of that name is opened, which empties it.
OpenLocal(u) ==
  /\ HasFile(u)
  /\ u \notin writing
  /\ local' = [local EXCEPT ![u][Message(u).file] = Truncated]
  /\ writing' = writing \cup {u}
  /\ UNCHANGED <<serverVars, request, inbox, present, got>>

\* It is written, and the last one ends the update.
WriteLocal(u) ==
  /\ HasFile(u)
  /\ u \in writing
  /\ local' = [local EXCEPT ![u][Message(u).file] = Message(u).content]
  /\ IF got[u] + 1 = Len(request[u].files)
     THEN Close(u)
     ELSE /\ got' = [got EXCEPT ![u] = @ + 1]
          /\ inbox' = [inbox EXCEPT ![u] = Tail(@)]
          /\ writing' = writing \ {u}
          /\ UNCHANGED present
  /\ UNCHANGED <<serverVars, request>>

\* What is sent back after a refusal has neither a status nor a file name,
\* and the update throws.
ReceiveEcho(u) == /\ CanReceive(u)
                  /\ Message(u) = Echo
                  /\ Close(u)
                  /\ UNCHANGED <<serverVars, request, local>>

Receive(u) == OpenLocal(u) \/ WriteLocal(u) \/ ReceiveEcho(u)

ServerStep == /\ \/ Parent
                 \/ Interrupt
                 \/ Restart
                 \/ \E u \in User : Child(u)
              /\ UNCHANGED clientVars

PeerStep == \/ \E p \in Peer : Connect(p) \/ Leave(p) \/ Eof(p)
            \/ \E u \in User : Update(u) \/ Receive(u)
            \/ \E a \in Admin : Administer(a) \/ ReadResponse(a)

Next == ServerStep \/ PeerStep

Spec == Init /\ [][Next]_vars

\* The processes of the server are scheduled, and a client sends its request
\* and reads what comes.  An administrator need not do anything, nobody need
\* connect, and the server need not be started again.
Fairness == /\ WF_vars(Parent /\ UNCHANGED clientVars)
            /\ \A u \in User : /\ WF_vars(Child(u) /\ UNCHANGED clientVars)
                               /\ WF_vars(Update(u))
                               /\ WF_vars(Receive(u))
                               /\ WF_vars(Eof(u))

LiveSpec == Spec /\ Fairness

-----------------------------------------------------------------------------
(* Properties *)

Content == SUBSET Package
UserRequests == [type : {"update"}, files : Lists]
Places == {"check", "accept", "recv", "construct", "empty", "handle", "write",
           "ended"}

\* What the server's file f may have: what it had at first, nothing, or a
\* package that somebody with the password asked to add to it.
Served(f) ==
  {Initial[f], {}} \cup
    {{r.package} : r \in {s \in AdminRequests :
                            s.type = "add" /\ s.file = f /\ s.password}}

\* The messages on their way.
Copies == UNION {{Copy(f, c) : c \in Served(f)} : f \in File}
Answers == {Answer("ok"), Answer("fail")}

TypeOK ==
  /\ files \in [File -> Content \cup {Truncated}]
  /\ queue \in Seq(Peer)
  /\ loop \in [pc : Places, peer : Peer \cup {Nobody}, next : DOMAIN FileNames]
  /\ stop \in BOOLEAN
  /\ child \in [User -> Nat \cup {NoChild}]
  /\ request \in [Peer -> UserRequests \cup AdminRequests \cup {NoRequest}]
  /\ \A u \in User : request[u] \in UserRequests \cup {NoRequest}
  /\ \A a \in Admin : request[a] \in AdminRequests \cup {NoRequest}
  /\ inbox \in [Peer -> Seq(Copies \cup {Echo} \cup Answers)]
  /\ \A u \in User : inbox[u] \in Seq(Copies \cup {Echo})
  /\ \A a \in Admin : inbox[a] \in Seq(Answers)
  /\ open \in SUBSET Peer
  /\ present \in SUBSET Peer
  /\ local \in [User -> [File -> Content \cup {Truncated}]]
  /\ got \in [User -> Nat]
  /\ writing \in SUBSET User

\* Whatever the administrator does while children send, a client's file only
\* gets what the server had in the file of that name: nothing of another file,
\* nothing that was refused, no text that is cut off.  And a file that this
\* update has written is there: the only one that may be empty is the one that
\* is being written, as long as the client is not ended in the middle.
CopyServed(u) ==
  /\ \A f \in File : local[u][f] \in Served(f) \cup {Truncated}
  /\ \A i \in 1 .. got[u] :
       local[u][Wanted(u)[i]] = Truncated =>
         u \in writing /\ Wanted(u)[i] = Wanted(u)[got[u] + 1]
CopiesAreServed == \A u \in User : CopyServed(u)

\* An administrator who is told "ok" finds the package in the file, as long
\* as no other administrator comes: the controler has written before the
\* strategy answers.
OkIsStored ==
  \A a \in Admin : Admin = {a} /\ inbox[a] = <<Answer("ok")>> =>
                     request[a].package \in files[request[a].file]

\* An update that the server refuses leaves all files of the client alone:
\* the strategy opens every file before it sends the first, so whoever is
\* sent the request back instead of a file has received none.
RefusalChangesNothing ==
  \A u \in User : u \in present /\ inbox[u] # <<>> =>
                    (Message(u) = Echo => got[u] = 0 /\ u \notin writing)

\* The parent waits for somebody who has connected and sends nothing.
Held == At("recv") /\ loop.peer \in present /\ Serving = NoRequest

\* An update returns, with the files or with an exception, unless the server
\* is kept waiting for ever by one peer: connections are served in turn, and
\* whatever ends the parent or a child ends the connections it had.
UpdatesReturn == []<>~Held => \A u \in User : u \in present ~> u \notin present

\* Changes are validated: if no request has the right password, then whenever
\* the server waits for the next connection, its files are what they were.
OnlyValidatedChanges ==
  (\A r \in AdminRequests : ~r.password) /\ At("accept") => files = Initial

-----------------------------------------------------------------------------
(* The inductive invariant behind CopiesAreServed, OkIsStored and             *)
(* RefusalChangesNothing                                                      *)

Idle == {"check", "accept", "ended"}
Administering == {"construct", "empty", "handle", "write"}

\* A peer has one connection, which one part of the server holds.
Connections ==
  /\ \A i \in 1 .. Len(queue) : queue[i] \in open /\ queue[i] # loop.peer
  /\ \A i, j \in 1 .. Len(queue) : queue[i] = queue[j] => i = j
  /\ IF loop.pc \in Idle THEN loop.peer = Nobody ELSE loop.peer \in open
  /\ \A u \in User : Running(u) =>
       /\ u \in open
       /\ u # loop.peer
       /\ \A i \in 1 .. Len(queue) : queue[i] # u
       /\ request[u] \in UserRequests

\* What the parent works on is the request of an administrator, and what it
\* writes to a file was allowed.
Administered ==
  /\ loop.pc \in Administering => loop.peer \in Admin /\ Serving \in AdminRequests
  /\ loop.pc = "write" => Allowed /\ Serving.type = "add"

FilesServed == \A f \in File : files[f] \in Served(f) \cup {Truncated}

\* The count of the child is that of its client, the files come in the order in
\* which they were asked for, and the request comes back before the first file
\* or after the last.
UpdateCounted(u) ==
  /\ u \notin present \/ request[u] = NoRequest => inbox[u] = <<>> /\ got[u] = 0
  /\ u \in open /\ ~Running(u) => inbox[u] = <<>> /\ got[u] = 0
  /\ u \in present /\ request[u] # NoRequest => got[u] < Len(Wanted(u))
  /\ Running(u) => child[u] <= Len(Wanted(u)) /\ (child[u] # 0 => AllOpen(u))
  /\ Running(u) /\ u \in present => got[u] + Len(inbox[u]) = child[u]
  /\ u \in writing =>
       u \in present /\ inbox[u] # <<>> /\ inbox[u][1] # Echo
  /\ \A i \in 1 .. Len(inbox[u]) :
       inbox[u][i] # Echo => inbox[u][i].file = Wanted(u)[got[u] + i]
  /\ \A i \in 1 .. Len(inbox[u]) : inbox[u][i] = Echo =>
       /\ i = Len(inbox[u])
       /\ u \notin open
       /\ got[u] + i - 1 \in {0, Len(Wanted(u))}
UpdatesCounted == \A u \in User : UpdateCounted(u)

\* An administrator is answered when the connection is closed.
AnswersClose ==
  \A a \in Admin : inbox[a] # <<>> => a \in present /\ a \notin open

OkWritten ==
  \A a \in Admin : Admin = {a} /\ inbox[a] = <<Answer("ok")>> =>
    /\ request[a] \in AdminRequests
    /\ request[a].file \in File
    /\ request[a].package \in files[request[a].file]

\* Who holds a connection, what the messages on their way are, and how far
\* parent, children and clients have come agree with each other.
NetInv == /\ TypeOK
          /\ Connections
          /\ Administered
          /\ FilesServed
          /\ CopiesAreServed
          /\ UpdatesCounted
          /\ AnswersClose
          /\ OkWritten
=============================================================================
