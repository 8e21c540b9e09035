------------------------------- MODULE Server -------------------------------
(***************************************************************************)
(* The server (server_app.cpp) with the strategies that handle requests    *)
(* (handle_strategy.cpp, handle_strategy.h, network_controler.h).          *)
(*                                                                         *)
(* The parent process accepts one connection after the other and receives  *)
(* the request of each before it goes on.  A user's request is handled by  *)
(* a child process, which sends the repository files; an administrator's   *)
(* by the parent, which changes them.  The children go on while the parent *)
(* does, and read files the parent is writing.                             *)
(*                                                                         *)
(* For an administrator's request the parent makes one controler for each  *)
(* repository file.  Its constructor writes an empty manager to the file,  *)
(* and what is loaded back is empty.  The managers are locals of a loop    *)
(* that has ended when the request is handled: what add and remove do with *)
(* such a manager is not defined.  They may do what they would do with an  *)
(* empty one, throw, or end the process.                                   *)
(***************************************************************************)
EXTENDS Naturals, Sequences

CONSTANTS User, Admin,      \* peers that may connect, one connection each
          FileNames,        \* repozitories_file_names
          Package,          \* packages, as entries of the repository files
          Initial,          \* what the files have at first
          Truncated,        \* a file that was opened and has no text yet
          Nobody,           \* stands for no peer
          NoChild           \* stands for no progress of a child

Peer == User \cup Admin
File == {FileNames[i] : i \in DOMAIN FileNames}

ASSUME PeersAssumption == User \cap Admin = {} /\ Nobody \notin Peer
ASSUME FilesAssumption == FileNames \in Seq(File) /\ FileNames # <<>>
ASSUME InitialAssumption == Initial \in [File -> SUBSET Package]
ASSUME TruncatedAssumption == \A s \in SUBSET Package : s # Truncated
ASSUME NoChildAssumption == NoChild \notin Nat

VARIABLES files,    \* the repository files of the server
          queue,    \* connections that wait for accept
          loop,     \* the parent: where it is, whom it serves, the next file
          stop,     \* stop_flag
          child,    \* for each user, how many files its child has sent
          request,  \* for each peer, the request on its way or being handled
          inbox,    \* for each peer, the messages on their way to it
          open,     \* the peers whose connection the server has not closed
          present   \* the peers that have not closed it

NoRequest == [type |-> "none"]

Loop(pc, p, n) == [pc |-> pc, peer |-> p, next |-> n]
At(pc) == loop.pc = pc
Serving == request[loop.peer]
Current == FileNames[loop.next]

\* What is sent to a peer that is gone is not received.
Tell(p, m) == inbox' = IF p \in present
                       THEN [inbox EXCEPT ![p] = Append(@, m)] ELSE inbox
Answer(status) == [kind |-> "response", status |-> status]
Echo == [kind |-> "request"]

-----------------------------------------------------------------------------
(* The parent *)

\* A process ends: its descriptors are closed, and what waits is reset.
Ended == /\ loop' = Loop("ended", Nobody, 1)
         /\ queue' = <<>>
         /\ open' = open \ ({loop.peer} \cup {queue[i] : i \in DOMAIN queue})

\* The test of the while loop.
Check ==
  /\ At("check")
  /\ \/ stop /\ Ended
     \/ ~stop /\ loop' = Loop("accept", Nobody, 1) /\ UNCHANGED <<queue, open>>
  /\ UNCHANGED <<files, stop, child, request, inbox, present>>

\* Fault: the last connection is accepted first.
AcceptLast ==
  /\ At("accept")
  /\ queue # <<>>
  /\ loop' = Loop("recv", queue[Len(queue)], 1)
  /\ queue' = SubSeq(queue, 1, Len(queue) - 1)
  /\ UNCHANGED <<files, stop, child, request, inbox, open, present>>

\* Fault: the connection stays in the queue.
AcceptKeeping == /\ At("accept")
                 /\ queue # <<>>
                 /\ loop' = Loop("recv", Head(queue), 1)
                 /\ UNCHANGED <<files, queue, stop, child, request, inbox, open,
                                present>>

Accept == /\ At("accept")
          /\ queue # <<>>
          /\ loop' = Loop("recv", Head(queue), 1)
          /\ queue' = Tail(queue)
          /\ UNCHANGED <<files, stop, child, request, inbox, open, present>>

\* SIGINT.  A call that blocks returns and throws, which ends the server; a
\* signal that comes before the call only sets the flag.
Interrupt ==
  /\ ~stop
  /\ ~At("ended")
  /\ stop' = TRUE
  /\ \/ (At("accept") \/ At("recv")) /\ Ended
     \/ UNCHANGED <<loop, queue, open>>
  /\ UNCHANGED <<files, child, request, inbox, present>>

\* The peer is gone without a request: recv_json throws, and the handler of
\* main is outside of the loop.
ReceiveFails ==
  /\ At("recv")
  /\ Serving = NoRequest
  /\ loop.peer \notin present
  /\ Ended
  /\ UNCHANGED <<files, stop, child, request, inbox, present>>

\* A user's request: the child has the connection, and the parent closes its
\* descriptor.  Without a child the connection is closed.
Fork ==
  /\ At("recv")
  /\ Serving.type = "update"
  /\ loop' = Loop("check", Nobody, 1)
  /\ \/ child' = [child EXCEPT ![loop.peer] = 0] /\ UNCHANGED open
     \/ open' = open \ {loop.peer} /\ UNCHANGED child
  /\ UNCHANGED <<files, queue, stop, request, inbox, present>>

\* An administrator's request, of whatever kind and with whatever password.
ReceiveAdmin ==
  /\ At("recv")
  /\ Serving.type \in {"add", "remove"}
  /\ loop' = Loop("construct", loop.peer, 1)
  /\ UNCHANGED <<files, queue, stop, child, request, inbox, open, present>>

\* The constructor of Controler opens the file, and then writes it.
OpenFile == /\ At("construct")
            /\ files' = [files EXCEPT ![Current] = Truncated]
            /\ loop' = [loop EXCEPT !.pc = "empty"]
            /\ UNCHANGED <<queue, stop, child, request, inbox, open, present>>

\* Fault: one file too many.
WriteEmptyOn ==
  /\ At("empty")
  /\ files' = [files EXCEPT ![Current] = {}]
  /\ loop' = IF loop.next > Len(FileNames) THEN Loop("handle", loop.peer, 1)
                                  ELSE Loop("construct", loop.peer, loop.next + 1)
  /\ UNCHANGED <<queue, stop, child, request, inbox, open, present>>

WriteEmpty ==
  /\ At("empty")
  /\ files' = [files EXCEPT ![Current] = {}]
  /\ loop' = IF loop.next = Len(FileNames) THEN Loop("handle", loop.peer, 1)
                                 ELSE Loop("construct", loop.peer, loop.next + 1)
  /\ UNCHANGED <<queue, stop, child, request, inbox, open, present>>

\* A response is sent, and the connection is closed at the end of the loop.
\* A message is two calls of send: if the peer is gone, the second may end
\* the process with SIGPIPE.
Respond(status) ==
  /\ Tell(loop.peer, Answer(status))
  /\ \/ /\ open' = open \ {loop.peer}
        /\ loop' = Loop("check", Nobody, 1)
        /\ UNCHANGED queue
     \/ loop.peer \notin present /\ Ended
  /\ UNCHANGED <<stop, child, request, present>>

Allowed == Serving.file \in File /\ Serving.password

\* A name of no file, a wrong password, or an exception of the controler: the
\* package to remove is not in the empty manager, or cannot be read.
Refuse == /\ At("handle")
          /\ Respond("fail")
          /\ UNCHANGED files

\* add has returned, and the file is opened for the package.
StartAdd == /\ At("handle")
            /\ Allowed
            /\ Serving.type = "add"
            /\ files' = [files EXCEPT ![Serving.file] = Truncated]
            /\ loop' = [loop EXCEPT !.pc = "write"]
            /\ UNCHANGED <<queue, stop, child, request, inbox, open, present>>

\* Fault: the answer is sent and the package is not written.
WriteNothing == /\ At("write")
                /\ files' = [files EXCEPT ![Serving.file] = {}]
                /\ Respond("ok")

\* The package is the only entry of the file, which the constructor emptied.
WriteAdded == /\ At("write")
              /\ files' = [files EXCEPT ![Serving.file] = {Serving.package}]
              /\ Respond("ok")

\* The manager that is gone ends the process.
Crash == /\ At("handle")
         /\ Allowed
         /\ Ended
         /\ UNCHANGED <<files, stop, child, request, inbox, present>>

\* Somebody starts the server again.
Restart == /\ At("ended")
           /\ loop' = Loop("check", Nobody, 1)
           /\ stop' = FALSE
           /\ UNCHANGED <<files, queue, child, request, inbox, open, present>>

Parent == \/ Check \/ Accept \/ ReceiveFails \/ Fork \/ ReceiveAdmin
          \/ OpenFile \/ WriteEmpty \/ Refuse \/ StartAdd \/ WriteAdded
          \/ Crash

-----------------------------------------------------------------------------
(* The children: Handle_user_strategy and User_update_request *)

Wanted(u) == request[u].files
Running(u) == child[u] # NoChild
NextFile(u) == Wanted(u)[child[u] + 1]
Copy(f, content) == [kind |-> "file", file |-> f, content |-> content]

\* Fault: each file is opened when it is to be sent.
NextOpens(u) == child[u] < Len(Wanted(u)) => NextFile(u) \in File

\* All files are opened before the first is read.
AllOpen(u) == \A i \in DOMAIN Wanted(u) : Wanted(u)[i] \in File
Sending(u) == Running(u) /\ AllOpen(u) /\ child[u] < Len(Wanted(u))

Exit(u) == child' = [child EXCEPT ![u] = NoChild] /\ open' = open \ {u}
ChildUnchanged == UNCHANGED <<files, queue, loop, stop, request, present>>

\* A file that is not there, or no file that is left: the strategy returns,
\* and whatever it returns, the request is sent back.
ChildReturns(u) ==
  /\ Running(u)
  /\ ~AllOpen(u) \/ child[u] = Len(Wanted(u))
  /\ Tell(u, Echo)
  /\ Exit(u)
  /\ ChildUnchanged

\* Fault: every file has the name of the first one.
ChildSendsFirst(u) ==
  /\ Sending(u)
  /\ files[NextFile(u)] # Truncated
  /\ Tell(u, Copy(Wanted(u)[1], files[NextFile(u)]))
  /\ child' = [child EXCEPT ![u] = @ + 1]
  /\ ChildUnchanged /\ UNCHANGED open

ChildSends(u) ==
  /\ Sending(u)
  /\ files[NextFile(u)] # Truncated
  /\ Tell(u, Copy(NextFile(u), files[NextFile(u)]))
  /\ child' = [child EXCEPT ![u] = @ + 1]
  /\ ChildUnchanged /\ UNCHANGED open

\* The file has no text, which does not parse, or the user is gone.
ChildFails(u) ==
  /\ Sending(u)
  /\ files[NextFile(u)] = Truncated \/ u \notin present
  /\ Exit(u)
  /\ ChildUnchanged /\ UNCHANGED inbox

Child(u) == ChildReturns(u) \/ ChildSends(u) \/ ChildFails(u)

ServerInit == /\ files = Initial
              /\ queue = <<>>
              /\ loop = Loop("check", Nobody, 1)
              /\ stop = FALSE
              /\ child = [u \in User |-> NoChild]
              /\ request = [p \in Peer |-> NoRequest]
              /\ inbox = [p \in Peer |-> <<>>]
              /\ open = {}
              /\ present = {}
=============================================================================
