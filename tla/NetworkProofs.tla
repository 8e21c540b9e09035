---------------------------- MODULE NetworkProofs ----------------------------
(***************************************************************************)
(* What the server and its peers keep true, for every number of users,     *)
(* administrators, repository files and packages, and every list of files  *)
(* and request they may send: proofs about module Network.                 *)
(*                                                                         *)
(* The argument rests on who holds a connection.  A peer has one at most:  *)
(* it waits in the queue, is served by the parent, or has a child, and     *)
(* whoever holds it keeps the server from seeing the peer again.  So the   *)
(* request the parent works on does not change under it, and a child's     *)
(* count of the files it has sent is the client's count of what it has     *)
(* written and has still to read.                                          *)
(***************************************************************************)
EXTENDS Network, TLAPS, SequenceTheorems

USE PeersAssumption, FilesAssumption, InitialAssumption, TruncatedAssumption,
    NoChildAssumption, ListsAssumption, RequestsAssumption DEF clientVars

-----------------------------------------------------------------------------
(* Requests, messages and contents *)

\* There is a first file, and what the loop over the files comes to is one.
LEMMA FileList ==
  /\ Len(FileNames) \in Nat \ {0}
  /\ DOMAIN FileNames = 1 .. Len(FileNames)
  /\ \A i \in DOMAIN FileNames : FileNames[i] \in File
BY DEF File

\* A user asks for at least one file.
LEMMA UserRequest ==
  ASSUME NEW r \in UserRequests
  PROVE  /\ r.type = "update"
         /\ r.files \in Lists
         /\ Len(r.files) \in Nat \ {0}
         /\ DOMAIN r.files = 1 .. Len(r.files)
         /\ r # NoRequest
         /\ r \notin AdminRequests
<1>1. r.type = "update" /\ r.files \in Lists
  BY DEF UserRequests
<1>2. /\ r.files \in Seq({r.files[i] : i \in DOMAIN r.files})
      /\ r.files # <<>>
  BY <1>1
<1>3. Len(r.files) \in Nat \ {0} /\ DOMAIN r.files = 1 .. Len(r.files)
  BY <1>2, EmptySeq, LenProperties
<1>4. r # NoRequest
  BY <1>1 DEF NoRequest
<1>5. r \notin AdminRequests
  BY <1>1
<1> QED
  BY <1>1, <1>3, <1>4, <1>5

LEMMA AdminRequest ==
  ASSUME NEW r \in AdminRequests
  PROVE  /\ r.type \in {"add", "remove"}
         /\ r.package \in Package
         /\ r.password \in BOOLEAN
         /\ r # NoRequest
BY DEF NoRequest

\* What may be served are sets of packages, and what somebody who knows the
\* password adds may be served.
LEMMA ServedContents ==
  ASSUME NEW f \in File
  PROVE  /\ Served(f) \subseteq Content
         /\ Initial[f] \in Served(f)
         /\ {} \in Served(f)
         /\ Truncated \notin Served(f)
<1>1. Served(f) \subseteq Content
  <2>1. Initial[f] \in Content /\ {} \in Content
    BY DEF Content
  <2>2. ASSUME NEW r \in AdminRequests
        PROVE  {r.package} \in Content
    BY AdminRequest DEF Content
  <2> QED
    BY <2>1, <2>2 DEF Served
<1>2. Initial[f] \in Served(f) /\ {} \in Served(f)
  BY DEF Served
<1>3. Truncated \notin Served(f)
  BY <1>1 DEF Content
<1> QED
  BY <1>1, <1>2, <1>3

LEMMA ServedAdded ==
  ASSUME NEW r \in AdminRequests, r.type = "add", r.password, r.file \in File
  PROVE  {r.package} \in Served(r.file)
BY DEF Served

\* A message is a file, the request or an answer.
LEMMA Messages ==
  /\ \A m \in Copies : /\ m.kind = "file"
                       /\ m.file \in File
                       /\ m.content \in Served(m.file)
                       /\ m # Echo
  /\ \A m \in Answers : m.kind = "response" /\ m # Echo
  /\ Echo.kind = "request"
  /\ \A f \in File : \A c \in Served(f) : Copy(f, c) \in Copies
BY DEF Copies, Answers, Answer, Echo, Copy

-----------------------------------------------------------------------------
(* Types *)

\* A peer that the parent works for is an administrator, and not a user.
LEMMA Serves ==
  ASSUME NetInv, loop.pc \in Administering
  PROVE  /\ loop.peer \in Admin
         /\ loop.peer \notin User
         /\ loop.peer \in open
         /\ Serving \in AdminRequests
BY DEF NetInv, Administered, Connections, Administering, Idle, Peer

\* A child that sends has a file of the server to send.
LEMMA SendsFile ==
  ASSUME NetInv, NEW u \in User, Sending(u)
  PROVE  /\ child[u] \in Nat
         /\ child[u] + 1 \in 1 .. Len(Wanted(u))
         /\ NextFile(u) \in File
         /\ files[NextFile(u)] # Truncated => Copy(NextFile(u), files[NextFile(u)]) \in Copies
<1>1. Running(u) /\ AllOpen(u) /\ child[u] < Len(Wanted(u))
  BY DEF Sending
<1>2. request[u] \in UserRequests /\ child[u] \in Nat
  BY <1>1 DEF NetInv, Connections, TypeOK, Running
<1>3. child[u] + 1 \in 1 .. Len(Wanted(u)) /\ DOMAIN Wanted(u) = 1 .. Len(Wanted(u))
  BY <1>1, <1>2, UserRequest DEF Wanted
<1>4. NextFile(u) \in File
  BY <1>1, <1>3 DEF AllOpen, NextFile
<1> QED
  BY <1>2, <1>3, <1>4, Messages DEF NetInv, FilesServed

\* The message at the head of what a user has to read.
LEMMA ReadsMessage ==
  ASSUME NetInv, NEW u \in User, CanReceive(u)
  PROVE  /\ Message(u) \in Copies \cup {Echo}
         /\ Message(u) = inbox[u][1]
         /\ Len(inbox[u]) \in Nat \ {0}
         /\ Tail(inbox[u]) \in Seq(Copies \cup {Echo})
         /\ Len(Tail(inbox[u])) = Len(inbox[u]) - 1
         /\ \A i \in 1 .. Len(Tail(inbox[u])) : Tail(inbox[u])[i] = inbox[u][i + 1]
<1>1. inbox[u] \in Seq(Copies \cup {Echo}) /\ inbox[u] # <<>>
  BY DEF NetInv, TypeOK, CanReceive
<1> QED
  BY <1>1, HeadTailProperties, EmptySeq DEF Message

\* A file that a client is about to open or to write.
LEMMA ReceivesFile ==
  ASSUME NetInv, NEW u \in User, HasFile(u)
  PROVE  /\ Message(u) \in Copies /\ Message(u) # Echo
         /\ Message(u).file \in File
         /\ Message(u).content \in Served(Message(u).file)
         /\ Message(u) = inbox[u][1]
         /\ 1 \in 1 .. Len(inbox[u])
         /\ u \in present /\ inbox[u] # <<>>
<1>1. Message(u) \in Copies
  BY ReadsMessage, Messages DEF HasFile
<1>2. u \in present /\ inbox[u] # <<>>
  BY DEF HasFile, CanReceive
<1>3. Message(u) = inbox[u][1] /\ 1 \in 1 .. Len(inbox[u])
  BY ReadsMessage DEF HasFile
<1> QED
  BY <1>1, <1>2, <1>3, Messages

LEMMA TypeInitial == Init => TypeOK
<1> SUFFICES ASSUME Init PROVE TypeOK
  OBVIOUS
<1>1. Loop("check", Nobody, 1) \in [pc : Places, peer : Peer \cup {Nobody}, next : DOMAIN FileNames]
  BY FileList DEF Loop, Places
<1>2. {} \in Content
  BY DEF Content
<1>3. files \in [File -> Content \cup {Truncated}]
  BY DEF Init, ServerInit, Content
<1> QED
  BY <1>1, <1>2, <1>3, EmptySeq DEF Init, ServerInit, TypeOK, Peer

\* The end of the server, an answer and a message keep their types.
LEMMA EndedTypes ==
  ASSUME TypeOK, Ended
  PROVE  /\ loop' \in [pc : Places, peer : Peer \cup {Nobody}, next : DOMAIN FileNames]
         /\ queue' \in Seq(Peer)
         /\ open' \in SUBSET Peer
BY FileList, EmptySeq DEF TypeOK, Ended, Loop, Places

LEMMA TellTypes ==
  ASSUME TypeOK, NEW p \in Peer, NEW m, Tell(p, m),
         p \in User => m \in Copies \cup {Echo},
         p \in Admin => m \in Answers
  PROVE  /\ inbox' \in [Peer -> Seq(Copies \cup {Echo} \cup Answers)]
         /\ \A u \in User : inbox'[u] \in Seq(Copies \cup {Echo})
         /\ \A a \in Admin : inbox'[a] \in Seq(Answers)
<1>1. m \in Copies \cup {Echo} \cup Answers
  BY DEF Peer
<1>2. Append(inbox[p], m) \in Seq(Copies \cup {Echo} \cup Answers)
  BY <1>1, AppendProperties DEF TypeOK
<1>3. p \in User => Append(inbox[p], m) \in Seq(Copies \cup {Echo})
  BY AppendProperties DEF TypeOK
<1>4. p \in Admin => Append(inbox[p], m) \in Seq(Answers)
  BY AppendProperties DEF TypeOK
<1> QED
  BY <1>2, <1>3, <1>4 DEF TypeOK, Tell, Peer

LEMMA RespondTypes ==
  ASSUME NetInv, loop.pc \in Administering, NEW status \in {"ok", "fail"},
         Respond(status)
  PROVE  /\ loop' \in [pc : Places, peer : Peer \cup {Nobody}, next : DOMAIN FileNames]
         /\ queue' \in Seq(Peer)
         /\ open' \in SUBSET Peer
         /\ inbox' \in [Peer -> Seq(Copies \cup {Echo} \cup Answers)]
         /\ \A u \in User : inbox'[u] \in Seq(Copies \cup {Echo})
         /\ \A a \in Admin : inbox'[a] \in Seq(Answers)
         /\ UNCHANGED <<stop, child, request, present>>
<1>1. loop.peer \in Peer /\ loop.peer \notin User
  BY Serves DEF Peer
<1>2. Answer(status) \in Answers
  BY DEF Answers
<1>3. TypeOK
  BY DEF NetInv
<1>4. /\ inbox' \in [Peer -> Seq(Copies \cup {Echo} \cup Answers)]
      /\ \A u \in User : inbox'[u] \in Seq(Copies \cup {Echo})
      /\ \A a \in Admin : inbox'[a] \in Seq(Answers)
  BY <1>1, <1>2, <1>3, TellTypes DEF Respond
<1>5. /\ loop' \in [pc : Places, peer : Peer \cup {Nobody}, next : DOMAIN FileNames]
      /\ queue' \in Seq(Peer)
      /\ open' \in SUBSET Peer
  <2>1. CASE Ended
    BY <1>3, <2>1, EndedTypes
  <2>2. CASE open' = open \ {loop.peer} /\ loop' = Loop("check", Nobody, 1) /\ UNCHANGED queue
    BY <1>3, <2>2, FileList DEF TypeOK, Loop, Places
  <2> QED
    BY <2>1, <2>2 DEF Respond
<1> QED
  BY <1>4, <1>5 DEF Respond

LEMMA CloseTypes ==
  ASSUME TypeOK, NEW p \in Peer, Close(p)
  PROVE  /\ present' \in SUBSET Peer
         /\ inbox' \in [Peer -> Seq(Copies \cup {Echo} \cup Answers)]
         /\ \A u \in User : inbox'[u] \in Seq(Copies \cup {Echo})
         /\ \A a \in Admin : inbox'[a] \in Seq(Answers)
         /\ got' \in [User -> Nat]
         /\ writing' \in SUBSET User
BY EmptySeq DEF TypeOK, Close, Peer

LEMMA TypeStep == NetInv /\ [Next]_vars => TypeOK'
<1> SUFFICES ASSUME NetInv, [Next]_vars PROVE TypeOK'
  OBVIOUS
<1>0. TypeOK
  BY DEF NetInv
<1> USE <1>0 DEF TypeOK
<1>1. CASE Check /\ UNCHANGED clientVars
  BY <1>1, FileList, EndedTypes DEF Check, Loop, Places
<1>2. CASE Accept /\ UNCHANGED clientVars
  BY <1>2, FileList DEF Accept, Loop, Places
<1>3. CASE ReceiveFails /\ UNCHANGED clientVars
  BY <1>3, EndedTypes DEF ReceiveFails
<1>4. CASE Fork /\ UNCHANGED clientVars
  <2>1. loop' \in [pc : Places, peer : Peer \cup {Nobody}, next : DOMAIN FileNames]
    BY <1>4, FileList DEF Fork, Loop, Places
  <2>2. child' \in [User -> Nat \cup {NoChild}] /\ open' \in SUBSET Peer
    BY <1>4 DEF Fork
  <2> QED
    BY <1>4, <2>1, <2>2 DEF Fork
<1>5. CASE ReceiveAdmin /\ UNCHANGED clientVars
  BY <1>5, FileList DEF ReceiveAdmin, Loop, Places
<1>6. CASE OpenFile /\ UNCHANGED clientVars
  BY <1>6, FileList DEF OpenFile, Places
<1>7. CASE WriteEmpty /\ UNCHANGED clientVars
  <2>1. {} \in Content /\ Current \in File
    BY FileList DEF Content, Current
  <2>2. loop' \in [pc : Places, peer : Peer \cup {Nobody}, next : DOMAIN FileNames]
    BY <1>7, FileList DEF WriteEmpty, Loop, Places
  <2> QED
    BY <1>7, <2>1, <2>2 DEF WriteEmpty
<1>8. CASE Refuse /\ UNCHANGED clientVars
  BY <1>8, RespondTypes DEF Refuse, At, Administering
<1>9. CASE StartAdd /\ UNCHANGED clientVars
  BY <1>9 DEF StartAdd, Places
<1>10. CASE WriteAdded /\ UNCHANGED clientVars
  <2>1. loop.pc = "write" /\ Serving \in AdminRequests
    BY <1>10, Serves DEF WriteAdded, At, Administering
  <2>2. {Serving.package} \in Content
    BY <2>1, AdminRequest DEF Content
  <2> QED
    BY <1>10, <2>1, <2>2, RespondTypes DEF WriteAdded, Administering
<1>11. CASE Crash /\ UNCHANGED clientVars
  BY <1>11, EndedTypes DEF Crash
<1>12. CASE Interrupt /\ UNCHANGED clientVars
  BY <1>12, EndedTypes DEF Interrupt
<1>13. CASE Restart /\ UNCHANGED clientVars
  <2>1. loop' \in [pc : Places, peer : Peer \cup {Nobody}, next : DOMAIN FileNames]
    BY <1>13, FileList DEF Restart, Loop, Places
  <2> QED
    BY <1>13, <2>1 DEF Restart
<1>14. ASSUME NEW u \in User, ChildReturns(u), UNCHANGED clientVars
       PROVE  TypeOK'
  BY <1>14, TellTypes DEF ChildReturns, Exit, ChildUnchanged, Peer
<1>15. ASSUME NEW u \in User, ChildSends(u), UNCHANGED clientVars
       PROVE  TypeOK'
  <2>1. /\ u \in Peer /\ u \notin Admin
        /\ Copy(NextFile(u), files[NextFile(u)]) \in Copies
        /\ child[u] + 1 \in Nat
    BY <1>15, SendsFile DEF ChildSends, Peer
  <2>2. /\ inbox' \in [Peer -> Seq(Copies \cup {Echo} \cup Answers)]
        /\ \A v \in User : inbox'[v] \in Seq(Copies \cup {Echo})
        /\ \A a \in Admin : inbox'[a] \in Seq(Answers)
    BY <1>15, <2>1, TellTypes DEF ChildSends
  <2> QED
    BY <1>15, <2>1, <2>2 DEF ChildSends, ChildUnchanged
<1>16. ASSUME NEW u \in User, ChildFails(u), UNCHANGED clientVars
       PROVE  TypeOK'
  BY <1>16 DEF ChildFails, Exit, ChildUnchanged
<1>17. ASSUME NEW p \in Peer, Connect(p) PROVE TypeOK'
  BY <1>17, AppendProperties DEF Connect
<1>18. ASSUME NEW p \in Peer, Leave(p) PROVE TypeOK'
  BY <1>18, CloseTypes DEF Leave, serverVars
<1>19. ASSUME NEW p \in Peer, Eof(p) PROVE TypeOK'
  BY <1>19, CloseTypes DEF Eof, serverVars
<1>20. ASSUME NEW u \in User, Update(u) PROVE TypeOK'
  BY <1>20 DEF Update, Send, serverVars, UserRequests, Peer
<1>21. ASSUME NEW a \in Admin, Administer(a) PROVE TypeOK'
  BY <1>21 DEF Administer, Send, serverVars, Peer
<1>22. ASSUME NEW a \in Admin, ReadResponse(a) PROVE TypeOK'
  BY <1>22, CloseTypes DEF ReadResponse, serverVars, Peer
<1>23. ASSUME NEW u \in User, WriteLocal(u) PROVE TypeOK'
  <2>1. Message(u).file \in File /\ Message(u).content \in Content
    BY <1>23, ReceivesFile, ServedContents DEF WriteLocal
  <2>2. local' \in [User -> [File -> Content \cup {Truncated}]]
    BY <1>23, <2>1 DEF WriteLocal
  <2>3. CASE Close(u)
    BY <1>23, <2>2, <2>3, CloseTypes DEF WriteLocal, serverVars, Peer
  <2>4. CASE /\ got' = [got EXCEPT ![u] = @ + 1]
             /\ inbox' = [inbox EXCEPT ![u] = Tail(@)]
             /\ writing' = writing \ {u}
             /\ UNCHANGED present
    <3>1. /\ Tail(inbox[u]) \in Seq(Copies \cup {Echo} \cup Answers)
          /\ Tail(inbox[u]) \in Seq(Copies \cup {Echo})
          /\ u \in Peer /\ u \notin Admin
      BY <1>23, ReadsMessage, SeqMonotonic DEF WriteLocal, HasFile, Peer
    <3> QED
      BY <1>23, <2>2, <2>4, <3>1, SMTT(30) DEF WriteLocal, serverVars
  <2> QED
    BY <1>23, <2>3, <2>4 DEF WriteLocal
<1>24. ASSUME NEW u \in User, ReceiveEcho(u) PROVE TypeOK'
  BY <1>24, CloseTypes DEF ReceiveEcho, serverVars, Peer
<1>25. CASE UNCHANGED vars
  BY <1>25 DEF vars, serverVars
<1>26. CASE Parent /\ UNCHANGED clientVars
  BY <1>1, <1>2, <1>3, <1>4, <1>5, <1>6, <1>7, <1>8, <1>9, <1>10, <1>11, <1>26
     DEF Parent
<1>27. CASE ServerStep
  BY <1>12, <1>13, <1>14, <1>15, <1>16, <1>26, <1>27 DEF ServerStep, Child
<1>28. ASSUME NEW u \in User, OpenLocal(u) PROVE TypeOK'
  <2>1. Message(u).file \in File
    BY <1>28, ReceivesFile DEF OpenLocal
  <2>2. local' \in [User -> [File -> Content \cup {Truncated}]]
    BY <1>28, <2>1 DEF OpenLocal
  <2> QED
    BY <1>28, <2>2 DEF OpenLocal, serverVars
<1> QED
  BY <1>17, <1>18, <1>19, <1>20, <1>21, <1>22, <1>23, <1>24, <1>25, <1>27,
     <1>28 DEF Next, PeerStep, Receive, Peer

-----------------------------------------------------------------------------
(* Who holds a connection *)

LEMMA QueueLen ==
  ASSUME TypeOK
  PROVE  /\ Len(queue) \in Nat
         /\ DOMAIN queue = 1 .. Len(queue)
         /\ \A i \in 1 .. Len(queue) : queue[i] \in Peer /\ queue[i] # Nobody
<1>1. queue \in Seq(Peer)
  BY DEF TypeOK
<1>2. \A i \in 1 .. Len(queue) : queue[i] \in Peer
  BY <1>1, ElementOfSeq
<1> QED
  BY <1>1, <1>2, LenProperties

\* The end of the server closes what waits and what it serves, and leaves the
\* children their connections.
LEMMA EndedConnections ==
  ASSUME NetInv, Ended, UNCHANGED <<child, request>>
  PROVE  Connections'
<1>1. /\ queue' = <<>>
      /\ Len(queue') = 0
      /\ loop'.pc = "ended" /\ loop'.peer = Nobody
  BY EmptySeq DEF Ended, Loop
<1>2. ASSUME NEW u \in User, Running(u)'
      PROVE  u \in open' /\ u # loop'.peer /\ request'[u] \in UserRequests
  <2>1. Running(u)
    BY <1>2 DEF Running
  <2>2. /\ u \in open /\ u # loop.peer /\ request[u] \in UserRequests
        /\ \A i \in 1 .. Len(queue) : queue[i] # u
    BY <2>1 DEF NetInv, Connections
  <2>3. u \in open'
    BY <2>2, QueueLen DEF Ended, NetInv
  <2> QED
    BY <1>1, <2>2, <2>3 DEF Peer
<1> QED
  BY <1>1, <1>2 DEF Connections, Idle

\* So does an answer, or it closes the one connection.
LEMMA RespondConnections ==
  ASSUME NetInv, loop.pc \in Administering, NEW status, Respond(status)
  PROVE  Connections'
<1>1. UNCHANGED <<child, request>>
  BY DEF Respond
<1>2. CASE Ended
  BY <1>1, <1>2, EndedConnections
<1>3. CASE open' = open \ {loop.peer} /\ loop' = Loop("check", Nobody, 1) /\ UNCHANGED queue
  <2>1. loop'.pc = "check" /\ loop'.peer = Nobody
    BY <1>3 DEF Loop
  <2>2. \A i \in 1 .. Len(queue) : queue[i] # Nobody
    BY QueueLen DEF NetInv
  <2> QED
    BY <1>1, <1>3, <2>1, <2>2 DEF NetInv, Connections, Running, Idle, Peer
<1> QED
  BY <1>2, <1>3 DEF Respond

LEMMA ConnectionsStep == NetInv /\ [Next]_vars => Connections'
<1> SUFFICES ASSUME NetInv, [Next]_vars PROVE Connections'
  OBVIOUS
<1>0. TypeOK /\ Connections /\ TypeOK' /\ Len(queue) \in Nat
      /\ \A i \in 1 .. Len(queue) : queue[i] \in Peer /\ queue[i] # Nobody
  BY TypeStep, QueueLen DEF NetInv
<1>1. CASE Check
  <2>1. CASE Ended
    BY <1>1, <2>1, EndedConnections DEF Check
  <2>2. CASE loop' = Loop("accept", Nobody, 1) /\ UNCHANGED <<queue, open>>
    BY <1>0, <1>1, <2>2 DEF Check, At, Loop, Connections, Running, Idle, Peer
  <2> QED
    BY <1>1, <2>1, <2>2 DEF Check
<1>2. CASE Accept
  <2>1. /\ Len(queue') = Len(queue) - 1
        /\ \A i \in 1 .. Len(queue') : queue'[i] = queue[i + 1]
        /\ queue[1] = loop'.peer /\ loop'.pc = "recv"
        /\ Len(queue) # 0
    BY <1>0, <1>2, HeadTailProperties, EmptySeq DEF Accept, Loop, TypeOK
  <2>2. \A i \in 1 .. Len(queue') : i + 1 \in 1 .. Len(queue)
    BY <1>0, <2>1
  <2>3. 1 \in 1 .. Len(queue) /\ \A i \in 1 .. Len(queue') : i + 1 # 1
    BY <1>0, <2>1
  <2> QED
    BY <1>0, <1>2, <2>1, <2>2, <2>3 DEF Accept, Connections, Running, Idle
<1>3. CASE ReceiveFails
  BY <1>3, EndedConnections DEF ReceiveFails
<1>4. CASE Fork
  <2>1. /\ loop'.pc = "check" /\ loop'.peer = Nobody
        /\ loop.peer \in open
        /\ UNCHANGED <<queue, request>>
    BY <1>0, <1>4 DEF Fork, At, Loop, Connections, Idle
  <2>2. loop.peer \in User => request[loop.peer] \in UserRequests
    BY <1>0, <1>4 DEF Fork, Serving, TypeOK, NoRequest
  <2> QED
    BY <1>0, <1>4, <2>1, <2>2 DEF Fork, Connections, Running, Idle, TypeOK, Peer
<1>5. CASE ReceiveAdmin
  BY <1>0, <1>5 DEF ReceiveAdmin, At, Loop, Connections, Running, Idle
<1>6. CASE OpenFile
  BY <1>0, <1>6 DEF OpenFile, At, Connections, Running, Idle, TypeOK
<1>7. CASE WriteEmpty
  BY <1>0, <1>7 DEF WriteEmpty, At, Loop, Connections, Running, Idle
<1>8. CASE Refuse
  BY <1>8, RespondConnections DEF Refuse, At, Administering
<1>9. CASE StartAdd
  BY <1>0, <1>9 DEF StartAdd, At, Connections, Running, Idle, TypeOK
<1>10. CASE WriteAdded
  BY <1>10, RespondConnections DEF WriteAdded, At, Administering
<1>11. CASE Crash
  BY <1>11, EndedConnections DEF Crash
<1>12. CASE Interrupt
  <2>1. CASE Ended
    BY <1>12, <2>1, EndedConnections DEF Interrupt
  <2>2. CASE UNCHANGED <<loop, queue, open>>
    BY <1>0, <1>12, <2>2 DEF Interrupt, Connections, Running
  <2> QED
    BY <1>12, <2>1, <2>2 DEF Interrupt
<1>13. CASE Restart
  BY <1>0, <1>13 DEF Restart, At, Loop, Connections, Running, Idle, Peer
<1>14. ASSUME NEW u \in User, Child(u) PROVE Connections'
  <2>1. /\ Running(u)
        /\ \/ Exit(u)
           \/ child' = [child EXCEPT ![u] = @ + 1] /\ UNCHANGED open
        /\ UNCHANGED <<queue, loop, request>>
    BY <1>14 DEF Child, ChildReturns, ChildSends, ChildFails, Sending, ChildUnchanged
  <2> QED
    BY <1>0, <2>1, ZenonT(40) DEF Exit, Connections, Running, Idle, TypeOK
<1>15. ASSUME NEW p \in Peer, Connect(p) PROVE Connections'
  <2>1. /\ Len(queue') = Len(queue) + 1
        /\ \A i \in 1 .. Len(queue) : queue'[i] = queue[i]
        /\ queue'[Len(queue) + 1] = p
    BY <1>0, <1>15, AppendProperties DEF Connect, TypeOK
  <2>2. p \notin open /\ p # Nobody /\ open' = open \cup {p}
    BY <1>15 DEF Connect
  <2>3. loop.peer # p
    BY <1>0, <2>2 DEF Connections
  <2>4. \A i \in 1 .. Len(queue') : i \in 1 .. Len(queue) \/ i = Len(queue) + 1
    BY <1>0, <2>1
  <2> QED
    BY <1>0, <1>15, <2>1, <2>2, <2>3, <2>4 DEF Connect, Connections, Running, TypeOK
<1>16. ASSUME NEW p \in Peer, NEW r, Send(p, r),
              p \in User => r \in UserRequests
       PROVE  Connections'
  BY <1>0, <1>16 DEF Send, serverVars, Connections, Running, TypeOK
<1>17. CASE UNCHANGED <<queue, open, loop, child, request>>
  BY <1>0, <1>17 DEF Connections, Running
<1>18. CASE ServerStep
  BY <1>1, <1>2, <1>3, <1>4, <1>5, <1>6, <1>7, <1>8, <1>9, <1>10, <1>11, <1>12,
     <1>13, <1>14, <1>18 DEF ServerStep, Parent
<1>19. ASSUME NEW u \in User, Update(u) PROVE Connections'
  BY <1>16, <1>19 DEF Update, UserRequests, Peer
<1>20. ASSUME NEW a \in Admin, Administer(a) PROVE Connections'
  BY <1>16, <1>20 DEF Administer, Peer
<1> QED
  BY <1>15, <1>17, <1>18, <1>19, <1>20
     DEF Next, PeerStep, Leave, Eof, Receive, OpenLocal, WriteLocal, ReceiveEcho,
         ReadResponse, serverVars, vars

-----------------------------------------------------------------------------
(* What the parent works on *)

\* Nothing but the parent moves the parent, and nobody changes the request of
\* a peer whose connection is open.
LEMMA ServingStays ==
  ASSUME NetInv, loop.pc \in Administering, UNCHANGED loop,
         \/ UNCHANGED request
         \/ \E p \in Peer : Connect(p) \/ \E r : Send(p, r)
  PROVE  Serving' = Serving
<1>1. loop.peer \in Peer /\ loop.peer \in open /\ Serving \in AdminRequests
  BY Serves DEF Peer
<1>2. Serving # NoRequest
  BY <1>1, AdminRequest
<1>3. ASSUME NEW p \in Peer, Connect(p) PROVE Serving' = Serving
  BY <1>1, <1>3 DEF Connect, Serving, NetInv, TypeOK
<1>4. ASSUME NEW p \in Peer, NEW r, Send(p, r) PROVE Serving' = Serving
  BY <1>1, <1>2, <1>4 DEF Send, Serving, NetInv, TypeOK
<1> QED
  BY <1>3, <1>4 DEF Serving

LEMMA EndedIdle == Ended => loop'.pc = "ended"
BY DEF Ended, Loop

LEMMA RespondIdle ==
  ASSUME NEW status, Respond(status) PROVE loop'.pc \in {"ended", "check"}
BY EndedIdle DEF Respond, Loop

LEMMA AdministeredStep == NetInv /\ [Next]_vars => Administered'
<1> SUFFICES ASSUME NetInv, [Next]_vars PROVE Administered'
  OBVIOUS
<1>0. TypeOK /\ Administered
  BY DEF NetInv
<1>1. CASE loop'.pc \notin Administering
  BY <1>1 DEF Administered, Administering
<1>2. CASE /\ UNCHANGED loop
           /\ \/ UNCHANGED request
              \/ \E p \in Peer : Connect(p) \/ \E r : Send(p, r)
  BY <1>0, <1>2, ServingStays DEF Administered, Allowed, Administering
<1>3. CASE Check
  BY <1>1, <1>3, EndedIdle DEF Check, Loop, Administering
<1>4. CASE Accept
  BY <1>1, <1>4 DEF Accept, Loop, Administering
<1>5. CASE ReceiveFails
  BY <1>1, <1>5, EndedIdle DEF ReceiveFails, Administering
<1>6. CASE Fork
  BY <1>1, <1>6 DEF Fork, Loop, Administering
<1>7. CASE ReceiveAdmin
  <2>1. loop.peer \in Peer
    BY <1>7 DEF ReceiveAdmin, NetInv, Connections, TypeOK, At, Idle
  <2>2. loop.peer \notin User
    <3>1. Serving.type # "update" /\ Serving.type # "none"
      BY <1>7 DEF ReceiveAdmin
    <3>2. Serving \notin UserRequests /\ Serving # NoRequest
      BY <3>1, UserRequest DEF NoRequest
    <3> QED
      BY <1>0, <3>2 DEF Serving, TypeOK
  <2>3. loop.peer \in Admin /\ Serving \in AdminRequests
    BY <1>0, <1>7, <2>1, <2>2 DEF ReceiveAdmin, Serving, TypeOK, Peer, NoRequest
  <2> QED
    BY <1>7, <2>3 DEF ReceiveAdmin, Loop, Administered, Serving
<1>8. CASE OpenFile \/ WriteEmpty
  <2>1. /\ loop.pc \in Administering
        /\ loop'.pc \in {"construct", "empty", "handle"}
        /\ loop'.peer = loop.peer
        /\ UNCHANGED request
    BY <1>0, <1>8 DEF OpenFile, WriteEmpty, At, Loop, Administering, TypeOK
  <2> QED
    BY <1>0, <2>1 DEF Administered, Serving
<1>9. CASE Refuse \/ WriteAdded
  BY <1>1, <1>9, RespondIdle DEF Refuse, WriteAdded, Administering
<1>10. CASE StartAdd
  BY <1>0, <1>10 DEF StartAdd, At, Administered, Administering, Serving, Allowed, TypeOK
<1>11. CASE Crash
  BY <1>1, <1>11, EndedIdle DEF Crash, Administering
<1>12. CASE Interrupt
  <2>1. CASE Ended
    BY <1>1, <2>1, EndedIdle DEF Administering
  <2>2. CASE UNCHANGED loop
    BY <1>2, <1>12, <2>2 DEF Interrupt
  <2> QED
    BY <1>12, <2>1, <2>2 DEF Interrupt
<1>13. CASE Restart
  BY <1>1, <1>13 DEF Restart, Loop, Administering
<1>14. ASSUME NEW u \in User, Child(u) PROVE Administered'
  BY <1>2, <1>14 DEF Child, ChildReturns, ChildSends, ChildFails, ChildUnchanged
<1>15. CASE ServerStep
  BY <1>3, <1>4, <1>5, <1>6, <1>7, <1>8, <1>9, <1>10, <1>11, <1>12, <1>13, <1>14,
     <1>15 DEF ServerStep, Parent
<1>16. CASE PeerStep
  BY <1>2, <1>16
     DEF PeerStep, Leave, Eof, Receive, OpenLocal, WriteLocal, ReceiveEcho, ReadResponse,
         Update, Administer, Connect, Send, serverVars, Peer
<1>17. CASE UNCHANGED vars
  BY <1>2, <1>17 DEF vars, serverVars
<1> QED
  BY <1>15, <1>16, <1>17 DEF Next

-----------------------------------------------------------------------------
(* What files, messages and copies may have *)

LEMMA FilesServedStep == NetInv /\ [Next]_vars => FilesServed'
<1> SUFFICES ASSUME NetInv, [Next]_vars PROVE FilesServed'
  OBVIOUS
<1>0. TypeOK /\ FilesServed
  BY DEF NetInv
<1>1. CASE UNCHANGED files
  BY <1>0, <1>1 DEF FilesServed, Served
<1>2. ASSUME NEW f \in File, NEW c \in Served(f) \cup {Truncated},
             files' = [files EXCEPT ![f] = c]
      PROVE  FilesServed'
  BY <1>0, <1>2 DEF FilesServed, TypeOK, Served
<1>3. CASE OpenFile
  <2>1. Current \in File
    BY <1>0, FileList DEF Current, TypeOK
  <2> QED
    BY <1>2, <1>3, <2>1 DEF OpenFile
<1>4. CASE WriteEmpty
  <2>1. Current \in File
    BY <1>0, FileList DEF Current, TypeOK
  <2> QED
    BY <1>2, <1>4, <2>1, ServedContents DEF WriteEmpty
<1>5. CASE StartAdd
  BY <1>2, <1>5 DEF StartAdd, Allowed
<1>6. CASE WriteAdded
  <2>1. /\ Serving \in AdminRequests
        /\ Serving.type = "add" /\ Serving.password /\ Serving.file \in File
    BY <1>6, Serves DEF WriteAdded, At, Administering, NetInv, Administered, Allowed
  <2> QED
    BY <1>2, <1>6, <2>1, ServedAdded DEF WriteAdded
<1>7. CASE ServerStep
  BY <1>1, <1>3, <1>4, <1>5, <1>6, <1>7
     DEF ServerStep, Parent, Check, Accept, ReceiveFails, Fork, ReceiveAdmin, Refuse,
         Crash, Interrupt, Restart, Child, ChildReturns, ChildSends, ChildFails,
         ChildUnchanged
<1>8. CASE PeerStep \/ UNCHANGED vars
  BY <1>1, <1>8
     DEF PeerStep, Connect, Leave, Eof, Receive, OpenLocal, WriteLocal, ReceiveEcho,
         ReadResponse, Update, Administer, Send, serverVars, vars
<1> QED
  BY <1>7, <1>8 DEF Next

\* Nothing that a client has written, or is writing, changes, or its update
\* is over.
LocalUnchanged(u) ==
  /\ local'[u] = local[u]
  /\ \/ got'[u] = 0
     \/ /\ UNCHANGED <<got[u], request[u]>>
        /\ u \in writing => u \in writing'

LEMMA CopyStays ==
  ASSUME NetInv, NEW u \in User, LocalUnchanged(u)
  PROVE  CopyServed(u)'
<1>1. CopyServed(u) /\ got[u] \in Nat
  BY DEF NetInv, CopiesAreServed, TypeOK
<1>2. \A f \in File : local'[u][f] \in Served(f) \cup {Truncated}
  BY <1>1 DEF LocalUnchanged, CopyServed
<1>3. CASE got'[u] = 0
  <2>1. 1 .. got'[u] = {}
    BY <1>3
  <2> QED
    BY <1>2, <2>1 DEF CopyServed, Served
<1>4. CASE UNCHANGED <<got[u], request[u]>> /\ (u \in writing => u \in writing')
  BY <1>1, <1>2, <1>4 DEF CopyServed, Served, LocalUnchanged, Wanted
<1> QED
  BY <1>3, <1>4 DEF LocalUnchanged

\* The file that is opened is the one that comes next.
LEMMA CopyOpened ==
  ASSUME NetInv, NEW u \in User, OpenLocal(u)
  PROVE  CopyServed(u)'
<1>0. TypeOK /\ CopyServed(u) /\ UpdateCounted(u)
  BY DEF NetInv, CopiesAreServed, UpdatesCounted
<1> DEFINE F == Message(u).file
<1>1. F \in File /\ F = Wanted(u)[got[u] + 1]
  BY <1>0, ReceivesFile DEF OpenLocal, UpdateCounted
<1>2. /\ local'[u] = [local[u] EXCEPT ![F] = Truncated]
      /\ UNCHANGED <<got, request>> /\ u \in writing' /\ u \notin writing
  BY <1>0 DEF OpenLocal, TypeOK
<1>3. local[u] \in [File -> Content \cup {Truncated}]
  BY <1>0 DEF TypeOK
<1> HIDE DEF F
<1>4. \A f \in File : local'[u][f] = IF f = F THEN Truncated ELSE local[u][f]
  BY <1>2, <1>3
<1>5. ASSUME NEW i \in 1 .. got[u], local'[u][Wanted(u)[i]] = Truncated
      PROVE  Wanted(u)[i] = F
  <2>1. local[u][Wanted(u)[i]] # Truncated
    BY <1>0, <1>2 DEF CopyServed
  <2> QED
    BY <1>2, <1>3, <1>5, <2>1
<1> QED
  BY <1>0, <1>1, <1>2, <1>4, <1>5 DEF CopyServed, Served, Wanted

\* It is whole when it is written.
LEMMA CopyWritten ==
  ASSUME NetInv, NEW u \in User, WriteLocal(u)
  PROVE  CopyServed(u)'
<1>0. TypeOK /\ CopyServed(u) /\ UpdateCounted(u) /\ got[u] \in Nat
  BY DEF NetInv, CopiesAreServed, UpdatesCounted, TypeOK
<1> DEFINE F == Message(u).file
           c == Message(u).content
<1>1. F \in File /\ F = Wanted(u)[got[u] + 1] /\ c \in Served(F)
  BY <1>0, ReceivesFile DEF WriteLocal, UpdateCounted
<1>2. /\ local'[u] = [local[u] EXCEPT ![F] = c]
      /\ request' = request
  BY <1>0 DEF WriteLocal, TypeOK
<1>3. local[u] \in [File -> Content \cup {Truncated}]
  BY <1>0 DEF TypeOK
<1>4. got'[u] \in {0, got[u] + 1}
  BY <1>0 DEF WriteLocal, Close, TypeOK
<1> HIDE DEF F, c
<1>5. \A f \in File : local'[u][f] = IF f = F THEN c ELSE local[u][f]
  BY <1>2, <1>3
<1>6. c # Truncated
  BY <1>1, ServedContents
<1>7. ASSUME NEW i \in 1 .. (got[u] + 1)
      PROVE  local'[u][Wanted(u)[i]] # Truncated
  <2>1. CASE Wanted(u)[i] = F
    BY <1>1, <1>5, <1>6, <2>1
  <2>2. CASE Wanted(u)[i] # F
    <3>1. i \in 1 .. got[u]
      BY <1>0, <1>1, <2>2
    <3>2. local[u][Wanted(u)[i]] # Truncated
      BY <1>0, <1>1, <2>2, <3>1 DEF CopyServed
    <3> QED
      BY <1>2, <1>3, <2>2, <3>2
  <2> QED
    BY <2>1, <2>2
<1>8. \A i \in 1 .. got'[u] : local'[u][Wanted(u)[i]] # Truncated
  BY <1>0, <1>4, <1>7
<1>9. \A f \in File : local'[u][f] \in Served(f) \cup {Truncated}
  BY <1>0, <1>1, <1>5 DEF CopyServed
<1> QED
  BY <1>2, <1>8, <1>9 DEF CopyServed, Served, Wanted

LEMMA CopiesStep == NetInv /\ [Next]_vars => CopiesAreServed'
<1> SUFFICES ASSUME NetInv, [Next]_vars, NEW u \in User PROVE CopyServed(u)'
  BY DEF CopiesAreServed
<1>0. TypeOK /\ UpdateCounted(u) /\ u \in Peer
  BY DEF NetInv, UpdatesCounted, Peer
<1>1. CASE UNCHANGED <<clientVars, request>>
  BY <1>1, CopyStays DEF LocalUnchanged
<1>2. CASE ServerStep
  BY <1>1, <1>2
     DEF ServerStep, Parent, Check, Accept, ReceiveFails, Fork, ReceiveAdmin,
         OpenFile, WriteEmpty, Refuse, StartAdd, WriteAdded, Crash, Respond,
         Interrupt, Restart, Child, ChildReturns, ChildSends, ChildFails,
         ChildUnchanged
<1>3. ASSUME NEW p \in Peer, Close(p), UNCHANGED <<local, request>>
      PROVE  CopyServed(u)'
  <2>1. LocalUnchanged(u)
    BY <1>0, <1>3 DEF Close, LocalUnchanged, TypeOK
  <2> QED
    BY <2>1, CopyStays
<1>4. ASSUME NEW p \in Peer, Connect(p) \/ \E r : Send(p, r)
      PROVE  CopyServed(u)'
  <2>1. CASE p = u
    <3>1. u \notin present \/ request[u] = NoRequest
      BY <1>4, <2>1 DEF Connect, Send
    <3>2. got[u] = 0 /\ UNCHANGED clientVars
      BY <1>0, <1>4, <3>1 DEF UpdateCounted, Connect, Send
    <3> QED
      BY <3>2, CopyStays DEF LocalUnchanged
  <2>2. CASE p # u
    <3>1. UNCHANGED clientVars /\ UNCHANGED request[u]
      BY <1>0, <1>4, <2>2 DEF Connect, Send, TypeOK
    <3> QED
      BY <3>1, CopyStays DEF LocalUnchanged
  <2> QED
    BY <2>1, <2>2
<1>5. ASSUME NEW v \in User, OpenLocal(v) \/ WriteLocal(v)
      PROVE  CopyServed(u)'
  <2>1. CASE v # u
    <3>1. UNCHANGED <<local[u], got[u], request[u]>>
      BY <1>0, <1>5, <2>1 DEF OpenLocal, WriteLocal, Close, TypeOK
    <3>2. u \in writing => u \in writing'
      BY <1>5, <2>1 DEF OpenLocal, WriteLocal, Close
    <3> QED
      BY <3>1, <3>2, CopyStays DEF LocalUnchanged
  <2> QED
    BY <1>5, <2>1, CopyOpened, CopyWritten
<1>6. CASE PeerStep
  BY <1>3, <1>4, <1>5, <1>6
     DEF PeerStep, Leave, Eof, Receive, ReceiveEcho, ReadResponse, Update,
         Administer, Peer
<1> QED
  BY <1>1, <1>2, <1>6 DEF Next, vars

-----------------------------------------------------------------------------
(* How far updates have come *)

\* Nothing that is counted for user u changes.
CountUnchanged(u) ==
  /\ u \in present' <=> u \in present
  /\ UNCHANGED <<request[u], inbox[u], got[u], child[u]>>
  /\ u \in writing' => u \in writing
  /\ u \in open' => u \in open

LEMMA CountStays ==
  ASSUME NetInv, NEW u \in User, CountUnchanged(u)
  PROVE  UpdateCounted(u)'
<1>1. UpdateCounted(u)
  BY DEF NetInv, UpdatesCounted
<1> QED
  BY <1>1 DEF CountUnchanged, UpdateCounted, Running, Wanted, AllOpen

\* The parent forks a child for the user it serves, who has received nothing,
\* and changes nothing else that is counted.
LEMMA ForkCounts ==
  ASSUME NetInv, NEW u \in User, Fork, UNCHANGED clientVars
  PROVE  UpdateCounted(u)'
<1>0. TypeOK /\ UpdateCounted(u) /\ Connections
  BY DEF NetInv, UpdatesCounted
<1>1. CASE loop.peer # u
  <2>1. CountUnchanged(u)
    BY <1>0, <1>1 DEF Fork, CountUnchanged, TypeOK, Peer
  <2> QED
    BY <2>1, CountStays
<1>2. CASE loop.peer = u /\ child' = [child EXCEPT ![loop.peer] = 0] /\ UNCHANGED open
  <2>1. u \in open /\ ~Running(u)
    BY <1>0, <1>2 DEF Fork, At, Connections, Idle
  <2>2. inbox[u] = <<>> /\ got[u] = 0 /\ Len(inbox[u]) = 0 /\ u \notin writing
    BY <1>0, <2>1, EmptySeq DEF UpdateCounted
  <2>3. request[u] \in UserRequests
    BY <1>0, <1>2 DEF Fork, Serving, TypeOK, NoRequest
  <2>4. Len(Wanted(u)) \in Nat \ {0} /\ request[u] # NoRequest
    BY <2>3, UserRequest DEF Wanted
  <2>5. child'[u] = 0 /\ UNCHANGED <<inbox, got, request, present, open, writing>>
    BY <1>0, <1>2 DEF Fork, TypeOK
  <2> QED
    BY <1>0, <2>1, <2>2, <2>3, <2>4, <2>5 DEF UpdateCounted, Running, Wanted, AllOpen, Fork
<1>3. CASE open' = open \ {loop.peer} /\ UNCHANGED child
  BY <1>3, CountStays DEF Fork, CountUnchanged
<1> QED
  BY <1>1, <1>2, <1>3 DEF Fork

LEMMA RespondCounts ==
  ASSUME NetInv, NEW u \in User, loop.pc \in Administering, NEW status,
         Respond(status), UNCHANGED clientVars
  PROVE  UpdateCounted(u)'
<1>1. loop.peer # u /\ TypeOK
  BY Serves DEF NetInv
<1>2. CountUnchanged(u)
  BY <1>1 DEF Respond, Tell, Ended, CountUnchanged, TypeOK, Peer
<1> QED
  BY <1>2, CountStays

LEMMA ParentCounts ==
  ASSUME NetInv, NEW u \in User, Parent \/ Interrupt \/ Restart, UNCHANGED clientVars
  PROVE  UpdateCounted(u)'
<1>1. CASE Fork
  BY <1>1, ForkCounts
<1>2. CASE Refuse
  BY <1>2, RespondCounts DEF Refuse, At, Administering
<1>3. CASE WriteAdded
  BY <1>3, RespondCounts DEF WriteAdded, At, Administering
<1>4. CASE Check \/ Accept \/ ReceiveFails \/ ReceiveAdmin \/ OpenFile \/ WriteEmpty
             \/ StartAdd \/ Crash \/ Interrupt \/ Restart
  <2>1. CountUnchanged(u)
    BY <1>4 DEF Check, Accept, ReceiveFails, ReceiveAdmin, OpenFile, WriteEmpty,
                StartAdd, Crash, Interrupt, Restart, Ended, CountUnchanged
  <2> QED
    BY <2>1, CountStays
<1> QED
  BY <1>1, <1>2, <1>3, <1>4 DEF Parent

\* A child changes the count of its own user only.
LEMMA OtherChild ==
  ASSUME NetInv, NEW u \in User, NEW v \in User, v # u, Child(v), UNCHANGED clientVars
  PROVE  UpdateCounted(u)'
<1>1. /\ UNCHANGED <<request, present>>
      /\ open' \subseteq open
  BY DEF Child, ChildReturns, ChildSends, ChildFails, ChildUnchanged, Exit
<1>2. UNCHANGED child[u]
  BY DEF NetInv, TypeOK, Child, ChildReturns, ChildSends, ChildFails, Exit
<1>3. UNCHANGED inbox[u]
  BY DEF NetInv, TypeOK, Child, ChildReturns, ChildSends, ChildFails, Tell, Peer
<1> QED
  BY <1>1, <1>2, <1>3, CountStays DEF CountUnchanged

\* Message m is the last one in the inbox of user u, and new.
Added(u, m) ==
  /\ Len(inbox[u]) \in Nat
  /\ Len(inbox'[u]) = Len(inbox[u]) + 1
  /\ \A i \in 1 .. Len(inbox[u]) : inbox'[u][i] = inbox[u][i]
  /\ inbox'[u][Len(inbox[u]) + 1] = m

\* What a message adds to the inbox of a user who has not left.
LEMMA TellAppends ==
  ASSUME TypeOK, NEW u \in User, NEW m \in Copies \cup {Echo}, Tell(u, m)
  PROVE  /\ u \notin present => inbox'[u] = inbox[u]
         /\ u \in present => Added(u, m)
<1>1. inbox[u] \in Seq(Copies \cup {Echo})
  BY DEF TypeOK
<1>2. u \in present => inbox'[u] = Append(inbox[u], m)
  BY DEF TypeOK, Tell, Peer
<1> QED
  BY <1>1, <1>2, AppendProperties, LenProperties DEF Tell, Added

\* The files on their way to user u come in the order of its list.
OrderKept(u) ==
  \A i \in 1 .. Len(inbox'[u]) :
    inbox'[u][i] # Echo => inbox'[u][i].file = Wanted(u)'[got'[u] + i]

\* What is added at the end of the inbox is the request, or the next file.
LEMMA OrderStays ==
  ASSUME NetInv, NEW u \in User, NEW m,
         request'[u] = request[u], got'[u] = got[u], Added(u, m),
         m # Echo => m.file = Wanted(u)[got[u] + (Len(inbox[u]) + 1)]
  PROVE  OrderKept(u)
<1>1. UpdateCounted(u)
  BY DEF NetInv, UpdatesCounted
<1>2. \A i \in 1 .. Len(inbox'[u]) : i \in 1 .. Len(inbox[u]) \/ i = Len(inbox[u]) + 1
  BY DEF Added
<1> QED
  BY <1>1, <1>2 DEF UpdateCounted, OrderKept, Wanted, Added

\* An inbox with a first message is not empty.
LEMMA EmptyLength ==
  ASSUME NetInv, NEW u \in User, inbox[u] # <<>>
  PROVE  1 \in 1 .. Len(inbox[u])
<1>1. inbox[u] \in Seq(Copies \cup {Echo})
  BY DEF NetInv, TypeOK
<1> QED
  BY <1>1, EmptySeq, LenProperties

LEMMA OwnChild ==
  ASSUME NetInv, NEW u \in User, Child(u), UNCHANGED clientVars
  PROVE  UpdateCounted(u)'
<1>0. TypeOK /\ UpdateCounted(u) /\ Connections
  BY DEF NetInv, UpdatesCounted
<1>1. /\ Running(u) /\ u \in open
      /\ request[u] \in UserRequests
      /\ child[u] \in Nat
      /\ UNCHANGED <<request, present, got, writing>>
  BY <1>0 DEF Child, ChildReturns, ChildSends, ChildFails, ChildUnchanged, Sending,
              Running, Connections, TypeOK
<1>2. /\ request[u] # NoRequest
      /\ Len(Wanted(u)) \in Nat \ {0}
      /\ got[u] \in Nat /\ Len(inbox[u]) \in Nat
      /\ \A i \in 1 .. Len(inbox[u]) : inbox[u][i] # Echo
  BY <1>0, <1>1, UserRequest, LenProperties DEF Wanted, UpdateCounted, TypeOK
<1>3. CASE ChildReturns(u)
  <2>1. child'[u] = NoChild /\ u \notin open' /\ Tell(u, Echo)
    BY <1>0, <1>3 DEF ChildReturns, Exit, TypeOK
  <2>2. child[u] \in {0, Len(Wanted(u))}
    BY <1>0, <1>1, <1>3 DEF ChildReturns, UpdateCounted
  <2>3. CASE u \in present
    <3>1. Added(u, Echo)
      BY <1>0, <2>1, <2>3, TellAppends
    <3>2. /\ Len(inbox'[u]) = Len(inbox[u]) + 1
          /\ \A i \in 1 .. Len(inbox[u]) : inbox'[u][i] # Echo
      BY <1>2, <3>1 DEF Added
    <3>3. ASSUME NEW i \in 1 .. Len(inbox'[u]), inbox'[u][i] = Echo
          PROVE  i = Len(inbox[u]) + 1
      BY <1>2, <3>2, <3>3
    <3>4. got[u] + Len(inbox[u]) \in {0, Len(Wanted(u))}
      BY <1>0, <1>1, <2>2, <2>3 DEF UpdateCounted
    <3>5. u \in writing => inbox'[u] # <<>> /\ inbox'[u][1] # Echo
      BY <1>0, <1>2, <3>1, EmptyLength DEF UpdateCounted, Added
    <3>6. OrderKept(u)
      BY <1>1, <3>1, OrderStays
    <3> QED
      BY <1>0, <1>1, <1>2, <2>1, <2>3, <3>2, <3>3, <3>4, <3>5, <3>6, SMTT(30)
         DEF UpdateCounted, Running, Wanted, AllOpen, OrderKept
  <2>4. CASE u \notin present
    <3>1. inbox'[u] = inbox[u]
      BY <1>0, <2>1, <2>4, TellAppends
    <3> QED
      BY <1>0, <1>1, <1>2, <2>1, <2>4, <3>1 DEF UpdateCounted, Running, Wanted, AllOpen
  <2> QED
    BY <2>3, <2>4
<1>4. CASE ChildSends(u)
  <2>1. /\ Copy(NextFile(u), files[NextFile(u)]) \in Copies
        /\ AllOpen(u)
        /\ child[u] + 1 <= Len(Wanted(u))
        /\ child'[u] = child[u] + 1
        /\ child[u] + 1 # NoChild
        /\ UNCHANGED open
    BY <1>0, <1>1, <1>2, <1>4, SendsFile DEF ChildSends, Sending, TypeOK
  <2>2. Copy(NextFile(u), files[NextFile(u)]) # Echo
    BY <2>1, Messages
  <2>3. Tell(u, Copy(NextFile(u), files[NextFile(u)]))
    BY <1>4 DEF ChildSends
  <2>4. CASE u \in present
    <3>1. PICK m \in Copies : m = Copy(NextFile(u), files[NextFile(u)])
      BY <2>1
    <3>2. Added(u, m)
      BY <1>0, <2>3, <2>4, <3>1, TellAppends
    <3>3. /\ Len(inbox'[u]) = Len(inbox[u]) + 1
          /\ \A i \in 1 .. Len(inbox'[u]) : inbox'[u][i] # Echo
      BY <1>2, <2>2, <3>1, <3>2 DEF Added
    <3>4. /\ got[u] < Len(Wanted(u))
          /\ got[u] + Len(inbox[u]) = child[u]
      BY <1>0, <1>1, <1>2, <2>4 DEF UpdateCounted
    <3>5. got[u] + Len(inbox'[u]) = child'[u]
      BY <1>1, <1>2, <2>1, <3>3, <3>4
    <3>6. child[u] + 1 = got[u] + (Len(inbox[u]) + 1)
      BY <1>1, <1>2, <3>4
    <3>7. m.file = Wanted(u)[got[u] + (Len(inbox[u]) + 1)]
      BY <3>1, <3>6 DEF Copy, NextFile
    <3>8. u \in writing => inbox'[u] # <<>> /\ inbox'[u][1] # Echo
      BY <1>0, <1>2, <3>2, EmptyLength DEF UpdateCounted, Added
    <3>9. OrderKept(u)
      BY <1>1, <3>2, <3>7, OrderStays
    <3> QED
      BY <1>1, <1>2, <2>1, <2>4, <3>3, <3>4, <3>5, <3>8, <3>9
         DEF UpdateCounted, Running, Wanted, AllOpen, OrderKept
  <2>5. CASE u \notin present
    <3>1. inbox'[u] = inbox[u]
      BY <1>0, <2>1, <2>3, <2>5, TellAppends
    <3> QED
      BY <1>0, <1>1, <1>2, <2>1, <2>5, <3>1 DEF UpdateCounted, Running, Wanted, AllOpen
  <2> QED
    BY <2>4, <2>5
<1>5. CASE ChildFails(u)
  <2>1. child'[u] = NoChild /\ u \notin open' /\ UNCHANGED inbox
    BY <1>0, <1>5 DEF ChildFails, Exit, TypeOK
  <2> QED
    BY <1>0, <1>1, <1>2, <2>1 DEF UpdateCounted, Running, Wanted, AllOpen
<1> QED
  BY <1>3, <1>4, <1>5 DEF Child

\* Whoever closes its socket starts to count again.
LEMMA CloseCounts ==
  ASSUME NetInv, NEW u \in User, Close(u), UNCHANGED <<serverVars, request>>
  PROVE  UpdateCounted(u)'
<1>1. /\ u \notin present' /\ u \notin writing'
      /\ inbox'[u] = <<>> /\ got'[u] = 0 /\ Len(inbox'[u]) = 0
  BY EmptySeq DEF Close, NetInv, TypeOK, Peer
<1>2. UpdateCounted(u)
  BY DEF NetInv, UpdatesCounted
<1> QED
  BY <1>1, <1>2 DEF UpdateCounted, Running, Wanted, AllOpen, serverVars

LEMMA OtherPeer ==
  ASSUME NetInv, NEW u \in User, NEW p \in Peer, p # u,
         \/ Connect(p) \/ Leave(p) \/ Eof(p)
         \/ \E r : Send(p, r)
         \/ p \in User /\ Receive(p)
         \/ p \in Admin /\ ReadResponse(p)
  PROVE  UpdateCounted(u)'
<1>0. TypeOK /\ u \in Peer
  BY DEF NetInv, Peer
<1>1. ASSUME Close(p), UNCHANGED <<serverVars, request>>
      PROVE  CountUnchanged(u)
  BY <1>0, <1>1 DEF TypeOK, Close, CountUnchanged, serverVars
<1>2. ASSUME NEW r, Send(p, r) PROVE CountUnchanged(u)
  BY <1>0, <1>2 DEF TypeOK, Send, CountUnchanged, serverVars
<1>3. ASSUME Connect(p) PROVE CountUnchanged(u)
  BY <1>0, <1>3 DEF TypeOK, Connect, CountUnchanged
<1>4. ASSUME p \in User, WriteLocal(p), ~Close(p) PROVE CountUnchanged(u)
  BY <1>0, <1>4 DEF TypeOK, WriteLocal, CountUnchanged, serverVars
<1>5. ASSUME p \in User, OpenLocal(p) PROVE CountUnchanged(u)
  BY <1>0, <1>5 DEF TypeOK, OpenLocal, CountUnchanged, serverVars
<1> QED
  BY <1>1, <1>2, <1>3, <1>4, <1>5, CountStays
     DEF Leave, Eof, Receive, WriteLocal, ReceiveEcho, ReadResponse

\* The client of user u.
LEMMA OwnPeer ==
  ASSUME NetInv, NEW u \in User,
         Connect(u) \/ Leave(u) \/ Eof(u) \/ Update(u) \/ Receive(u)
  PROVE  UpdateCounted(u)'
<1>0. TypeOK /\ UpdateCounted(u) /\ Connections
  BY DEF NetInv, UpdatesCounted
<1>1. CASE Connect(u)
  <2>1. /\ inbox[u] = <<>> /\ got[u] = 0 /\ ~Running(u) /\ Len(inbox[u]) = 0
        /\ u \notin writing
    BY <1>0, <1>1, EmptySeq DEF Connect, UpdateCounted, Connections
  <2>2. request'[u] = NoRequest
    BY <1>0, <1>1 DEF Connect, TypeOK, Peer
  <2>3. UNCHANGED <<inbox, got, child, writing>>
    BY <1>1 DEF Connect
  <2>4. 1 .. Len(inbox[u]) = {}
    BY <2>1
  <2> QED
    BY <2>1, <2>2, <2>3, <2>4 DEF UpdateCounted, Running
<1>2. CASE Leave(u) \/ Eof(u) \/ ReceiveEcho(u)
  BY <1>2, CloseCounts DEF Leave, Eof, ReceiveEcho, serverVars
<1>3. CASE Update(u)
  <2>1. PICK r \in UserRequests : Send(u, r)
    BY <1>3 DEF Update, UserRequests
  <2>2. /\ inbox[u] = <<>> /\ got[u] = 0 /\ Len(inbox[u]) = 0
        /\ ~Running(u) /\ u \notin writing
    BY <1>0, <2>1, UserRequest, EmptySeq DEF Send, UpdateCounted, Connections
  <2>3. request'[u] = r
    BY <1>0, <2>1 DEF Send, TypeOK, Peer
  <2>4. u \in present /\ UNCHANGED <<inbox, got, child, open, present, writing>>
    BY <2>1 DEF Send, serverVars
  <2>5. 1 .. Len(inbox[u]) = {}
    BY <2>2
  <2>6. r # NoRequest /\ 0 < Len(r.files)
    BY UserRequest
  <2> QED
    BY <2>2, <2>3, <2>4, <2>5, <2>6 DEF UpdateCounted, Running, Wanted
<1>4. CASE OpenLocal(u)
  <2>1. /\ u \in present /\ inbox[u] # <<>> /\ inbox[u][1] # Echo
    BY <1>4, ReceivesFile DEF OpenLocal
  <2>2. UNCHANGED <<open, child, request, inbox, present, got>>
    BY <1>4 DEF OpenLocal, serverVars
  <2> QED
    BY <1>0, <2>1, <2>2 DEF UpdateCounted, Running, Wanted, AllOpen
<1>5. CASE WriteLocal(u)
  <2>1. CASE Close(u)
    BY <1>5, <2>1, CloseCounts DEF WriteLocal
  <2>2. CASE /\ got[u] + 1 # Len(request[u].files)
             /\ got' = [got EXCEPT ![u] = @ + 1]
             /\ inbox' = [inbox EXCEPT ![u] = Tail(@)]
             /\ writing' = writing \ {u}
             /\ UNCHANGED present
    <3>1. /\ u \in present /\ inbox[u] # <<>>
          /\ got[u] \in Nat
          /\ got'[u] = got[u] + 1
          /\ inbox'[u] = Tail(inbox[u])
      BY <1>0, <1>5, <2>2 DEF WriteLocal, HasFile, CanReceive, TypeOK, Peer
    <3>2. /\ Len(inbox[u]) \in Nat \ {0}
          /\ Len(inbox'[u]) = Len(inbox[u]) - 1
          /\ \A i \in 1 .. Len(inbox'[u]) : inbox'[u][i] = inbox[u][i + 1]
      BY <1>5, <3>1, ReadsMessage DEF WriteLocal, HasFile
    <3>3. /\ request[u] \in UserRequests /\ request[u] # NoRequest
          /\ Len(Wanted(u)) \in Nat \ {0}
      BY <1>0, <3>1, UserRequest DEF UpdateCounted, TypeOK, Wanted
    <3>4. got[u] + 1 < Len(Wanted(u))
      BY <1>0, <2>2, <3>1, <3>3 DEF UpdateCounted, Wanted
    <3>5. u \in open => Running(u)
      BY <1>0, <3>1 DEF UpdateCounted
    <3>6. ASSUME NEW i \in 1 .. Len(inbox'[u]), inbox'[u][i] = Echo
          PROVE  /\ i = Len(inbox'[u])
                 /\ u \notin open
                 /\ got'[u] + i - 1 \in {0, Len(Wanted(u))}
      <4>1. i + 1 \in 1 .. Len(inbox[u]) /\ inbox[u][i + 1] = Echo
        BY <3>2, <3>6
      <4>2. /\ i + 1 = Len(inbox[u])
            /\ u \notin open
            /\ got[u] + (i + 1) - 1 \in {0, Len(Wanted(u))}
        BY <1>0, <4>1 DEF UpdateCounted
      <4>3. i \in Nat
        OBVIOUS
      <4>4. i = Len(inbox'[u])
        BY <3>2, <4>2, <4>3
      <4>5. got'[u] + i - 1 = got[u] + (i + 1) - 1
        BY <3>1, <4>3
      <4> QED
        BY <4>2, <4>4, <4>5
    <3>7. UNCHANGED <<request, open, child, present>>
      BY <1>5, <2>2 DEF WriteLocal, serverVars
    <3>8. Running(u) => got'[u] + Len(inbox'[u]) = child[u]
      BY <1>0, <3>1, <3>2 DEF UpdateCounted
    <3>9. ASSUME NEW i \in 1 .. Len(inbox'[u]), inbox'[u][i] # Echo
          PROVE  inbox'[u][i].file = Wanted(u)[got'[u] + i]
      <4>1. i + 1 \in 1 .. Len(inbox[u]) /\ inbox'[u][i] = inbox[u][i + 1]
        BY <3>2
      <4>2. inbox[u][i + 1].file = Wanted(u)[got[u] + (i + 1)]
        BY <1>0, <3>9, <4>1 DEF UpdateCounted
      <4>3. got[u] + (i + 1) = got'[u] + i
        BY <3>1
      <4> QED
        BY <4>1, <4>2, <4>3
    <3> QED
      BY <1>0, <2>2, <3>1, <3>3, <3>4, <3>5, <3>6, <3>7, <3>8, <3>9
         DEF UpdateCounted, Running, Wanted, AllOpen
  <2> QED
    BY <1>5, <2>1, <2>2 DEF WriteLocal
<1> QED
  BY <1>1, <1>2, <1>3, <1>4, <1>5 DEF Receive

LEMMA CountedStep == NetInv /\ [Next]_vars => UpdatesCounted'
<1> SUFFICES ASSUME NetInv, [Next]_vars, NEW u \in User
             PROVE  UpdateCounted(u)'
  BY DEF UpdatesCounted
<1>1. CASE ServerStep
  <2>1. CASE Parent \/ Interrupt \/ Restart
    BY <1>1, <2>1, ParentCounts DEF ServerStep
  <2>2. ASSUME NEW v \in User, Child(v) PROVE UpdateCounted(u)'
    BY <1>1, <2>2, OtherChild, OwnChild DEF ServerStep
  <2> QED
    BY <1>1, <2>1, <2>2 DEF ServerStep
<1>2. ASSUME NEW p \in Peer, Connect(p) \/ Leave(p) \/ Eof(p)
      PROVE  UpdateCounted(u)'
  BY <1>2, OwnPeer, OtherPeer
<1>3. ASSUME NEW v \in User, Update(v) \/ Receive(v)
      PROVE  UpdateCounted(u)'
  <2>1. v \in Peer /\ (Update(v) => \E r : Send(v, r))
    BY DEF Peer, Update
  <2> QED
    BY <1>3, <2>1, OwnPeer, OtherPeer
<1>4. ASSUME NEW a \in Admin, Administer(a) \/ ReadResponse(a)
      PROVE  UpdateCounted(u)'
  <2>1. a \in Peer /\ a # u /\ (Administer(a) => \E r : Send(a, r))
    BY DEF Peer, Administer
  <2> QED
    BY <1>4, <2>1, OtherPeer
<1>5. CASE UNCHANGED vars
  BY <1>5, CountStays DEF vars, serverVars, CountUnchanged
<1> QED
  BY <1>1, <1>2, <1>3, <1>4, <1>5 DEF Next, PeerStep

-----------------------------------------------------------------------------
(* What administrators are told *)

\* What concerns the answer to administrator a stays, or is closed.
AnswerStays(a) ==
  /\ inbox'[a] \in {inbox[a], <<>>}
  /\ inbox'[a] # <<>> => (a \in present' <=> a \in present)
  /\ a \in open' => a \in open

\* Who is answered is the administrator that the parent works for.
LEMMA RespondAnswers ==
  ASSUME NetInv, loop.pc \in Administering, NEW status \in {"ok", "fail"},
         Respond(status), NEW a \in Admin
  PROVE  /\ a = loop.peer => /\ inbox'[a] \in {<<>>, <<Answer(status)>>}
                             /\ inbox'[a] # <<>> => a \in present' /\ a \notin open'
         /\ a # loop.peer => AnswerStays(a) /\ inbox'[a] = inbox[a]
<1>0. TypeOK /\ AnswersClose
  BY DEF NetInv
<1>1. loop.peer \in Admin /\ loop.peer \in open /\ inbox[loop.peer] = <<>>
  BY <1>0, Serves DEF AnswersClose
<1>2. UNCHANGED present /\ open' \subseteq open
  BY DEF Respond, Ended
<1>3. CASE a # loop.peer
  BY <1>0, <1>2, <1>3 DEF Respond, Tell, TypeOK, AnswerStays
<1>4. CASE a = loop.peer
  <2>1. CASE a \in present
    <3>1. inbox'[a] = Append(<<>>, Answer(status)) /\ a \notin open'
      BY <1>0, <1>1, <1>4, <2>1 DEF Respond, Tell, TypeOK, Peer
    <3> QED
      BY <1>2, <1>4, <2>1, <3>1
  <2>2. CASE a \notin present
    BY <1>1, <1>4, <2>2 DEF Respond, Tell
  <2> QED
    BY <2>1, <2>2
<1> QED
  BY <1>3, <1>4

\* No other step of the server or of a user tells an administrator anything.
LEMMA OthersAnswer ==
  ASSUME NetInv, NEW a \in Admin, [Next]_vars, ~Refuse, ~WriteAdded, ~Connect(a)
  PROVE  AnswerStays(a)
<1>0. TypeOK /\ a \in Peer /\ a \notin User
  BY DEF NetInv, Peer
<1>1. CASE UNCHANGED <<inbox, present>> /\ (a \in open' => a \in open)
  BY <1>1 DEF AnswerStays
<1>2. ASSUME NEW p \in Peer, Close(p), UNCHANGED open PROVE AnswerStays(a)
  BY <1>0, <1>2 DEF Close, AnswerStays, TypeOK
<1>3. ASSUME NEW u \in User, Child(u) PROVE AnswerStays(a)
  <2>1. UNCHANGED present /\ open' \subseteq open
    BY <1>3 DEF Child, ChildReturns, ChildSends, ChildFails, ChildUnchanged, Exit
  <2>2. UNCHANGED inbox[a]
    BY <1>0, <1>3 DEF Child, ChildReturns, ChildSends, ChildFails, Tell, TypeOK
  <2> QED
    BY <2>1, <2>2 DEF AnswerStays
<1>4. ASSUME NEW u \in User, WriteLocal(u) PROVE AnswerStays(a)
  <2>1. CASE Close(u)
    BY <1>2, <1>4, <2>1 DEF WriteLocal, serverVars, Peer
  <2>2. CASE inbox' = [inbox EXCEPT ![u] = Tail(@)] /\ UNCHANGED present
    BY <1>0, <1>4, <2>2 DEF WriteLocal, serverVars, AnswerStays, TypeOK
  <2> QED
    BY <1>4, <2>1, <2>2 DEF WriteLocal
<1>5. ASSUME NEW p \in Peer, p # a, Connect(p) PROVE AnswerStays(a)
  BY <1>0, <1>5 DEF Connect, AnswerStays
<1>6. CASE ServerStep
  BY <1>1, <1>3, <1>6
     DEF ServerStep, Parent, Check, Accept, ReceiveFails, Fork, ReceiveAdmin, OpenFile,
         WriteEmpty, StartAdd, Crash, Interrupt, Restart, Ended
<1>7. CASE PeerStep
  BY <1>1, <1>2, <1>4, <1>5, <1>7
     DEF PeerStep, Leave, Eof, Receive, OpenLocal, ReceiveEcho, ReadResponse, Update,
         Administer, Send, serverVars, Peer
<1>8. CASE UNCHANGED vars
  BY <1>1, <1>8 DEF vars, serverVars
<1> QED
  BY <1>6, <1>7, <1>8 DEF Next

LEMMA AnswersCloseStep == NetInv /\ [Next]_vars => AnswersClose'
<1> SUFFICES ASSUME NetInv, [Next]_vars, NEW a \in Admin, inbox'[a] # <<>>
             PROVE  a \in present' /\ a \notin open'
  BY DEF AnswersClose
<1>0. inbox[a] # <<>> => a \in present /\ a \notin open
  BY DEF NetInv, AnswersClose
<1>1. CASE AnswerStays(a)
  BY <1>0, <1>1 DEF AnswerStays
<1>2. CASE Refuse \/ WriteAdded
  <2>1. loop.pc \in Administering /\ \E status \in {"ok", "fail"} : Respond(status)
    BY <1>2 DEF Refuse, WriteAdded, At, Administering
  <2>2. PICK status \in {"ok", "fail"} : Respond(status)
    BY <2>1
  <2> QED
    BY <1>1, <2>1, <2>2, RespondAnswers
<1>3. CASE Connect(a)
  BY <1>0, <1>3 DEF Connect
<1> QED
  BY <1>1, <1>2, <1>3, OthersAnswer

LEMMA OkWrittenStep == NetInv /\ [Next]_vars => OkWritten'
<1> SUFFICES ASSUME NetInv, [Next]_vars, NEW a \in Admin, Admin = {a},
                    inbox'[a] = <<Answer("ok")>>
             PROVE  /\ request'[a] \in AdminRequests
                    /\ request'[a].file \in File
                    /\ request'[a].package \in files'[request'[a].file]
  BY DEF OkWritten
<1>0. TypeOK
  BY DEF NetInv
<1>1. inbox'[a] # <<>> /\ Answer("ok") # Answer("fail")
  BY DEF Answer
<1>2. loop.pc \in Administering => loop.peer = a /\ a \in open /\ inbox[a] = <<>>
  BY Serves DEF NetInv, AnswersClose
<1>3. ~Refuse
  <2> SUFFICES ASSUME Refuse PROVE FALSE
    OBVIOUS
  <2>1. inbox'[a] \in {<<>>, <<Answer("fail")>>}
    BY <1>2, RespondAnswers DEF Refuse, At, Administering
  <2> QED
    BY <1>1, <2>1
<1>4. CASE WriteAdded
  <2>1. loop.peer = a /\ Serving \in AdminRequests /\ Serving.file \in File
    BY <1>2, <1>4, Serves DEF WriteAdded, At, Administering, NetInv, Administered, Allowed
  <2>2. request'[a] = Serving
    BY <1>4, <2>1 DEF WriteAdded, Respond, Serving
  <2>3. files'[Serving.file] = {Serving.package}
    BY <1>0, <1>4, <2>1 DEF WriteAdded, TypeOK
  <2> QED
    BY <2>1, <2>2, <2>3
<1>5. ~Connect(a)
  BY <1>1 DEF Connect, NetInv, AnswersClose
<1>6. CASE ~WriteAdded
  <2>1. AnswerStays(a)
    BY <1>3, <1>5, <1>6, OthersAnswer
  <2>2. inbox[a] = <<Answer("ok")>>
    BY <1>1, <2>1 DEF AnswerStays
  <2>3. /\ request[a] \in AdminRequests
        /\ request[a].file \in File
        /\ request[a].package \in files[request[a].file]
    BY <2>2 DEF NetInv, OkWritten
  <2>4. loop.pc \notin Administering
    BY <1>2, <2>2
  <2>5. request[a] # NoRequest
    BY <2>3, AdminRequest
  <2>6. ~OpenFile /\ ~WriteEmpty /\ ~StartAdd
    BY <2>4 DEF OpenFile, WriteEmpty, StartAdd, At, Administering
  <2>7. UNCHANGED files
    BY <1>3, <1>6, <2>6
       DEF Next, ServerStep, Parent, Check, Accept, ReceiveFails, Fork, ReceiveAdmin,
           Crash, Interrupt, Restart, Child, ChildReturns, ChildSends, ChildFails,
           ChildUnchanged, PeerStep, Connect, Leave, Eof, Receive, OpenLocal,
           WriteLocal, ReceiveEcho, ReadResponse, Update, Administer, Send, serverVars, vars
  <2>8. UNCHANGED request[a]
    <3>1. ASSUME NEW p \in Peer, p # a, Connect(p) PROVE UNCHANGED request[a]
      BY <1>0, <3>1 DEF Connect, TypeOK
    <3>2. ASSUME NEW p \in Peer, NEW r, Send(p, r) PROVE UNCHANGED request[a]
      BY <1>0, <2>5, <3>2 DEF Send, TypeOK
    <3> QED
      BY <1>3, <1>5, <1>6, <2>6, <3>1, <3>2
         DEF Next, ServerStep, Parent, Check, Accept, ReceiveFails, Fork, ReceiveAdmin,
             Crash, Interrupt, Restart, Child, ChildReturns, ChildSends, ChildFails,
             ChildUnchanged, PeerStep, Leave, Eof, Receive, OpenLocal,
             WriteLocal, ReceiveEcho, ReadResponse, Update, Administer, serverVars, vars, Peer
  <2> QED
    BY <2>3, <2>7, <2>8
<1> QED
  BY <1>4, <1>6

-----------------------------------------------------------------------------
(* The theorems *)

\* Nobody is connected at first.
LEMMA NetInvInitial == Init => NetInv
<1> SUFFICES ASSUME Init PROVE NetInv
  OBVIOUS
<1>1. TypeOK
  BY TypeInitial
<1>2. /\ loop.pc = "check" /\ loop.peer = Nobody
      /\ Len(queue) = 0
      /\ \A u \in User : ~Running(u) /\ u \in Peer /\ got[u] = 0
      /\ \A p \in Peer : inbox[p] = <<>> /\ request[p] = NoRequest /\ Len(inbox[p]) = 0
      /\ open = {} /\ present = {}
      /\ files = Initial
  BY EmptySeq DEF Init, ServerInit, Loop, Running, Peer
<1>3. Connections /\ Administered
  BY <1>2 DEF Connections, Administered, Idle, Administering
<1>4. FilesServed
  BY <1>2, ServedContents DEF FilesServed
<1>5. CopiesAreServed
  <2>1. \A u \in User : \A f \in File : local[u][f] = {}
    BY DEF Init
  <2>2. ASSUME NEW u \in User PROVE 1 .. got[u] = {}
    <3>1. got[u] = 0
      BY <1>2
    <3> QED
      BY <3>1
  <2> QED
    BY <2>1, <2>2, ServedContents DEF CopiesAreServed, CopyServed
<1>6. UpdatesCounted
  <2>1. ASSUME NEW u \in User PROVE UpdateCounted(u)
    <3>1. /\ u \in Peer /\ ~Running(u) /\ got[u] = 0 /\ u \notin writing
          /\ inbox[u] = <<>> /\ Len(inbox[u]) = 0 /\ request[u] = NoRequest
      BY <1>2 DEF Init
    <3>2. 1 .. Len(inbox[u]) = {}
      BY <3>1
    <3> QED
      BY <3>1, <3>2 DEF UpdateCounted
  <2> QED
    BY <2>1 DEF UpdatesCounted
<1>7. AnswersClose /\ OkWritten
  BY <1>2 DEF AnswersClose, OkWritten, Peer
<1> QED
  BY <1>1, <1>3, <1>4, <1>5, <1>6, <1>7 DEF NetInv

\* Every step of the server and of its peers keeps the inductive invariant.
THEOREM Inductive == Spec => []NetInv
<1>1. Init => NetInv
  BY NetInvInitial
<1>2. NetInv /\ [Next]_vars => NetInv'
  BY TypeStep, ConnectionsStep, AdministeredStep, FilesServedStep, CopiesStep,
     CountedStep, AnswersCloseStep, OkWrittenStep DEF NetInv
<1> QED
  BY <1>1, <1>2, PTL DEF Spec

\* Files, connections, requests and messages are what they should be: no user
\* is sent an answer of the administrators, and no administrator a file.
THEOREM NetworkTypes == Spec => []TypeOK
<1>1. NetInv => TypeOK
  BY DEF NetInv
<1> QED
  BY <1>1, Inductive, PTL

\* What a client has in a file, the server had in the file of that name,
\* whatever administrators do while it is sent, or the client was ended before
\* it had written the file; and what the running update has written is whole.
THEOREM ClientsGetServedFiles == Spec => []CopiesAreServed
<1>1. NetInv => CopiesAreServed
  BY DEF NetInv
<1> QED
  BY <1>1, Inductive, PTL

\* The only administrator who is told "ok" finds the package in the file.
THEOREM OkMeansStored == Spec => []OkIsStored
<1>1. NetInv => OkIsStored
  BY DEF NetInv, OkWritten, OkIsStored
<1> QED
  BY <1>1, Inductive, PTL

\* A client that gets its request back, instead of a file, has opened none.
THEOREM RefusedUpdates == Spec => []RefusalChangesNothing
<1>1. NetInv => RefusalChangesNothing
  <2> SUFFICES ASSUME NetInv, NEW u \in User, u \in present, inbox[u] # <<>>,
                      Message(u) = Echo
               PROVE  got[u] = 0 /\ u \notin writing
    BY DEF RefusalChangesNothing
  <2>1. TypeOK /\ UpdateCounted(u)
    BY DEF NetInv, UpdatesCounted
  <2>2. /\ 1 \in 1 .. Len(inbox[u]) /\ inbox[u][1] = Echo
        /\ got[u] \in Nat
    BY <2>1, ReadsMessage DEF CanReceive, TypeOK
  <2>3. /\ request[u] \in UserRequests
        /\ got[u] < Len(Wanted(u)) /\ Len(Wanted(u)) \in Nat
    BY <2>1, UserRequest DEF UpdateCounted, TypeOK, Wanted
  <2>4. got[u] + 1 - 1 \in {0, Len(Wanted(u))}
    BY <2>1, <2>2 DEF UpdateCounted
  <2>5. u \notin writing
    BY <2>1, <2>2 DEF UpdateCounted
  <2> QED
    BY <2>2, <2>3, <2>4, <2>5
<1> QED
  BY <1>1, Inductive, PTL
=============================================================================
