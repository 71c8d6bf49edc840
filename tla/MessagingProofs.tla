--------------------------- MODULE MessagingProofs ---------------------------
(***************************************************************************)
(* Proofs about the messaging system: a message is never in two places,    *)
(* whatever fails; and, while every element keeps its one connection to    *)
(* the router, messages are read in the order they were sent, news about   *)
(* unavailable elements reaches everybody and, when nothing fails,         *)
(* counters are exact.                                                     *)
(***************************************************************************)
EXTENDS Messaging, SequenceTheorems, FiniteSetTheorems, TLAPS

-----------------------------------------------------------------------------
(* Types                                                                   *)

NewCommands == [op : {"NEW"}, msg : Messages]
Commands == NewCommands \cup [op : {"LOGIN", "LOGOUT", "REQUEST"}]
            \cup [op : {"CLEAR"}, target : Elements]
Pcs == {"idle", "joining", "leaving", "login", "pending", "park", "push", "notify", "deliver", "pop", "ended"}
ThreadStates == [in : Seq(Commands), pc : Pcs, cmd : Commands \cup {None}]

Items == [type : {"NOTIFY"}, n : Nat] \cup [type : {"MESSAGE"}, msg : Messages]
         \cup [type : {"END"}]
         \cup [type : {"AVAILABLE", "UNAVAILABLE"}, id : Elements \cup {Router}]
Connections == [items : Seq(Items), partial : Messages \cup {None}]
SocketStates == {"none", "open", "stale"}

ClientsOK ==
  /\ up \in [Elements -> BOOLEAN] /\ locked \in [Elements -> BOOLEAN]
  /\ link \in [Elements -> SocketStates]
  /\ unread \in [Elements -> Int]
  /\ inbox \in [Elements -> Seq(Messages)]
  /\ DOMAIN unavailableElements = Elements

TableOK ==
  /\ addressed \subseteq registered /\ registered \subseteq Elements
  /\ unavailableIds \subseteq Elements
  /\ toNotifyAvailability \subseteq Elements /\ toNotifyUnavailability \subseteq Elements

RouterOK ==
  /\ routerUp \in BOOLEAN
  /\ TableOK
  /\ loop \in [phase : {"sleep", "available", "unavailable", "recovered"},
               pending : SUBSET Elements]
  /\ file # None => file[2] \subseteq file[1] /\ file[1] \subseteq Elements

QueuesOK ==
  /\ hasQueue \subseteq Elements
  /\ queue \in [Elements -> Seq(Messages)]
  /\ \A e \in Elements : queue[e] # << >> => e \in hasQueue

\* A thread that has to do with a message has a command that holds one.
ServerOK ==
  /\ server \in [Elements -> Seq(ThreadStates)]
  /\ \A e \in Elements : \A i \in DOMAIN server[e] :
       server[e][i].pc \in {"park", "push", "notify"} => server[e][i].cmd \in NewCommands
  /\ \A e \in Elements : link[e] = "open" => server[e] # << >>
  /\ ~routerUp => \A e \in Elements : server[e] = << >>

NetworkOK ==
  /\ sock \in [Elements -> [Kinds -> SocketStates]]
  /\ conn \in [Elements -> [Kinds -> Seq(Connections)]]
  /\ \A e \in Elements, k \in Kinds : sock[e][k] = "open" => up[e] /\ conn[e][k] # << >>
  /\ ~routerUp => \A e \in Elements : sock[e] = NoSockets

BoundsOK ==
  /\ sent \in Nat /\ budget \in [Events -> Nat]
  /\ sent + budget["send"] = Budget["send"]

Shape == ClientsOK /\ RouterOK /\ QueuesOK /\ ServerOK /\ NetworkOK /\ BoundsOK

-----------------------------------------------------------------------------
(* Sequences, threads and connections                                      *)

\* An element at the end of a sequence leaves the others where they were.
LEMMA Appended ==
  ASSUME NEW S, NEW s \in Seq(S), NEW x \in S
  PROVE  /\ Append(s, x) \in Seq(S)
         /\ Len(s) \in Nat /\ DOMAIN s = 1 .. Len(s)
         /\ Len(Append(s, x)) = Len(s) + 1 /\ DOMAIN Append(s, x) = 1 .. Len(s) + 1
         /\ Append(s, x)[Len(s) + 1] = x
         /\ \A i \in DOMAIN s : Append(s, x)[i] = s[i]
         /\ Append(s, x) # << >>
BY AppendProperties, LenProperties, EmptySeq

\* Taking the first element moves the others up by one.
LEMMA Taken ==
  ASSUME NEW S, NEW s \in Seq(S), s # << >>
  PROVE  /\ Tail(s) \in Seq(S) /\ Head(s) \in S /\ Head(s) = s[1]
         /\ Len(s) \in Nat /\ Len(s) >= 1 /\ DOMAIN s = 1 .. Len(s)
         /\ Len(Tail(s)) = Len(s) - 1 /\ DOMAIN Tail(s) = 1 .. Len(s) - 1
         /\ \A i \in 1 .. Len(s) - 1 : Tail(s)[i] = s[i + 1]
<1>1. Len(s) \in Nat /\ Len(s) # 0 /\ DOMAIN s = 1 .. Len(s)
  BY LenProperties, EmptySeq
<1> QED BY <1>1, HeadTailProperties, LenProperties

\* The same, seen from one index of the result.
LEMMA AppendedAt ==
  ASSUME NEW S, NEW s \in Seq(S), NEW x \in S, NEW j \in DOMAIN Append(s, x)
  PROVE  \/ j \in DOMAIN s /\ Append(s, x)[j] = s[j]
         \/ j = Len(s) + 1 /\ j = Len(Append(s, x)) /\ Append(s, x)[j] = x
BY Appended

LEMMA TakenAt ==
  ASSUME NEW S, NEW s \in Seq(S), s # << >>, NEW j \in DOMAIN Tail(s)
  PROVE  j \in Nat /\ j >= 1 /\ j + 1 \in DOMAIN s /\ s[j + 1] = Tail(s)[j]
BY Taken

\* A sequence is not empty when it has an index.
LEMMA Indexed ==
  ASSUME NEW S, NEW s \in Seq(S)
  PROVE  /\ Len(s) \in Nat /\ DOMAIN s = 1 .. Len(s)
         /\ \A i \in DOMAIN s : i \in Nat /\ i >= 1 /\ i <= Len(s) /\ s[i] \in S /\ s # << >>
         /\ s # << >> => Len(s) >= 1 /\ Len(s) \in DOMAIN s /\ 1 \in DOMAIN s
         /\ Len(s) >= 1 => s # << >>
<1>1. Len(s) \in Nat /\ s \in [1 .. Len(s) -> S] /\ DOMAIN s = 1 .. Len(s)
  BY LenProperties
<1>2. s # << >> => Len(s) # 0
  BY EmptySeq
<1>3. s = << >> => Len(s) = 0
  BY EmptySeq
<1> QED BY <1>1, <1>2, <1>3

\* One element of one sequence replaced.
LEMMA Replaced ==
  ASSUME NEW S, NEW s \in Seq(S), NEW i \in DOMAIN s, NEW x \in S
  PROVE  /\ [s EXCEPT ![i] = x] \in Seq(S)
         /\ Len([s EXCEPT ![i] = x]) = Len(s)
         /\ DOMAIN [s EXCEPT ![i] = x] = DOMAIN s
         /\ \A j \in DOMAIN s : [s EXCEPT ![i] = x][j] = IF j = i THEN x ELSE s[j]
         /\ [s EXCEPT ![i] = x] # << >>
<1>1. Len(s) \in Nat /\ DOMAIN s = 1 .. Len(s) /\ s # << >>
  BY Indexed
<1>2. /\ [s EXCEPT ![i] = x] \in Seq(S)
      /\ Len([s EXCEPT ![i] = x]) = Len(s)
      /\ \A j \in 1 .. Len(s) : [s EXCEPT ![i] = x][j] = IF j = i THEN x ELSE s[j]
  BY <1>1, ExceptSeq
<1>3. [s EXCEPT ![i] = x] # << >>
  BY <1>1, <1>2, Indexed
<1> QED BY <1>1, <1>2, <1>3

\* A connection on which an item is written.
LEMMA WrittenIs ==
  ASSUME NEW cs \in Seq(Connections), cs # << >>, NEW item \in Items
  PROVE  /\ Written(cs, item) \in Seq(Connections)
         /\ Written(cs, item) # << >>
         /\ Len(Written(cs, item)) = Len(cs) /\ DOMAIN Written(cs, item) = DOMAIN cs
         /\ Len(cs) \in DOMAIN cs
         /\ Written(cs, item)[Len(cs)] = [cs[Len(cs)] EXCEPT !.items = Append(@, item)]
         /\ \A i \in DOMAIN cs : i # Len(cs) => Written(cs, item)[i] = cs[i]
<1>1. Len(cs) \in DOMAIN cs /\ cs[Len(cs)] \in Connections
  BY Indexed
<1> DEFINE c == [cs[Len(cs)] EXCEPT !.items = Append(@, item)]
<1>2. c \in Connections
  BY <1>1, Appended DEF Connections
<1>3. Written(cs, item) = [cs EXCEPT ![Len(cs)] = c]
  BY <1>1 DEF Written
<1> HIDE DEF c
<1>4. /\ Written(cs, item) \in Seq(Connections)
      /\ Written(cs, item) # << >>
      /\ Len(Written(cs, item)) = Len(cs) /\ DOMAIN Written(cs, item) = DOMAIN cs
      /\ \A j \in DOMAIN cs : Written(cs, item)[j] = IF j = Len(cs) THEN c ELSE cs[j]
  BY <1>1, <1>2, <1>3, Replaced
<1> QED BY <1>1, <1>4 DEF c

\* A new connection.
LEMMA NewConnectionIs ==
  NewConnection \in Connections /\ NewConnection.items = << >> /\ NewConnection.partial = None
BY EmptySeq DEF NewConnection, Connections

\* What writing does to the connections: nothing, a new one, an item on the last,
\* or an item on a new one.
Extended(cs, cs2, item) ==
  \/ cs2 = cs
  \/ cs2 = Append(cs, NewConnection)
  \/ item \in Items /\ cs # << >> /\ cs2 = Written(cs, item)
  \/ item \in Items /\ cs2 = Written(Append(cs, NewConnection), item)

LEMMA ExtendedIs ==
  ASSUME NEW cs \in Seq(Connections), NEW cs2, NEW item, Extended(cs, cs2, item)
  PROVE  /\ cs2 \in Seq(Connections)
         /\ cs # << >> => cs2 # << >>
<1>1. Append(cs, NewConnection) \in Seq(Connections) /\ Append(cs, NewConnection) # << >>
  BY Appended, NewConnectionIs
<1> QED BY <1>1, WrittenIs, ZenonT(60) DEF Extended

\* Router::sendNotification and dataSocketConnection: what is written to whom.
NotWritten(To, k, broken) ==
  /\ \A e \in Elements \ To : sock'[e] = sock[e] /\ conn'[e] = conn[e]
  /\ \A e \in To, kk \in Kinds : kk # k => conn'[e][kk] = conn[e][kk]
  /\ \A e \in Failed(To, k, broken) : sock'[e] = NoSockets /\ conn'[e] = conn[e]

WrittenFresh(e, k, item, silent) ==
  /\ Reused(e, k)[k] = "none"
  /\ sock'[e] = [Reused(e, k) EXCEPT ![k] = "open"]
  /\ conn'[e][k] = IF e \in silent THEN Append(conn[e][k], NewConnection)
                   ELSE Written(Append(conn[e][k], NewConnection), item)

WrittenAgain(e, k, item, silent) ==
  /\ Reused(e, k)[k] # "none" /\ sock'[e] = Reused(e, k)
  /\ conn'[e][k] = IF e \notin silent /\ Reused(e, k)[k] = "open"
                   THEN Written(conn[e][k], item) ELSE conn[e][k]

WriteEffect(To, k, broken, item, silent) ==
  /\ DOMAIN sock' = Elements /\ DOMAIN conn' = Elements
  /\ \A e \in Elements : DOMAIN conn'[e] = Kinds
  /\ NotWritten(To, k, broken)
  /\ \A e \in To \ Failed(To, k, broken) :
       WrittenFresh(e, k, item, silent) \/ WrittenAgain(e, k, item, silent)
  /\ registered' = registered \cup {e \in To : Reused(e, k)[k] = "none"}
  /\ addressed' = addressed

LEMMA WriteIs ==
  ASSUME NetworkOK, NEW To \in SUBSET Elements, NEW k \in Kinds, NEW broken, NEW silent,
         NEW item, Write(To, k, broken, item, silent)
  PROVE  WriteEffect(To, k, broken, item, silent)
<1> DEFINE failed == Failed(To, k, broken)
           fresh == {e \in To \ failed : Reused(e, k)[k] = "none"}
           row(e) == IF e \in failed THEN NoSockets
                     ELSE IF e \in fresh THEN [Reused(e, k) EXCEPT ![k] = "open"]
                     ELSE Reused(e, k)
           line(e) == IF e \in fresh THEN Append(conn[e][k], NewConnection) ELSE conn[e][k]
           next(e) == IF e \in To \ silent /\ row(e)[k] = "open"
                      THEN [conn[e] EXCEPT ![k] = Written(line(e), item)]
                      ELSE IF e \in fresh THEN [conn[e] EXCEPT ![k] = line(e)]
                      ELSE conn[e]
<1>1. /\ sock' = [e \in Elements |-> IF e \in To THEN row(e) ELSE sock[e]]
      /\ conn' = [e \in Elements |-> next(e)]
      /\ registered' = registered \cup {e \in To : Reused(e, k)[k] = "none"}
      /\ addressed' = addressed
  BY DEF Write
<1>2. \A e \in Elements : conn[e] \in [Kinds -> Seq(Connections)] /\ sock[e] \in [Kinds -> SocketStates]
  BY DEF NetworkOK
<1>3. \A e \in Elements : Reused(e, k) \in [Kinds -> SocketStates]
  BY <1>2 DEF Reused, NoSockets, SocketStates
<1>4. \A e \in Elements : sock'[e] = (IF e \in To THEN row(e) ELSE sock[e]) /\ conn'[e] = next(e)
  BY <1>1
<1>5. failed \subseteq To
  BY DEF Failed
<1>6. \A e \in failed : row(e) = NoSockets /\ next(e) = conn[e]
  BY <1>5 DEF NoSockets, Kinds
<1>7. ASSUME NEW e \in fresh
      PROVE  /\ row(e) = [Reused(e, k) EXCEPT ![k] = "open"] /\ row(e)[k] = "open"
             /\ next(e) = [conn[e] EXCEPT ![k] = IF e \in silent
                  THEN Append(conn[e][k], NewConnection)
                  ELSE Written(Append(conn[e][k], NewConnection), item)]
  <2>1. e \in Elements /\ e \in To /\ e \notin failed
    OBVIOUS
  <2>2. row(e) = [Reused(e, k) EXCEPT ![k] = "open"]
    BY <2>1
  <2>3. row(e)[k] = "open"
    BY <2>1, <2>2, <1>3
  <2>4. line(e) = Append(conn[e][k], NewConnection)
    OBVIOUS
  <2> HIDE DEF row, line
  <2> QED BY <2>1, <2>2, <2>3, <2>4
<1>8. ASSUME NEW e \in To \ failed, e \notin fresh
      PROVE  /\ row(e) = Reused(e, k) /\ Reused(e, k)[k] # "none"
             /\ next(e) = IF e \notin silent /\ Reused(e, k)[k] = "open"
                          THEN [conn[e] EXCEPT ![k] = Written(conn[e][k], item)] ELSE conn[e]
  BY <1>8
<1>9. \A e \in Elements : DOMAIN next(e) = Kinds
  BY <1>2
<1>10. \A e \in To, kk \in Kinds : kk # k => next(e)[kk] = conn[e][kk]
  BY <1>2
<1> HIDE DEF failed, fresh, row, line, next
<1>11. \A e \in fresh : next(e)[k] = IF e \in silent
                  THEN Append(conn[e][k], NewConnection)
                  ELSE Written(Append(conn[e][k], NewConnection), item)
  <2> SUFFICES ASSUME NEW e \in fresh
               PROVE  next(e)[k] = IF e \in silent
                  THEN Append(conn[e][k], NewConnection)
                  ELSE Written(Append(conn[e][k], NewConnection), item)
    OBVIOUS
  <2>1. e \in Elements
    BY DEF fresh
  <2> QED BY <1>7, <1>2, <2>1
<1>12. \A e \in To \ failed : e \notin fresh =>
         next(e)[k] = IF e \notin silent /\ Reused(e, k)[k] = "open"
                          THEN Written(conn[e][k], item) ELSE conn[e][k]
  BY <1>8, <1>2
<1>13. \A e \in fresh : Reused(e, k)[k] = "none" /\ e \in To
  BY DEF fresh
<1>14. \A e \in To \ failed :
         WrittenFresh(e, k, item, silent) \/ WrittenAgain(e, k, item, silent)
  <2> SUFFICES ASSUME NEW e \in To \ failed
               PROVE  WrittenFresh(e, k, item, silent) \/ WrittenAgain(e, k, item, silent)
    OBVIOUS
  <2>1. CASE e \in fresh
    BY <2>1, <1>4, <1>7, <1>11, <1>13 DEF WrittenFresh
  <2>2. CASE e \notin fresh
    BY <2>2, <1>4, <1>8, <1>12 DEF WrittenAgain
  <2> QED BY <2>1, <2>2
<1>15. \A e \in Elements \ To : next(e) = conn[e]
  BY <1>5 DEF next, fresh
<1>16. \A e \in failed : sock'[e] = NoSockets /\ conn'[e] = conn[e]
  BY <1>4, <1>5, <1>6
<1>17. DOMAIN sock' = Elements /\ DOMAIN conn' = Elements
  BY <1>1
<1>18. \A e \in Elements \ To : sock'[e] = sock[e] /\ conn'[e] = conn[e]
  BY <1>4, <1>15
<1>19. \A e \in To, kk \in Kinds : kk # k => conn'[e][kk] = conn[e][kk]
  BY <1>4, <1>10
<1>20. \A e \in Elements : DOMAIN conn'[e] = Kinds
  BY <1>4, <1>9
<1> QED BY <1>1, <1>14, <1>16, <1>17, <1>18, <1>19, <1>20 DEF failed, WriteEffect, NotWritten

\* What becomes of each connection when something is written, and of the sockets.
LEMMA WriteExtends ==
  ASSUME NetworkOK, NEW To \in SUBSET Elements, NEW k \in Kinds, NEW broken, NEW silent,
         NEW item, item \in Items \/ To \subseteq silent,
         Write(To, k, broken, item, silent)
  PROVE  /\ \A e \in Elements, kk \in Kinds : Extended(conn[e][kk], conn'[e][kk], item)
         /\ \A e \in Elements : sock'[e] \in [Kinds -> SocketStates]
         /\ \A e \in Elements, kk \in Kinds :
              sock'[e][kk] = "open" =>
                sock[e][kk] = "open" \/ (up[e] /\ conn'[e][kk] # << >>)
<1>0. WriteEffect(To, k, broken, item, silent)
  BY WriteIs
<1>1. NotWritten(To, k, broken)
  BY <1>0 DEF WriteEffect
<1>2. \A e \in To \ Failed(To, k, broken) :
        WrittenFresh(e, k, item, silent) \/ WrittenAgain(e, k, item, silent)
  BY <1>0 DEF WriteEffect
<1>3. \A e \in Elements, kk \in Kinds : conn[e][kk] \in Seq(Connections) /\ sock[e] \in [Kinds -> SocketStates]
  BY DEF NetworkOK
<1>4. \A e \in Elements : Reused(e, k) \in [Kinds -> SocketStates] /\ NoSockets \in [Kinds -> SocketStates]
  BY <1>3 DEF Reused, NoSockets, SocketStates
<1>5. \A e \in Elements, kk \in Kinds : Reused(e, k)[kk] = "open" => sock[e][kk] = "open"
  BY <1>3 DEF Reused, NoSockets
<1>6. \A e \in Elements, kk \in Kinds : sock[e][kk] = "open" => up[e] /\ conn[e][kk] # << >>
  BY DEF NetworkOK
<1>7. \A e \in To \ Failed(To, k, broken) : Reused(e, k)[k] = "none" => up[e]
  BY DEF Failed, CannotConnect
<1>8. \A e \in Elements : Append(conn[e][k], NewConnection) \in Seq(Connections)
                          /\ Append(conn[e][k], NewConnection) # << >>
  BY <1>3, Appended, NewConnectionIs
<1>9. ASSUME NEW e \in To \ Failed(To, k, broken), Reused(e, k)[k] = "none"
      PROVE  /\ Extended(conn[e][k], conn'[e][k], item) /\ conn'[e][k] # << >>
             /\ sock'[e] \in [Kinds -> SocketStates]
             /\ \A kk \in Kinds : sock'[e][kk] = "open" => kk = k \/ sock[e][kk] = "open"
  <2>1. /\ sock'[e] = [Reused(e, k) EXCEPT ![k] = "open"]
        /\ conn'[e][k] = IF e \in silent THEN Append(conn[e][k], NewConnection)
                         ELSE Written(Append(conn[e][k], NewConnection), item)
    BY <1>2, <1>9 DEF WrittenFresh, WrittenAgain
  <2>2. e \in Elements
    OBVIOUS
  <2>3. /\ sock'[e] \in [Kinds -> SocketStates]
        /\ \A kk \in Kinds : sock'[e][kk] = "open" => kk = k \/ sock[e][kk] = "open"
    BY <2>1, <2>2, <1>4, <1>5 DEF SocketStates
  <2>4. CASE e \in silent
    BY <2>1, <2>2, <2>3, <2>4, <1>8 DEF Extended
  <2>5. CASE e \notin silent
    <3>1. item \in Items /\ conn'[e][k] = Written(Append(conn[e][k], NewConnection), item)
      BY <2>1, <2>5
    <3>2. conn'[e][k] # << >>
      BY <3>1, <2>2, <1>8, WrittenIs
    <3> QED BY <3>1, <3>2, <2>3 DEF Extended
  <2> QED BY <2>4, <2>5
<1>10. ASSUME NEW e \in To \ Failed(To, k, broken), Reused(e, k)[k] # "none"
       PROVE  /\ Extended(conn[e][k], conn'[e][k], item)
              /\ sock'[e] \in [Kinds -> SocketStates]
              /\ \A kk \in Kinds : sock'[e][kk] = "open" => sock[e][kk] = "open"
  <2>1. /\ sock'[e] = Reused(e, k)
        /\ conn'[e][k] = IF e \notin silent /\ Reused(e, k)[k] = "open"
                         THEN Written(conn[e][k], item) ELSE conn[e][k]
    BY <1>2, <1>10 DEF WrittenFresh, WrittenAgain
  <2>2. Reused(e, k)[k] = "open" => conn[e][k] # << >>
    BY <1>5, <1>6
  <2>3. Extended(conn[e][k], conn'[e][k], item)
    BY <2>1, <2>2 DEF Extended
  <2> QED BY <2>1, <2>3, <1>4, <1>5
<1>11. ASSUME NEW e \in Failed(To, k, broken)
       PROVE  /\ e \in To /\ sock'[e] \in [Kinds -> SocketStates] /\ conn'[e] = conn[e]
              /\ \A kk \in Kinds : sock'[e][kk] # "open"
  BY <1>1, <1>4 DEF Failed, NoSockets, NotWritten
<1>12. \A e \in Elements : sock'[e] \in [Kinds -> SocketStates]
  BY <1>1, <1>3, <1>9, <1>10, <1>11 DEF NotWritten
<1>13. \A e \in Elements, kk \in Kinds : Extended(conn[e][kk], conn'[e][kk], item)
  <2> SUFFICES ASSUME NEW e \in Elements, NEW kk \in Kinds
               PROVE  Extended(conn[e][kk], conn'[e][kk], item)
    OBVIOUS
  <2>1. CASE conn'[e][kk] = conn[e][kk]
    BY <2>1 DEF Extended
  <2>2. CASE e \in To \ Failed(To, k, broken) /\ kk = k
    BY <2>2, <1>9, <1>10
  <2> QED BY <1>1, <2>1, <2>2 DEF NotWritten
<1>14. ASSUME NEW e \in Elements, NEW kk \in Kinds, sock'[e][kk] = "open", sock[e][kk] # "open"
       PROVE  up[e] /\ conn'[e][kk] # << >>
  BY <1>14, <1>1, <1>7, <1>9, <1>10, <1>11 DEF NotWritten
<1> QED BY <1>12, <1>13, <1>14

\* Writing keeps the types of the network and of the router's table.
LEMMA WriteShape ==
  ASSUME NetworkOK, NEW To \in SUBSET Elements, NEW k \in Kinds, NEW broken, NEW silent,
         NEW item, item \in Items \/ To \subseteq silent,
         Write(To, k, broken, item, silent), routerUp, routerUp', up' = up,
         addressed \subseteq registered, registered \subseteq Elements
  PROVE  /\ NetworkOK'
         /\ addressed' \subseteq registered' /\ registered' \subseteq Elements
<1>1. /\ DOMAIN sock' = Elements /\ DOMAIN conn' = Elements
      /\ \A e \in Elements : DOMAIN conn'[e] = Kinds
      /\ registered' = registered \cup {e \in To : Reused(e, k)[k] = "none"}
      /\ addressed' = addressed
      /\ sock' = [e \in Elements |-> sock'[e]]
      /\ conn' = [e \in Elements |-> conn'[e]]
  <2>1. /\ sock' = [e \in Elements |-> sock'[e]]
        /\ conn' = [e \in Elements |-> conn'[e]]
    BY DEF Write
  <2> QED BY <2>1, WriteIs DEF WriteEffect
<1>2. /\ \A e \in Elements, kk \in Kinds : Extended(conn[e][kk], conn'[e][kk], item)
      /\ \A e \in Elements : sock'[e] \in [Kinds -> SocketStates]
      /\ \A e \in Elements, kk \in Kinds :
           sock'[e][kk] = "open" =>
                sock[e][kk] = "open" \/ (up[e] /\ conn'[e][kk] # << >>)
  BY WriteExtends
<1>3. \A e \in Elements, kk \in Kinds :
        conn'[e][kk] \in Seq(Connections) /\ (conn[e][kk] # << >> => conn'[e][kk] # << >>)
  BY <1>2, ExtendedIs DEF NetworkOK
<1>4. \A e \in Elements : conn'[e] = [kk \in Kinds |-> conn'[e][kk]]
  <2>1. \A e \in Elements : conn[e] = [kk \in Kinds |-> conn[e][kk]]
    BY DEF NetworkOK
  <2> QED BY <2>1 DEF Write
<1>5. conn' \in [Elements -> [Kinds -> Seq(Connections)]]
  BY <1>1, <1>3, <1>4
<1>6. sock' \in [Elements -> [Kinds -> SocketStates]]
  BY <1>1, <1>2
<1> QED BY <1>1, <1>2, <1>3, <1>5, <1>6 DEF NetworkOK

\* Commands: which of them hold a message, and which a target.
LEMMA CommandIs ==
  /\ NewCommands \subseteq Commands
  /\ \A c \in Commands : c.op = "NEW" => c \in NewCommands
  /\ \A c \in Commands : c.op = "CLEAR" => c.target \in Elements
  /\ \A c \in NewCommands : c.op = "NEW" /\ c.msg \in Messages
  /\ \A m \in Messages : m.from \in Elements /\ m.to \in Elements /\ m.n \in Nat
                         /\ [op |-> "NEW", msg |-> m] \in NewCommands
  /\ \A o \in {"LOGIN", "LOGOUT", "REQUEST"} : [op |-> o] \in Commands
  /\ \A t \in Elements : [op |-> "CLEAR", target |-> t] \in Commands
<1>1. NewCommands \subseteq Commands
  BY DEF Commands
<1>2. \A c \in Commands : c.op = "NEW" => c \in NewCommands
  BY DEF Commands
<1>3. \A c \in Commands : c.op = "CLEAR" => c.target \in Elements
  BY DEF Commands, NewCommands
<1>4. \A c \in NewCommands : c.op = "NEW" /\ c.msg \in Messages
  BY DEF NewCommands
<1>5. \A m \in Messages : m.from \in Elements /\ m.to \in Elements /\ m.n \in Nat
  BY BudgetAssumption DEF Messages, Events
<1>6. \A m \in Messages : [op |-> "NEW", msg |-> m] \in NewCommands
  BY DEF NewCommands
<1>7. /\ \A o \in {"LOGIN", "LOGOUT", "REQUEST"} : [op |-> o] \in Commands
      /\ \A t \in Elements : [op |-> "CLEAR", target |-> t] \in Commands
  BY DEF Commands
<1> QED BY <1>1, <1>2, <1>3, <1>4, <1>5, <1>6, <1>7

\* RouterServerSocket: a thread goes on, and no other does.
BecomeEffect(e, i, pc, cmd) ==
  /\ server' \in [Elements -> Seq(ThreadStates)]
  /\ \A f \in Elements : f # e => server'[f] = server[f]
  /\ Len(server'[e]) = Len(server[e]) /\ DOMAIN server'[e] = DOMAIN server[e]
  /\ \A j \in DOMAIN server[e] : j # i => server'[e][j] = server[e][j]
  /\ server'[e][i].pc = pc /\ server'[e][i].cmd = cmd
  /\ server'[e][i].in = IF server[e][i].pc = "idle" THEN Tail(server[e][i].in)
                        ELSE server[e][i].in

LEMMA BecomeIs ==
  ASSUME ServerOK, NEW e \in Elements, NEW i \in DOMAIN server[e],
         NEW pc \in Pcs, NEW cmd \in Commands \cup {None},
         server[e][i].pc = "idle" => server[e][i].in # << >>,
         Become(e, i, pc, cmd)
  PROVE  BecomeEffect(e, i, pc, cmd)
<1>1. server[e] \in Seq(ThreadStates) /\ server[e][i] \in ThreadStates
  BY Indexed DEF ServerOK
<1>2. server[e][i].in \in Seq(Commands)
  BY <1>1 DEF ThreadStates
<1> DEFINE in == IF server[e][i].pc = "idle" THEN Tail(server[e][i].in) ELSE server[e][i].in
           next == [in |-> in, pc |-> pc, cmd |-> cmd]
<1>3. in \in Seq(Commands)
  BY <1>2, Taken
<1>4. server' = [server EXCEPT ![e] = [server[e] EXCEPT ![i] = next]]
  BY DEF Become
<1> HIDE DEF in
<1>5. next \in ThreadStates /\ next.in = in /\ next.pc = pc /\ next.cmd = cmd
  BY <1>3 DEF ThreadStates
<1> HIDE DEF next
<1>6. /\ [server[e] EXCEPT ![i] = next] \in Seq(ThreadStates)
      /\ Len([server[e] EXCEPT ![i] = next]) = Len(server[e])
      /\ DOMAIN [server[e] EXCEPT ![i] = next] = DOMAIN server[e]
      /\ \A j \in DOMAIN server[e] : [server[e] EXCEPT ![i] = next][j] = IF j = i THEN next ELSE server[e][j]
  BY <1>1, <1>5, Replaced
<1>7. server \in [Elements -> Seq(ThreadStates)]
  BY DEF ServerOK
<1>8. server'[e] = [server[e] EXCEPT ![i] = next] /\ \A f \in Elements : f # e => server'[f] = server[f]
  BY <1>4, <1>7
<1>9. server' \in [Elements -> Seq(ThreadStates)]
  BY <1>4, <1>6, <1>7
<1>10. server'[e][i] = next
  BY <1>6, <1>8
<1> QED BY <1>5, <1>6, <1>8, <1>9, <1>10 DEF BecomeEffect, in

LEMMA BecomeShape ==
  ASSUME ServerOK, NEW e \in Elements, NEW i \in DOMAIN server[e],
         NEW pc \in Pcs, NEW cmd \in Commands \cup {None},
         server[e][i].pc = "idle" => server[e][i].in # << >>,
         pc \in {"park", "push", "notify"} => cmd \in NewCommands,
         Become(e, i, pc, cmd), link' = link, routerUp' = routerUp
  PROVE  ServerOK'
<1>1. BecomeEffect(e, i, pc, cmd)
  BY BecomeIs
<1>2. server[e] \in Seq(ThreadStates) /\ server[e] # << >> /\ server'[e] \in Seq(ThreadStates)
  BY <1>1, Indexed DEF ServerOK, BecomeEffect
<1>3. server'[e] # << >>
  BY <1>1, <1>2, Indexed DEF BecomeEffect
<1>4. routerUp
  BY <1>2 DEF ServerOK
<1>5. \A f \in Elements : link'[f] = "open" => server'[f] # << >>
  BY <1>1, <1>3 DEF ServerOK, BecomeEffect
<1>6. \A f \in Elements : \A j \in DOMAIN server'[f] :
       server'[f][j].pc \in {"park", "push", "notify"} => server'[f][j].cmd \in NewCommands
  BY <1>1 DEF ServerOK, BecomeEffect
<1>7. server' \in [Elements -> Seq(ThreadStates)]
  BY <1>1 DEF BecomeEffect
<1> QED BY <1>4, <1>5, <1>6, <1>7 DEF ServerOK

\* sendMessageToRouter: the command arrives on the last connection or on a new one.
ArrivesEffect(e, cmd) ==
  /\ server' \in [Elements -> Seq(ThreadStates)]
  /\ \A f \in Elements : f # e => server'[f] = server[f]
  /\ \/ /\ server[e] # << >> /\ Len(server'[e]) = Len(server[e])
        /\ DOMAIN server'[e] = DOMAIN server[e]
        /\ \A j \in DOMAIN server[e] : j # Len(server[e]) => server'[e][j] = server[e][j]
        /\ LET t == server[e][Len(server[e])]  u == server'[e][Len(server[e])] IN
           u.pc = t.pc /\ u.cmd = t.cmd /\ u.in = Append(t.in, cmd)
     \/ /\ Len(server'[e]) = Len(server[e]) + 1 /\ DOMAIN server'[e] = 1 .. Len(server[e]) + 1
        /\ \A j \in DOMAIN server[e] : server'[e][j] = server[e][j]
        /\ server'[e][Len(server[e]) + 1] = Serving(<<cmd>>)

LEMMA ArrivesIs ==
  ASSUME ServerOK, NEW e \in Elements, NEW cmd \in Commands, NEW l, l = "open" => link[e] = "open",
         Arrives(e, cmd, l)
  PROVE  ArrivesEffect(e, cmd) /\ (l # "open" => routerUp) /\ server'[e] # << >>
<1>0. server \in [Elements -> Seq(ThreadStates)] /\ server[e] \in Seq(ThreadStates)
  BY DEF ServerOK
<1>1. CASE l = "open" /\ server' = [server EXCEPT ![e][Len(server[e])].in = Append(@, cmd)]
  <2>1. server[e] # << >>
    BY <1>1 DEF ServerOK
  <2>2. Len(server[e]) \in DOMAIN server[e] /\ server[e][Len(server[e])] \in ThreadStates
    BY <1>0, <2>1, Indexed
  <2> DEFINE t == server[e][Len(server[e])]
             u == [t EXCEPT !.in = Append(@, cmd)]
  <2>3. u \in ThreadStates /\ u.pc = t.pc /\ u.cmd = t.cmd /\ u.in = Append(t.in, cmd)
    BY <2>2, Appended DEF ThreadStates
  <2>4. server' = [server EXCEPT ![e] = [server[e] EXCEPT ![Len(server[e])] = u]]
    BY <1>1
  <2> HIDE DEF u
  <2>5. /\ [server[e] EXCEPT ![Len(server[e])] = u] \in Seq(ThreadStates)
        /\ Len([server[e] EXCEPT ![Len(server[e])] = u]) = Len(server[e])
        /\ DOMAIN [server[e] EXCEPT ![Len(server[e])] = u] = DOMAIN server[e]
        /\ [server[e] EXCEPT ![Len(server[e])] = u] # << >>
        /\ \A j \in DOMAIN server[e] :
             [server[e] EXCEPT ![Len(server[e])] = u][j] = IF j = Len(server[e]) THEN u ELSE server[e][j]
    BY <1>0, <2>2, <2>3, Replaced
  <2>6. server'[e] = [server[e] EXCEPT ![Len(server[e])] = u]
        /\ \A f \in Elements : f # e => server'[f] = server[f]
    BY <1>0, <2>4
  <2>7. server' \in [Elements -> Seq(ThreadStates)]
    BY <1>0, <2>4, <2>5
  <2>8. server'[e][Len(server[e])] = u
    BY <2>2, <2>5, <2>6
  <2> QED BY <1>1, <2>1, <2>3, <2>5, <2>6, <2>7, <2>8 DEF ArrivesEffect
<1>2. CASE l = "none" /\ routerUp /\ server' = [server EXCEPT ![e] = Append(@, Serving(<<cmd>>))]
  <2>1. <<cmd>> \in Seq(Commands)
    OBVIOUS
  <2>2. Serving(<<cmd>>) \in ThreadStates
    BY <2>1 DEF Serving, ThreadStates, Pcs
  <2>3. server'[e] = Append(server[e], Serving(<<cmd>>))
        /\ \A f \in Elements : f # e => server'[f] = server[f]
    BY <1>0, <1>2
  <2>4. /\ Append(server[e], Serving(<<cmd>>)) \in Seq(ThreadStates)
        /\ Append(server[e], Serving(<<cmd>>)) # << >>
        /\ Len(Append(server[e], Serving(<<cmd>>))) = Len(server[e]) + 1
        /\ DOMAIN Append(server[e], Serving(<<cmd>>)) = 1 .. Len(server[e]) + 1
        /\ Append(server[e], Serving(<<cmd>>))[Len(server[e]) + 1] = Serving(<<cmd>>)
        /\ \A i \in DOMAIN server[e] : Append(server[e], Serving(<<cmd>>))[i] = server[e][i]
    BY <1>0, <2>2, Appended
  <2>5. server' \in [Elements -> Seq(ThreadStates)]
    BY <1>0, <1>2, <2>4
  <2> QED BY <1>2, <2>3, <2>4, <2>5 DEF ArrivesEffect
<1> QED BY <1>1, <1>2 DEF Arrives

LEMMA ArrivesShape ==
  ASSUME ServerOK, NEW e \in Elements, NEW cmd \in Commands, NEW l, l = "open" => link[e] = "open",
         Arrives(e, cmd, l), link \in [Elements -> SocketStates], locked \in [Elements -> BOOLEAN],
         routerUp' = routerUp
  PROVE  /\ ServerOK'
         /\ link' \in [Elements -> SocketStates] /\ locked' \in [Elements -> BOOLEAN]
<1>1. ArrivesEffect(e, cmd) /\ (l # "open" => routerUp) /\ server'[e] # << >>
  BY ArrivesIs
<1>2. link' = [link EXCEPT ![e] = "open"] /\ locked' = locked
  BY DEF Arrives
<1>3. link' \in [Elements -> SocketStates] /\ \A f \in Elements : f # e => link'[f] = link[f]
  BY <1>2 DEF SocketStates
<1>4. routerUp
  BY <1>1 DEF ServerOK
<1>5. \A f \in Elements : link'[f] = "open" => server'[f] # << >>
  BY <1>1, <1>3 DEF ServerOK, ArrivesEffect
<1>6. server[e] \in Seq(ThreadStates) /\ Len(server[e]) \in Nat /\ DOMAIN server[e] = 1 .. Len(server[e])
  BY Indexed DEF ServerOK
<1>7. \A j \in DOMAIN server'[e] :
       server'[e][j].pc \in {"park", "push", "notify"} => server'[e][j].cmd \in NewCommands
  <2> SUFFICES ASSUME NEW j \in DOMAIN server'[e], server'[e][j].pc \in {"park", "push", "notify"}
               PROVE  server'[e][j].cmd \in NewCommands
    OBVIOUS
  <2>1. CASE j \in DOMAIN server[e] /\ server'[e][j].pc = server[e][j].pc /\ server'[e][j].cmd = server[e][j].cmd
    BY <2>1 DEF ServerOK
  <2>2. CASE server'[e][j] = Serving(<<cmd>>)
    BY <2>2 DEF Serving
  <2> QED BY <1>1, <1>6, <2>1, <2>2 DEF ArrivesEffect
<1>8. \A f \in Elements : \A j \in DOMAIN server'[f] :
       server'[f][j].pc \in {"park", "push", "notify"} => server'[f][j].cmd \in NewCommands
  BY <1>1, <1>7 DEF ServerOK, ArrivesEffect
<1>9. server' \in [Elements -> Seq(ThreadStates)]
  BY <1>1 DEF ArrivesEffect
<1> QED BY <1>2, <1>3, <1>4, <1>5, <1>8, <1>9 DEF ServerOK

-----------------------------------------------------------------------------
(* Every step keeps the types                                              *)

LEMMA ItemIs ==
  /\ \A n \in Nat : [type |-> "NOTIFY", n |-> n] \in Items
  /\ \A m \in Messages : [type |-> "MESSAGE", msg |-> m] \in Items
  /\ [type |-> "END"] \in Items
  /\ \A t \in {"AVAILABLE", "UNAVAILABLE"}, id \in Elements \cup {Router} :
       [type |-> t, id |-> id] \in Items
  /\ \A x \in Items : x.type = "MESSAGE" => x.msg \in Messages
  /\ \A x \in Items : x.type = "NOTIFY" => x.n \in Nat
BY DEF Items

\* Router::notifyMessageArrival
LEMMA ArrivalShape ==
  ASSUME NetworkOK, TableOK, NEW e \in Elements, NEW n \in Nat,
         NotifyMessageArrival(e, n), routerUp, routerUp', up' = up
  PROVE  NetworkOK' /\ TableOK'
<1>1. CASE UNCHANGED <<network, table, marks>>
  BY <1>1 DEF NetworkOK, TableOK, network, table, marks
<1>2. ASSUME NEW broken \in SUBSET {e},
             Write({e}, "data", broken, [type |-> "NOTIFY", n |-> n], {}),
             Mark(Failed({e}, "data", broken), {})
      PROVE  NetworkOK' /\ TableOK'
  <2>1. {e} \in SUBSET Elements /\ "data" \in Kinds /\ [type |-> "NOTIFY", n |-> n] \in Items
    BY ItemIs DEF Kinds
  <2>2. NetworkOK' /\ addressed' \subseteq registered' /\ registered' \subseteq Elements
    BY <1>2, <2>1, WriteShape DEF TableOK
  <2>3. Failed({e}, "data", broken) \subseteq Elements
    BY DEF Failed
  <2> QED BY <1>2, <2>2, <2>3 DEF Mark, TableOK
<1> QED BY <1>1, <1>2 DEF NotifyMessageArrival

\* Router::notifyElementAvailability
LEMMA AvailabilityShape ==
  ASSUME NetworkOK, TableOK, NEW id \in Elements \cup {Router},
         NEW type \in {"AVAILABLE", "UNAVAILABLE"},
         NotifyElementAvailability(id, type), routerUp, routerUp', up' = up
  PROVE  NetworkOK' /\ TableOK'
<1> DEFINE To == {e \in registered : e # id /\ (e \notin unavailableIds \/ id = Router)}
           filtered == {e \in {Proxy} : id \in Internal}
<1>1. PICK broken \in SUBSET {e \in To : IsStale(e, "control") /\ e \notin filtered} :
        /\ Write(To, "control", broken, [type |-> type, id |-> id], filtered)
        /\ Mark(Failed(To, "control", broken), To \ (Failed(To, "control", broken) \cup filtered))
  BY DEF NotifyElementAvailability
<1>2. To \in SUBSET Elements /\ "control" \in Kinds /\ [type |-> type, id |-> id] \in Items
  BY ItemIs DEF Kinds, TableOK
<1>3. Failed(To, "control", broken) \subseteq To
  BY DEF Failed
<1> HIDE DEF To, filtered
<1>4. NetworkOK' /\ addressed' \subseteq registered' /\ registered' \subseteq Elements
  BY <1>1, <1>2, WriteShape DEF TableOK
<1> QED BY <1>1, <1>2, <1>3, <1>4 DEF Mark, TableOK

\* A thread of the router and its command.
LEMMA ThreadIs ==
  ASSUME Shape, NEW e \in Elements, NEW i \in DOMAIN server[e]
  PROVE  /\ routerUp /\ routerUp \in BOOLEAN
         /\ server[e][i].in \in Seq(Commands) /\ server[e][i].pc \in Pcs
         /\ server[e][i].cmd \in Commands \cup {None}
         /\ \A op : Reads(e, i, op) =>
              /\ Command(e, i) \in Commands /\ Command(e, i).op = op
              /\ server[e][i].pc = "idle" /\ server[e][i].in # << >>
              /\ Command(e, i) = server[e][i].in[1]
         /\ \A pc \in {"park", "push", "notify"} : At(e, i, pc) =>
              Command(e, i) \in NewCommands /\ Command(e, i) = server[e][i].cmd
<1>1. server[e] \in Seq(ThreadStates) /\ server[e][i] \in ThreadStates /\ server[e] # << >>
  BY Indexed DEF Shape, ServerOK
<1>2. routerUp /\ routerUp \in BOOLEAN
  BY <1>1 DEF Shape, ServerOK, RouterOK
<1>3. /\ server[e][i].in \in Seq(Commands) /\ server[e][i].pc \in Pcs
      /\ server[e][i].cmd \in Commands \cup {None}
  BY <1>1 DEF ThreadStates
<1>4. server[e][i].in # << >> => Head(server[e][i].in) \in Commands /\ Head(server[e][i].in) = server[e][i].in[1]
  BY <1>3, Taken
<1>5. \A pc \in {"park", "push", "notify"} : At(e, i, pc) =>
              Command(e, i) \in NewCommands /\ Command(e, i) = server[e][i].cmd
  BY DEF At, Command, Shape, ServerOK
<1> QED BY <1>2, <1>3, <1>4, <1>5 DEF Reads, Command

\* The table of elements and the queues are changed by one thread at a time.
LEMMA ThreadTableShape ==
  ASSUME Shape, NEW e \in Elements, NEW i \in DOMAIN server[e],
         Login(e, i) \/ LoginQueue(e, i) \/ LoginNotify(e, i) \/ Logout(e, i) \/ PersistState(e, i) \/ ClearMessageQueue(e, i)
  PROVE  Shape'
<1>1. /\ routerUp /\ routerUp \in BOOLEAN
      /\ \A op : Reads(e, i, op) =>
              /\ Command(e, i) \in Commands /\ Command(e, i).op = op
              /\ server[e][i].pc = "idle" /\ server[e][i].in # << >>
  BY ThreadIs
<1>2. None \in Commands \cup {None} /\ {"idle", "joining", "leaving", "login", "pending"} \subseteq Pcs
  BY DEF Pcs
<1>3. ServerOK /\ NetworkOK /\ TableOK
  BY DEF Shape, RouterOK
<1>4. ASSUME NEW pc \in {"idle", "joining", "leaving", "login", "pending"}, Become(e, i, pc, None), UNCHANGED others,
             server[e][i].pc = "idle" => server[e][i].in # << >>
      PROVE  ServerOK' /\ ClientsOK' /\ BoundsOK'
  <2>1. link' = link /\ routerUp' = routerUp
    BY <1>4 DEF others, clients
  <2>2. ServerOK'
    BY <1>2, <1>3, <1>4, <2>1, BecomeShape
  <2>3. ClientsOK' /\ BoundsOK'
    BY <1>4 DEF others, clients, bounds, Shape, ClientsOK, BoundsOK
  <2> QED BY <2>2, <2>3
<1>5. CASE Login(e, i)
  <2>1. ServerOK' /\ ClientsOK' /\ BoundsOK'
    BY <1>1, <1>4, <1>5 DEF Login
  <2>2. QueuesOK' /\ NetworkOK'
    BY <1>5 DEF Login, Shape, QueuesOK, NetworkOK, queues, network, others, clients
  <2>3. RouterOK'
    BY <1>5 DEF Login, Shape, RouterOK, TableOK, others, marks, table
  <2> QED BY <2>1, <2>2, <2>3 DEF Shape
<1>6. CASE LoginQueue(e, i)
  <2>1. ServerOK' /\ ClientsOK' /\ BoundsOK'
    BY <1>1, <1>4, <1>6 DEF LoginQueue, At, Done
  <2>2. QueuesOK'
    BY <1>6, EmptySeq DEF LoginQueue, Shape, QueuesOK
  <2>3. NetworkOK'
    BY <1>6 DEF LoginQueue, Shape, NetworkOK, network, others, clients
  <2>4. RouterOK'
    BY <1>6 DEF LoginQueue, Shape, RouterOK, TableOK, others, table, Mark
  <2> QED BY <2>1, <2>2, <2>3, <2>4 DEF Shape
<1>7. CASE LoginNotify(e, i)
  <2>1. ServerOK' /\ ClientsOK' /\ BoundsOK'
    BY <1>1, <1>4, <1>7 DEF LoginNotify, At, Done
  <2>2. QueuesOK'
    BY <1>7 DEF LoginNotify, Shape, QueuesOK, queues
  <2>3. Len(queue[e]) \in Nat
    BY LenProperties DEF Shape, QueuesOK
  <2>4. NotifyMessageArrival(e, Len(queue[e])) /\ UNCHANGED others /\ file' = file
    BY <1>7 DEF LoginNotify
  <2>5. NetworkOK' /\ TableOK'
    BY <1>1, <1>3, <2>3, <2>4, ArrivalShape DEF others, clients
  <2>6. RouterOK'
    BY <2>4, <2>5 DEF Shape, RouterOK, others
  <2> QED BY <2>1, <2>2, <2>5, <2>6 DEF Shape
<1>8. CASE Logout(e, i)
  <2>1. ServerOK' /\ ClientsOK' /\ BoundsOK'
    BY <1>1, <1>4, <1>8 DEF Logout
  <2>2. QueuesOK'
    BY <1>8, EmptySeq DEF Logout, Shape, QueuesOK
  <2>3. NoSockets \in [Kinds -> SocketStates] /\ \A k \in Kinds : NoSockets[k] = "none"
    BY DEF NoSockets, SocketStates
  <2>4. sock' = [sock EXCEPT ![e] = NoSockets] /\ conn' = conn /\ routerUp' = routerUp /\ up' = up
    BY <1>8 DEF Logout, others, clients
  <2>5. NetworkOK'
    BY <1>1, <1>3, <2>3, <2>4 DEF NetworkOK
  <2>6. RouterOK'
    BY <1>8 DEF Logout, Shape, RouterOK, TableOK, others, table, marks
  <2> QED BY <2>1, <2>2, <2>5, <2>6 DEF Shape
<1>9. CASE PersistState(e, i)
  <2>1. ServerOK' /\ ClientsOK' /\ BoundsOK'
    BY <1>1, <1>4, <1>9 DEF PersistState, At, Done
  <2>2. QueuesOK' /\ NetworkOK'
    BY <1>9 DEF PersistState, Shape, QueuesOK, NetworkOK, queues, network, others, clients
  <2>3. RouterOK'
    BY <1>9 DEF PersistState, Shape, RouterOK, TableOK, others, marks, table
  <2> QED BY <2>1, <2>2, <2>3 DEF Shape
<1>10. CASE ClearMessageQueue(e, i)
  <2>1. ServerOK' /\ ClientsOK' /\ BoundsOK'
    BY <1>1, <1>4, <1>10 DEF ClearMessageQueue, Done
  <2>2. Command(e, i).target \in Elements
    BY <1>1, <1>10, CommandIs DEF ClearMessageQueue
  <2>3. QueuesOK'
    BY <1>10, <2>2, EmptySeq DEF ClearMessageQueue, Shape, QueuesOK
  <2>4. NetworkOK'
    BY <1>10 DEF ClearMessageQueue, Shape, NetworkOK, network, others, clients
  <2>5. RouterOK'
    BY <1>10 DEF ClearMessageQueue, Shape, RouterOK, TableOK, others, table, marks
  <2> QED BY <2>1, <2>3, <2>4, <2>5 DEF Shape
<1> QED BY <1>5, <1>6, <1>7, <1>8, <1>9, <1>10

\* Storing a message.
LEMMA ThreadStoreShape ==
  ASSUME Shape, NEW e \in Elements, NEW i \in DOMAIN server[e],
         NewMessage(e, i) \/ ParkMessage(e, i) \/ PushMessage(e, i) \/ NotifyTarget(e, i)
  PROVE  Shape'
<1>1. /\ routerUp /\ routerUp \in BOOLEAN
      /\ \A op : Reads(e, i, op) =>
              /\ Command(e, i) \in Commands /\ Command(e, i).op = op
              /\ server[e][i].pc = "idle" /\ server[e][i].in # << >>
      /\ \A pc \in {"park", "push", "notify"} : At(e, i, pc) => Command(e, i) \in NewCommands
  BY ThreadIs
<1>2. None \in Commands \cup {None} /\ {"idle", "park", "push", "notify"} \subseteq Pcs
  BY DEF Pcs
<1>3. ServerOK /\ NetworkOK /\ TableOK
  BY DEF Shape, RouterOK
<1>4. ASSUME NEW pc \in {"idle", "park", "push", "notify"}, NEW cmd \in NewCommands \cup {None},
             Become(e, i, pc, cmd), UNCHANGED others,
             server[e][i].pc = "idle" => server[e][i].in # << >>,
             pc # "idle" => cmd \in NewCommands
      PROVE  ServerOK' /\ ClientsOK' /\ BoundsOK'
  <2>1. link' = link /\ routerUp' = routerUp
    BY <1>4 DEF others, clients
  <2>2. cmd \in Commands \cup {None} /\ pc \in Pcs /\ (pc \in {"park", "push", "notify"} => cmd \in NewCommands)
    BY <1>2, <1>4, CommandIs
  <2>3. ServerOK'
    BY <1>3, <1>4, <2>1, <2>2, BecomeShape
  <2>4. ClientsOK' /\ BoundsOK'
    BY <1>4 DEF others, clients, bounds, Shape, ClientsOK, BoundsOK
  <2> QED BY <2>3, <2>4
<1>5. ASSUME NEW c \in NewCommands
      PROVE  c.msg \in Messages /\ c.msg.from \in Elements /\ c.msg.to \in Elements
  BY CommandIs
<1>6. CASE NewMessage(e, i)
  <2>1. Command(e, i) \in NewCommands
    BY <1>1, <1>6, CommandIs DEF NewMessage
  <2>2. ServerOK' /\ ClientsOK' /\ BoundsOK'
    <3>1. /\ UNCHANGED others
          /\ server[e][i].pc = "idle" => server[e][i].in # << >>
          /\ \/ Become(e, i, "idle", None)
             \/ Become(e, i, "park", Command(e, i))
             \/ Become(e, i, "push", Command(e, i))
      BY <1>1, <1>6 DEF NewMessage, Done
    <3> QED BY <3>1, <2>1, <1>4
  <2>3. QueuesOK'
    BY <1>5, <1>6, <2>1 DEF NewMessage, Queued, Shape, QueuesOK
  <2>4. NetworkOK'
    BY <1>6 DEF NewMessage, Shape, NetworkOK, network, others, clients
  <2>5. RouterOK'
    BY <1>6 DEF NewMessage, Shape, RouterOK, TableOK, others, table, marks
  <2> QED BY <2>2, <2>3, <2>4, <2>5 DEF Shape
<1>7. ASSUME NEW m \in Messages, Push(m), hasQueue' = hasQueue
      PROVE  QueuesOK'
  <2>1. m.to \in Elements
    BY CommandIs
  <2>2. queue[m.to] \in Seq(Messages) /\ Append(queue[m.to], m) \in Seq(Messages)
    BY <2>1, Appended DEF Shape, QueuesOK
  <2> QED BY <1>7, <2>1, <2>2 DEF Push, Shape, QueuesOK
<1>8. CASE ParkMessage(e, i)
  <2>1. Command(e, i) \in NewCommands /\ server[e][i].pc # "idle"
    BY <1>1, <1>8 DEF ParkMessage, At
  <2>2. ServerOK' /\ ClientsOK' /\ BoundsOK'
    BY <1>4, <1>8, <2>1 DEF ParkMessage, Done
  <2>3. QueuesOK'
    BY <1>5, <1>7, <1>8, <2>1 DEF ParkMessage
  <2>4. NetworkOK'
    BY <1>8 DEF ParkMessage, Shape, NetworkOK, network, others, clients
  <2>5. RouterOK'
    BY <1>5, <1>8, <2>1 DEF ParkMessage, Mark, Shape, RouterOK, TableOK, others, table
  <2> QED BY <2>2, <2>3, <2>4, <2>5 DEF Shape
<1>9. CASE PushMessage(e, i)
  <2>1. Command(e, i) \in NewCommands /\ server[e][i].pc # "idle"
    BY <1>1, <1>9 DEF PushMessage, At
  <2>2. ServerOK' /\ ClientsOK' /\ BoundsOK'
    BY <1>4, <1>9, <2>1 DEF PushMessage
  <2>3. QueuesOK'
    BY <1>5, <1>7, <1>9, <2>1 DEF PushMessage
  <2>4. NetworkOK'
    BY <1>9 DEF PushMessage, Shape, NetworkOK, network, others, clients
  <2>5. RouterOK'
    BY <1>9 DEF PushMessage, Shape, RouterOK, TableOK, others, table, marks
  <2> QED BY <2>2, <2>3, <2>4, <2>5 DEF Shape
<1>10. CASE NotifyTarget(e, i)
  <2>1. Command(e, i) \in NewCommands /\ server[e][i].pc # "idle"
    BY <1>1, <1>10 DEF NotifyTarget, At
  <2>2. ServerOK' /\ ClientsOK' /\ BoundsOK'
    BY <1>4, <1>10, <2>1 DEF NotifyTarget, Done
  <2>3. QueuesOK'
    BY <1>10 DEF NotifyTarget, Shape, QueuesOK, queues
  <2>4. NotifyMessageArrival(Command(e, i).msg.to, 1) /\ UNCHANGED others /\ file' = file
    BY <1>10 DEF NotifyTarget
  <2>5. NetworkOK' /\ TableOK'
    BY <1>1, <1>3, <1>5, <2>1, <2>4, ArrivalShape DEF others, clients
  <2>6. RouterOK'
    BY <2>4, <2>5 DEF Shape, RouterOK, others
  <2> QED BY <2>2, <2>3, <2>5, <2>6 DEF Shape
<1> QED BY <1>6, <1>8, <1>9, <1>10

\* A write on the socket for data, if it is open.
LEMMA WriteReturnsShape ==
  ASSUME NetworkOK, NEW e \in Elements, NEW item \in Items, WriteReturns(e, item),
         up' = up, routerUp' = routerUp
  PROVE  NetworkOK' /\ sock' = sock /\ \A f \in Elements, k \in Kinds :
           conn'[f][k] = IF f = e /\ k = "data" /\ sock[e]["data"] = "open"
                         THEN Written(conn[e]["data"], item) ELSE conn[f][k]
<1>1. "data" \in Kinds /\ sock' = sock /\ conn \in [Elements -> [Kinds -> Seq(Connections)]]
  BY DEF Kinds, WriteReturns, NetworkOK
<1>2. CASE sock[e]["data"] = "open"
  <2>1. conn[e]["data"] \in Seq(Connections) /\ conn[e]["data"] # << >>
    BY <1>1, <1>2 DEF NetworkOK
  <2>2. Written(conn[e]["data"], item) \in Seq(Connections) /\ Written(conn[e]["data"], item) # << >>
    BY <2>1, WrittenIs
  <2>3. conn' = [conn EXCEPT ![e] = [conn[e] EXCEPT !["data"] = Written(conn[e]["data"], item)]]
    BY <1>2 DEF WriteReturns
  <2>4. conn' \in [Elements -> [Kinds -> Seq(Connections)]]
    BY <1>1, <2>2, <2>3
  <2>5. \A f \in Elements, k \in Kinds :
           conn'[f][k] = IF f = e /\ k = "data" THEN Written(conn[e]["data"], item) ELSE conn[f][k]
    BY <1>1, <2>3
  <2> QED BY <1>1, <1>2, <2>2, <2>4, <2>5 DEF NetworkOK
<1>3. CASE sock[e]["data"] # "open"
  BY <1>1, <1>3 DEF WriteReturns, NetworkOK
<1> QED BY <1>2, <1>3

\* Sending the messages that were asked for.
LEMMA ThreadDeliverShape ==
  ASSUME Shape, NEW e \in Elements, NEW i \in DOMAIN server[e],
         RequestUnreadMessages(e, i) \/ MoreMessages(e, i) \/ DeliverMessage(e, i) \/ NoMoreMessages(e, i)
  PROVE  Shape'
<1>1. /\ routerUp /\ routerUp \in BOOLEAN
      /\ \A op : Reads(e, i, op) => server[e][i].pc = "idle" /\ server[e][i].in # << >>
  BY ThreadIs
<1>2. None \in Commands \cup {None} /\ {"idle", "deliver", "pop", "ended"} \subseteq Pcs
  BY DEF Pcs
<1>3. ServerOK /\ NetworkOK /\ TableOK /\ queue[e] \in Seq(Messages)
  BY DEF Shape, RouterOK, QueuesOK
<1>4. ASSUME NEW pc \in {"idle", "deliver", "pop", "ended"}, Become(e, i, pc, None), UNCHANGED others,
             server[e][i].pc = "idle" => server[e][i].in # << >>
      PROVE  ServerOK' /\ ClientsOK' /\ BoundsOK'
  <2>1. link' = link /\ routerUp' = routerUp
    BY <1>4 DEF others, clients
  <2>2. ServerOK'
    BY <1>2, <1>3, <1>4, <2>1, BecomeShape
  <2>3. ClientsOK' /\ BoundsOK'
    BY <1>4 DEF others, clients, bounds, Shape, ClientsOK, BoundsOK
  <2> QED BY <2>2, <2>3
<1>5. CASE RequestUnreadMessages(e, i)
  <2>1. ServerOK' /\ ClientsOK' /\ BoundsOK'
    BY <1>1, <1>4, <1>5 DEF RequestUnreadMessages, Done
  <2>2. QueuesOK'
    BY <1>5 DEF RequestUnreadMessages, Queued, Shape, QueuesOK
  <2>3. UNCHANGED others /\ file' = file
    BY <1>5 DEF RequestUnreadMessages
  <2>4. NetworkOK' /\ TableOK'
    <3>1. CASE UNCHANGED <<network, table, marks>>
      BY <1>3, <2>3, <3>1 DEF NetworkOK, TableOK, network, table, marks, others, clients
    <3>2. CASE /\ Write({e}, "data", {}, None, {e})
               /\ Mark(Failed({e}, "data", {}), {})
      <4>1. {e} \in SUBSET Elements /\ "data" \in Kinds /\ {e} \subseteq {e}
        BY DEF Kinds
      <4>2. addressed \subseteq registered /\ registered \subseteq Elements /\ routerUp' /\ up' = up
        BY <1>1, <1>3, <2>3 DEF TableOK, others, clients
      <4>3. NetworkOK' /\ addressed' \subseteq registered' /\ registered' \subseteq Elements
        BY <1>1, <1>3, <3>2, <4>1, <4>2, WriteShape
      <4>4. Failed({e}, "data", {}) \subseteq Elements
        BY DEF Failed
      <4> QED BY <1>3, <3>2, <4>3, <4>4 DEF Mark, TableOK
    <3> QED BY <1>5, <3>1, <3>2 DEF RequestUnreadMessages
  <2>5. RouterOK'
    BY <2>3, <2>4 DEF Shape, RouterOK, others
  <2> QED BY <2>1, <2>2, <2>4, <2>5 DEF Shape
<1>6. CASE MoreMessages(e, i)
  <2>1. ServerOK' /\ ClientsOK' /\ BoundsOK'
    BY <1>1, <1>4, <1>6 DEF MoreMessages, At
  <2>2. QueuesOK' /\ NetworkOK' /\ RouterOK'
    BY <1>6 DEF MoreMessages, Shape, QueuesOK, NetworkOK, RouterOK, TableOK, queues, network,
                table, marks, others, clients
  <2> QED BY <2>1, <2>2 DEF Shape
<1>7. CASE DeliverMessage(e, i)
  <2>1. ServerOK' /\ ClientsOK' /\ BoundsOK'
    BY <1>1, <1>4, <1>7 DEF DeliverMessage, At, WriteThrows
  <2>2. Tail(queue[e]) \in Seq(Messages) /\ Head(queue[e]) \in Messages
    BY <1>3, <1>7, Taken DEF DeliverMessage
  <2>3. QueuesOK'
    BY <1>7, <2>2 DEF DeliverMessage, Shape, QueuesOK
  <2>4. NetworkOK'
    <3>1. CASE UNCHANGED network
      BY <1>3, <1>7, <3>1 DEF DeliverMessage, NetworkOK, network, others, clients
    <3>2. CASE WriteReturns(e, [type |-> "MESSAGE", msg |-> Head(queue[e])])
      BY <1>3, <1>7, <2>2, <3>2, ItemIs, WriteReturnsShape DEF DeliverMessage, others, clients
    <3> QED BY <1>7, <3>1, <3>2 DEF DeliverMessage, WriteThrows
  <2>5. RouterOK'
    BY <1>7 DEF DeliverMessage, Shape, RouterOK, TableOK, others, table, marks
  <2> QED BY <2>1, <2>3, <2>4, <2>5 DEF Shape
<1>8. CASE NoMoreMessages(e, i)
  <2>1. ServerOK' /\ ClientsOK' /\ BoundsOK'
    BY <1>1, <1>4, <1>8 DEF NoMoreMessages, At, WriteThrows, Done
  <2>2. QueuesOK'
    BY <1>8 DEF NoMoreMessages, Shape, QueuesOK, queues
  <2>3. NetworkOK'
    <3>1. CASE UNCHANGED network
      BY <1>3, <1>8, <3>1 DEF NoMoreMessages, NetworkOK, network, others, clients
    <3>2. CASE WriteReturns(e, [type |-> "END"])
      BY <1>3, <1>8, <3>2, ItemIs, WriteReturnsShape DEF NoMoreMessages, others, clients
    <3> QED BY <1>8, <3>1, <3>2 DEF NoMoreMessages, WriteThrows
  <2>4. RouterOK'
    BY <1>8 DEF NoMoreMessages, Shape, RouterOK, TableOK, others, table, marks
  <2> QED BY <2>1, <2>2, <2>3, <2>4 DEF Shape
<1> QED BY <1>5, <1>6, <1>7, <1>8

LEMMA ThreadShape ==
  ASSUME Shape, NEW e \in Elements, RouterThread(e)
  PROVE  Shape'
BY ThreadTableShape, ThreadStoreShape, ThreadDeliverShape DEF RouterThread

\* The main loop of the router, its failure and its start.
LEMMA LoopShape ==
  ASSUME Shape, RouterLoop \/ NotifyRouterAvailable \/ NotifyRecovery
  PROVE  Shape'
<1>1. NetworkOK /\ TableOK
  BY DEF Shape, RouterOK
<1>2. ASSUME NEW id \in Elements \cup {Router}, NEW type \in {"AVAILABLE", "UNAVAILABLE"},
             NotifyElementAvailability(id, type), routerUp,
             UNCHANGED <<clients, routerUp, queues, file, server, sent>>,
             loop' \in [phase : {"sleep", "available", "unavailable", "recovered"},
                        pending : SUBSET Elements], BoundsOK'
      PROVE  Shape'
  <2>1. NetworkOK' /\ TableOK'
    BY <1>1, <1>2, AvailabilityShape DEF clients
  <2>2. RouterOK'
    BY <1>2, <2>1 DEF Shape, RouterOK
  <2>3. ClientsOK' /\ QueuesOK' /\ ServerOK'
    BY <1>2 DEF Shape, ClientsOK, QueuesOK, ServerOK, clients, queues
  <2> QED BY <1>2, <2>1, <2>2, <2>3 DEF Shape
<1>3. CASE NotifyRouterAvailable
  <2>1. BoundsOK'
    BY <1>3 DEF NotifyRouterAvailable, Spend, Shape, BoundsOK, Events
  <2>2. NotifyElementAvailability(Router, "AVAILABLE") /\ routerUp
        /\ UNCHANGED <<clients, routerUp, queues, file, server, sent>> /\ loop' = loop
    BY <1>3 DEF NotifyRouterAvailable
  <2> QED BY <1>2, <2>1, <2>2 DEF Shape, RouterOK
<1>4. CASE NotifyRecovery
  <2>1. NotifyElementAvailability(Router, "UNAVAILABLE") /\ routerUp
        /\ UNCHANGED <<clients, routerUp, queues, file, server, sent>> /\ BoundsOK'
        /\ loop' = [loop EXCEPT !.phase = "sleep"]
    BY <1>4 DEF NotifyRecovery, Shape, BoundsOK, bounds
  <2>2. loop' \in [phase : {"sleep", "available", "unavailable", "recovered"},
                   pending : SUBSET Elements]
    BY <2>1 DEF Shape, RouterOK
  <2> QED BY <1>2, <2>1, <2>2
<1>5. CASE NotifyPending
  <2>1. PICK id \in loop.pending :
          /\ routerUp
          /\ loop' = [loop EXCEPT !.pending = @ \ {id}]
          /\ NotifyElementAvailability(id,
               IF loop.phase = "available" THEN "AVAILABLE" ELSE "UNAVAILABLE")
          /\ UNCHANGED <<clients, routerUp, queues, file, server, bounds>>
    BY <1>5 DEF NotifyPending
  <2>2. id \in Elements /\ loop' \in [phase : {"sleep", "available", "unavailable", "recovered"},
                   pending : SUBSET Elements]
    BY <2>1 DEF Shape, RouterOK
  <2>3. BoundsOK' /\ sent' = sent
    BY <2>1 DEF Shape, BoundsOK, bounds
  <2>4. (IF loop.phase = "available" THEN "AVAILABLE" ELSE "UNAVAILABLE") \in {"AVAILABLE", "UNAVAILABLE"}
    OBVIOUS
  <2> QED BY <1>2, <2>1, <2>2, <2>3, <2>4
<1>6. CASE TakeAvailable \/ TakeUnavailable \/ Sleep
  <2>1. RouterOK'
    BY <1>6 DEF TakeAvailable, TakeUnavailable, Sleep, Shape, RouterOK, TableOK, table, marks
  <2>2. ClientsOK' /\ QueuesOK' /\ ServerOK' /\ NetworkOK' /\ BoundsOK'
    BY <1>6 DEF TakeAvailable, TakeUnavailable, Sleep, Shape, ClientsOK, QueuesOK, ServerOK,
                NetworkOK, BoundsOK, clients, queues, network, bounds
  <2> QED BY <2>1, <2>2 DEF Shape
<1> QED BY <1>3, <1>4, <1>5, <1>6 DEF RouterLoop

\* Something the environment may do.
LEMMA SpendIs ==
  ASSUME BoundsOK, NEW k \in Events \ {"send"}, Spend(k), sent' = sent
  PROVE  BoundsOK'
BY DEF BoundsOK, Spend, Events

LEMMA FailureShape ==
  ASSUME Shape, RouterCrash \/ RouterStart \/ \E e \in Elements : PopNull(e)
  PROVE  Shape'
<1>1. NoSockets \in [Kinds -> SocketStates] /\ \A k \in Kinds : NoSockets[k] = "none"
  BY DEF NoSockets, SocketStates
<1>2. ASSUME RouterFails PROVE ClientsOK' /\ QueuesOK' /\ ServerOK' /\ NetworkOK' /\ RouterOK'
  <2>1. ClientsOK'
    BY <1>2 DEF RouterFails, Shape, ClientsOK, SocketStates
  <2>2. QueuesOK'
    BY <1>2, EmptySeq DEF RouterFails, QueuesOK
  <2>3. ServerOK'
    <3>1. server' = [e \in Elements |-> << >>] /\ link' = [e \in Elements |-> IF link[e] = "open" THEN "stale" ELSE link[e]]
      BY <1>2 DEF RouterFails
    <3>2. \A e \in Elements : DOMAIN server'[e] = {}
      BY <3>1
    <3>3. server' \in [Elements -> Seq(ThreadStates)]
      BY <3>1, EmptySeq
    <3> QED BY <3>1, <3>2, <3>3 DEF ServerOK
  <2>4. NetworkOK'
    <3>1. sock' = [e \in Elements |-> NoSockets] /\ conn' = conn /\ up' = up
      BY <1>2 DEF RouterFails
    <3> QED BY <3>1, <1>1 DEF Shape, NetworkOK
  <2>5. RouterOK'
    <3>1. file' # None => file'[2] \subseteq file'[1] /\ file'[1] \subseteq Elements
      <4>1. CASE file' = file
        BY <4>1 DEF Shape, RouterOK
      <4>2. CASE CutShort
        <5>1. PICK lines \in SUBSET registered : file' = <<lines, lines \cap addressed>>
          BY <4>2 DEF CutShort
        <5> QED BY <5>1 DEF Shape, RouterOK, TableOK
      <4> QED BY <1>2, <4>1, <4>2 DEF RouterFails
    <3> QED BY <1>2, <3>1 DEF RouterFails, Shape, RouterOK, TableOK
  <2> QED BY <2>1, <2>2, <2>3, <2>4, <2>5
<1>3. CASE RouterCrash
  <2>1. BoundsOK'
    BY <1>3, SpendIs DEF RouterCrash, RouterFails, Shape, Events
  <2> QED BY <1>2, <1>3, <2>1 DEF RouterCrash, Shape
<1>4. CASE \E e \in Elements : PopNull(e)
  <2>1. RouterFails /\ BoundsOK'
    BY <1>4 DEF PopNull, RouterFails, Shape, BoundsOK
  <2> QED BY <1>2, <2>1 DEF Shape
<1>5. CASE RouterStart
  <2>1. ClientsOK' /\ QueuesOK' /\ BoundsOK'
    BY <1>5 DEF RouterStart, Shape, ClientsOK, QueuesOK, BoundsOK, clients, queues, bounds
  <2>2. ServerOK' /\ NetworkOK'
    BY <1>5 DEF RouterStart, Shape, ServerOK, NetworkOK, clients, network
  <2>3. RouterOK'
    BY <1>5 DEF RouterStart, Shape, RouterOK, TableOK
  <2> QED BY <2>1, <2>2, <2>3 DEF Shape
<1> QED BY <1>3, <1>4, <1>5

\* A command to the router, whatever comes of it.
LEMMA SendShape ==
  ASSUME ServerOK, ClientsOK, NEW e \in Elements, NEW cmd \in Commands, NEW l, l = "open" => link[e] = "open",
         Arrives(e, cmd, l) \/ Vanishes(e, l) \/ WriteFails(e, l) \/ ConnectFails(e, l),
         NEW U, NEW n \in Int, Believes(e, U, n), inbox' = inbox,
         up' \in [Elements -> BOOLEAN], routerUp' = routerUp
  PROVE  ServerOK' /\ ClientsOK'
<1>1. /\ ServerOK'
      /\ link' \in [Elements -> SocketStates] /\ locked' \in [Elements -> BOOLEAN]
  <2>1. CASE Arrives(e, cmd, l)
    BY <2>1, ArrivesShape DEF ClientsOK
  <2>2. CASE Vanishes(e, l) \/ WriteFails(e, l)
    BY <2>2 DEF Vanishes, WriteFails, ServerOK, ClientsOK
  <2>3. CASE ConnectFails(e, l)
    <3>1. /\ server' = server /\ locked' = locked /\ link' \in [Elements -> SocketStates]
          /\ \A f \in Elements : link'[f] = "open" => link[f] = "open"
      BY <2>3 DEF ConnectFails, ClientsOK, SocketStates
    <3> QED BY <3>1 DEF ServerOK, ClientsOK
  <2> QED BY <2>1, <2>2, <2>3
<1>2. unread' \in [Elements -> Int] /\ DOMAIN unavailableElements' = Elements
  BY DEF Believes, ClientsOK
<1> QED BY <1>1, <1>2 DEF ClientsOK

LEMMA CommandShape ==
  ASSUME ServerOK, ClientsOK, NEW e \in Elements, NEW cmd \in Commands, NEW l, l = "open" => link[e] = "open",
         NEW U, sendCommandToRouter(e, cmd, l, U), inbox' = inbox,
         up' \in [Elements -> BOOLEAN], routerUp' = routerUp
  PROVE  ServerOK' /\ ClientsOK'
<1>1. unread[e] \in Int /\ 0 \in Int
  BY DEF ClientsOK
<1>2. CASE (Arrives(e, cmd, l) \/ Vanishes(e, l)) /\ Believes(e, U, unread[e])
  BY <1>1, <1>2, SendShape
<1>3. CASE (WriteFails(e, l) \/ ConnectFails(e, l)) /\ Believes(e, U \cup {Router}, 0)
  BY <1>1, <1>3, SendShape
<1> QED BY <1>2, <1>3 DEF sendCommandToRouter

LEMMA ElementShape ==
  ASSUME Shape, NEW e \in Elements,
         \/ Start(e) \/ Crash(e) \/ logoutFromRouter(e) \/ ClearQueue(e) \/ retrieveMessages(e)
         \/ \E to \in Elements \ {e} : sendMessage(e, to)
  PROVE  Shape'
<1>1. ServerOK /\ ClientsOK /\ BoundsOK /\ {"start", "crash", "logout", "clear"} \subseteq Events \ {"send"}
  BY DEF Shape, Events
<1>2. ASSUME routerVars' = routerVars, up' \in [Elements -> BOOLEAN], inbox' = inbox, network' = network,
             \A f \in Elements : up[f] => up'[f],
             BoundsOK', NEW f \in Elements, NEW cmd \in Commands, NEW U,
             sendCommandToRouter(f, cmd, link[f], U)
      PROVE  Shape'
  <2>1. ServerOK' /\ ClientsOK'
    BY <1>1, <1>2, CommandShape DEF routerVars
  <2>2. RouterOK' /\ QueuesOK'
    BY <1>2 DEF routerVars, Shape, RouterOK, TableOK, QueuesOK, table, queues, marks
  <2>3. NetworkOK'
    BY <1>2 DEF routerVars, network, Shape, NetworkOK
  <2> QED BY <1>2, <2>1, <2>2, <2>3 DEF Shape
<1>3. CASE Start(e)
  <2>1. BoundsOK'
    BY <1>1, <1>3, SpendIs DEF Start
  <2>2. [op |-> "LOGIN"] \in Commands
    BY CommandIs
  <2>3. up' \in [Elements -> BOOLEAN] /\ \A f \in Elements : up[f] => up'[f]
    BY <1>1, <1>3 DEF Start, ClientsOK
  <2> QED BY <1>2, <1>3, <2>1, <2>2, <2>3 DEF Start
<1>4. CASE logoutFromRouter(e)
  <2>1. BoundsOK'
    BY <1>1, <1>4, SpendIs DEF logoutFromRouter
  <2>2. [op |-> "LOGOUT"] \in Commands
    BY CommandIs
  <2> QED BY <1>1, <1>2, <1>4, <2>1, <2>2 DEF logoutFromRouter, ClientsOK
<1>5. CASE ClearQueue(e)
  <2>1. BoundsOK'
    BY <1>1, <1>5, SpendIs DEF ClearQueue
  <2>2. [op |-> "CLEAR", target |-> e] \in Commands /\ Spawner \in Elements
    BY <1>5, CommandIs DEF ClearQueue
  <2> QED BY <1>1, <1>2, <1>5, <2>1, <2>2 DEF ClearQueue, ClientsOK
<1>6. CASE retrieveMessages(e)
  <2>1. BoundsOK'
    BY <1>1, <1>6 DEF retrieveMessages, BoundsOK, bounds
  <2>2. [op |-> "REQUEST"] \in Commands
    BY CommandIs
  <2> QED BY <1>1, <1>2, <1>6, <2>1, <2>2 DEF retrieveMessages, ClientsOK
<1>7. ASSUME NEW to \in Elements \ {e}, sendMessage(e, to) PROVE Shape'
  <2> DEFINE m == [from |-> e, to |-> to, n |-> sent]
             cmd == [op |-> "NEW", msg |-> m]
  <2>1. BoundsOK' /\ sent \in 0 .. Budget["send"] - 1
    BY <1>1, <1>7, BudgetAssumption DEF sendMessage, Spend, BoundsOK, Events
  <2>2. m \in Messages
    BY <2>1 DEF Messages
  <2>3. cmd \in Commands
    BY <2>2, CommandIs
  <2>4. /\ UNCHANGED <<up, inbox, routerVars, network>>
        /\ Arrives(e, cmd, link[e]) \/ Vanishes(e, link[e]) \/ WriteFails(e, link[e]) \/ ConnectFails(e, link[e])
        /\ Believes(e, unavailableElements[e], unread[e]) \/ Believes(e, unavailableElements[e] \cup {Router}, 0)
    BY <1>7 DEF sendMessage
  <2>5. unread[e] \in Int /\ 0 \in Int /\ up' \in [Elements -> BOOLEAN]
    BY <1>1, <2>4 DEF ClientsOK
  <2> HIDE DEF cmd
  <2>6. ServerOK' /\ ClientsOK'
    BY <1>1, <2>3, <2>4, <2>5, SendShape DEF routerVars
  <2>7. RouterOK' /\ QueuesOK'
    BY <2>4 DEF routerVars, Shape, RouterOK, TableOK, QueuesOK, table, queues, marks
  <2>8. NetworkOK'
    BY <2>4 DEF routerVars, network, Shape, NetworkOK
  <2> QED BY <2>1, <2>6, <2>7, <2>8 DEF Shape
<1>8. CASE Crash(e)
  <2>1. BoundsOK'
    BY <1>1, <1>8, SpendIs DEF Crash
  <2>2. << >> \in Seq(Messages) /\ << >> \in Seq(Connections)
    BY EmptySeq
  <2>3. ClientsOK'
    BY <1>1, <1>8, <2>2 DEF Crash, ClientsOK, SocketStates
  <2>4. ServerOK'
    BY <1>1, <1>8 DEF Crash, ServerOK, ClientsOK, routerVars
  <2>5. RouterOK' /\ QueuesOK'
    BY <1>8 DEF Crash, routerVars, Shape, RouterOK, TableOK, QueuesOK, table, queues, marks
  <2>6. NetworkOK'
    <3>1. sock' = [sock EXCEPT ![e] = [k \in Kinds |-> IF sock[e][k] = "open" THEN "stale" ELSE sock[e][k]]]
          /\ conn' = [conn EXCEPT ![e] = [k \in Kinds |-> << >>]]
          /\ up' = [up EXCEPT ![e] = FALSE] /\ routerUp' = routerUp
      BY <1>8 DEF Crash, routerVars
    <3>2. sock' \in [Elements -> [Kinds -> SocketStates]] /\ conn' \in [Elements -> [Kinds -> Seq(Connections)]]
      BY <3>1, <2>2 DEF Shape, NetworkOK, SocketStates
    <3>3. \A f \in Elements, k \in Kinds : sock'[f][k] = "open" => up'[f] /\ conn'[f][k] # << >>
      BY <3>1 DEF Shape, NetworkOK, ClientsOK
    <3>4. ASSUME ~routerUp PROVE \A f \in Elements : sock'[f] = NoSockets
      <4>1. \A f \in Elements : sock[f] = NoSockets
        BY <3>4 DEF Shape, NetworkOK
      <4>2. sock'[e] = [k \in Kinds |-> IF NoSockets[k] = "open" THEN "stale" ELSE NoSockets[k]]
        BY <3>1, <4>1 DEF Shape, NetworkOK
      <4>3. sock'[e] = NoSockets
        BY <4>2 DEF NoSockets
      <4> QED BY <3>1, <4>1, <4>3 DEF Shape, NetworkOK
    <3> QED BY <3>1, <3>2, <3>3, <3>4 DEF NetworkOK
  <2> QED BY <2>1, <2>3, <2>4, <2>5, <2>6 DEF Shape
<1> QED BY <1>3, <1>4, <1>5, <1>6, <1>7, <1>8

\* A thread of an element takes an item from its connection.
TakesEffect(e, k, i, partial) ==
  /\ sock' = sock /\ NetworkOK'
  /\ \A f \in Elements, kk \in Kinds : f # e \/ kk # k => conn'[f][kk] = conn[f][kk]
  /\ Len(conn'[e][k]) = Len(conn[e][k]) /\ DOMAIN conn'[e][k] = DOMAIN conn[e][k]
  /\ \A j \in DOMAIN conn[e][k] : j # i => conn'[e][k][j] = conn[e][k][j]
  /\ conn'[e][k][i] = [items |-> Tail(conn[e][k][i].items), partial |-> partial]

LEMMA TakesIs ==
  ASSUME NetworkOK, NEW e \in Elements, NEW k \in Kinds, NEW i \in DOMAIN conn[e][k],
         NEW partial \in Messages \cup {None}, conn[e][k][i].items # << >>,
         Takes(e, k, i, partial), up' = up, routerUp' = routerUp
  PROVE  TakesEffect(e, k, i, partial)
<1>1. conn \in [Elements -> [Kinds -> Seq(Connections)]] /\ conn[e][k] \in Seq(Connections)
  BY DEF NetworkOK
<1>2. conn[e][k][i] \in Connections
  BY <1>1, Indexed
<1> DEFINE c == [items |-> Tail(conn[e][k][i].items), partial |-> partial]
<1>3. c \in Connections
  BY <1>2, Taken DEF Connections
<1>4. conn' = [conn EXCEPT ![e] = [conn[e] EXCEPT ![k] = [conn[e][k] EXCEPT ![i] = c]]] /\ sock' = sock
  BY DEF Takes
<1> HIDE DEF c
<1>5. /\ [conn[e][k] EXCEPT ![i] = c] \in Seq(Connections) /\ [conn[e][k] EXCEPT ![i] = c] # << >>
      /\ Len([conn[e][k] EXCEPT ![i] = c]) = Len(conn[e][k])
      /\ DOMAIN [conn[e][k] EXCEPT ![i] = c] = DOMAIN conn[e][k]
      /\ \A j \in DOMAIN conn[e][k] : [conn[e][k] EXCEPT ![i] = c][j] = IF j = i THEN c ELSE conn[e][k][j]
  BY <1>1, <1>3, Replaced
<1>6. conn'[e][k] = [conn[e][k] EXCEPT ![i] = c]
      /\ \A f \in Elements, kk \in Kinds : f # e \/ kk # k => conn'[f][kk] = conn[f][kk]
  BY <1>1, <1>4
<1>7. conn' \in [Elements -> [Kinds -> Seq(Connections)]]
  BY <1>1, <1>4, <1>5
<1>8. NetworkOK'
  BY <1>4, <1>5, <1>6, <1>7 DEF NetworkOK
<1> QED BY <1>4, <1>5, <1>6, <1>8 DEF TakesEffect, c

\* An item an element can read, and the message collected before it.
LEMMA ItemRead ==
  ASSUME Shape, NEW e \in Elements, NEW k \in Kinds, NEW i \in DOMAIN conn[e][k],
         conn[e][k][i].items # << >>
  PROVE  /\ Head(conn[e][k][i].items) \in Items
         /\ Head(conn[e][k][i].items) = conn[e][k][i].items[1]
         /\ conn[e][k][i].items \in Seq(Items)
         /\ conn[e][k][i].partial \in Messages \cup {None}
<1>1. conn[e][k] \in Seq(Connections)
  BY DEF Shape, NetworkOK
<1>2. conn[e][k][i] \in Connections
  BY <1>1, Indexed
<1>3. conn[e][k][i].items \in Seq(Items) /\ conn[e][k][i].partial \in Messages \cup {None}
  BY <1>2 DEF Connections
<1> QED BY <1>3, Taken

LEMMA ReadDataShape ==
  ASSUME Shape, NEW e \in Elements, ReadData(e)
  PROVE  Shape'
<1>1. PICK i \in DOMAIN conn[e]["data"] :
        /\ conn[e]["data"][i].items # << >>
        /\ \/ newMessageInRouter(e, i, Head(conn[e]["data"][i].items))
           \/ StartMessage(e, i, Head(conn[e]["data"][i].items))
           \/ EndOfMessages(e, i, Head(conn[e]["data"][i].items))
  BY DEF ReadData
<1>2. UNCHANGED <<up, unavailableElements, link, locked, routerVars, server, bounds>>
  BY DEF ReadData
<1> DEFINE item == Head(conn[e]["data"][i].items)
           c == conn[e]["data"][i]
<1>3. "data" \in Kinds
  BY DEF Kinds
<1>4. item \in Items /\ c.partial \in Messages \cup {None}
  BY <1>1, <1>3, ItemRead
<1>5. inbox[e] \in Seq(Messages) /\ \A m \in Messages : Append(inbox[e], m) \in Seq(Messages)
  BY Appended DEF Shape, ClientsOK
<1>6. ASSUME newMessageRead(e, c.partial)
      PROVE  inbox' \in [Elements -> Seq(Messages)] /\ unread' \in [Elements -> Int]
  BY <1>4, <1>5, <1>6 DEF newMessageRead, Shape, ClientsOK
<1>7. inbox' \in [Elements -> Seq(Messages)] /\ unread' \in [Elements -> Int]
  <2>1. CASE newMessageInRouter(e, i, item)
    <3>1. item.n \in Nat
      BY <1>4, <2>1, ItemIs DEF newMessageInRouter
    <3> QED BY <2>1, <3>1 DEF newMessageInRouter, Shape, ClientsOK
  <2>2. CASE StartMessage(e, i, item)
    BY <1>6, <2>2 DEF StartMessage
  <2>3. CASE EndOfMessages(e, i, item)
    BY <1>6, <2>3 DEF EndOfMessages
  <2> QED BY <1>1, <2>1, <2>2, <2>3
<1>8. NetworkOK'
  <2>1. \E p \in Messages \cup {None} : Takes(e, "data", i, p)
    BY <1>1, <1>4, ItemIs DEF newMessageInRouter, StartMessage, EndOfMessages
  <2>2. NetworkOK /\ up' = up /\ routerUp' = routerUp
    BY <1>2 DEF Shape, routerVars
  <2> QED BY <1>1, <1>3, <2>1, <2>2, TakesIs DEF TakesEffect
<1>9. ClientsOK'
  BY <1>2, <1>7 DEF Shape, ClientsOK
<1>10. RouterOK' /\ QueuesOK' /\ ServerOK' /\ BoundsOK'
  BY <1>2 DEF routerVars, Shape, RouterOK, TableOK, QueuesOK, ServerOK, BoundsOK,
              table, queues, marks, bounds
<1> QED BY <1>8, <1>9, <1>10 DEF Shape

LEMMA ReadControlShape ==
  ASSUME Shape, NEW e \in Elements, ReadControl(e)
  PROVE  Shape'
<1>1. PICK i \in DOMAIN conn[e]["control"] :
        /\ conn[e]["control"][i].items # << >>
        /\ \/ OtherElement(e, Head(conn[e]["control"][i].items))
           \/ RouterStillThere(e, Head(conn[e]["control"][i].items))
           \/ RouterAvailable(e, Head(conn[e]["control"][i].items))
           \/ RouterRecovered(e, Head(conn[e]["control"][i].items))
        /\ Takes(e, "control", i, None)
  BY DEF ReadControl
<1>2. UNCHANGED <<up, inbox, routerVars, bounds>>
  BY DEF ReadControl
<1> DEFINE item == Head(conn[e]["control"][i].items)
<1>3. NetworkOK'
  <2>1. "control" \in Kinds /\ None \in Messages \cup {None}
    BY DEF Kinds
  <2>2. NetworkOK /\ up' = up /\ routerUp' = routerUp
    BY <1>2 DEF Shape, routerVars
  <2> QED BY <1>1, <2>1, <2>2, TakesIs DEF TakesEffect
<1>4. ServerOK' /\ ClientsOK'
  <2>1. CASE OtherElement(e, item) \/ RouterStillThere(e, item)
    BY <1>2, <2>1 DEF OtherElement, RouterStillThere, Shape, ServerOK, ClientsOK, routerVars
  <2>2. ServerOK /\ ClientsOK /\ up' \in [Elements -> BOOLEAN] /\ routerUp' = routerUp
        /\ [op |-> "LOGIN"] \in Commands
    BY <1>2, CommandIs DEF Shape, ClientsOK, routerVars
  <2>3. CASE RouterAvailable(e, item)
    BY <1>2, <2>2, <2>3, CommandShape DEF RouterAvailable
  <2>4. CASE RouterRecovered(e, item)
    BY <1>2, <2>2, <2>4, CommandShape DEF RouterRecovered
  <2> QED BY <1>1, <2>1, <2>3, <2>4
<1>5. RouterOK' /\ QueuesOK' /\ BoundsOK'
  BY <1>2 DEF routerVars, Shape, RouterOK, TableOK, QueuesOK, BoundsOK, table, queues, marks, bounds
<1> QED BY <1>3, <1>4, <1>5 DEF Shape

LEMMA ShapeStep == Shape /\ [Next]_vars => Shape'
<1> SUFFICES ASSUME Shape, [Next]_vars PROVE Shape'
  OBVIOUS
<1>1. CASE UNCHANGED vars
  BY <1>1 DEF vars, clients, table, queues, marks, network, bounds, Shape, ClientsOK, RouterOK,
              TableOK, QueuesOK, ServerOK, NetworkOK, BoundsOK
<1>2. CASE Environment
  BY <1>2, ElementShape, LoopShape, FailureShape DEF Environment
<1>3. ASSUME NEW e \in Elements,
             RouterThread(e) \/ PopNull(e) \/ retrieveMessages(e) \/ ReadData(e) \/ ReadControl(e)
      PROVE  Shape'
  BY <1>3, ThreadShape, FailureShape, ElementShape, ReadDataShape, ReadControlShape
<1>4. CASE RouterLoop \/ RouterStart \/ NotifyRecovery
  BY <1>4, LoopShape, FailureShape
<1> QED BY <1>1, <1>2, <1>3, <1>4 DEF Next

LEMMA ShapeInit == Init => Shape
<1> SUFFICES ASSUME Init PROVE Shape
  OBVIOUS
<1>1. ClientsOK
  BY EmptySeq DEF Init, ClientsOK, SocketStates
<1>2. RouterOK
  BY IdsAssumption DEF Init, RouterOK, TableOK, table
<1>3. QueuesOK
  BY IdsAssumption, EmptySeq DEF Init, QueuesOK
<1>4. ServerOK
  <2>1. Serving(<< >>) \in ThreadStates /\ Serving(<< >>).pc = "idle"
    BY EmptySeq DEF Serving, ThreadStates, Pcs
  <2>2. <<Serving(<< >>)>> \in Seq(ThreadStates) /\ << >> \in Seq(ThreadStates)
    BY <2>1
  <2>3. server = [e \in Elements |-> IF e \in Started THEN <<Serving(<< >>)>> ELSE << >>]
    BY DEF Init
  <2>4. server \in [Elements -> Seq(ThreadStates)]
    BY <2>2, <2>3
  <2>5. \A e \in Elements : \A i \in DOMAIN server[e] : server[e][i].pc = "idle"
    BY <2>1, <2>3
  <2>6. \A e \in Elements : link[e] = "open" => server[e] # << >>
    BY <2>3 DEF Init
  <2> QED BY <2>4, <2>5, <2>6 DEF Init, ServerOK
<1>5. NetworkOK
  BY EmptySeq DEF Init, NetworkOK, NoSockets, SocketStates
<1>6. BoundsOK
  BY BudgetAssumption DEF Init, BoundsOK, Events
<1> QED BY <1>1, <1>2, <1>3, <1>4, <1>5, <1>6 DEF Shape

\* All parts of the system keep their types, and sockets, threads and queues
\* belong to processes that run, whatever fails and comes back (Router,
\* RouterServerSocket, NetworkElement, ServerSocket).
THEOREM AlwaysShape == MessagingSpec => []Shape
BY ShapeInit, ShapeStep, PTL DEF MessagingSpec

\* The type invariant of the module follows from it.
THEOREM MessagingTypes == MessagingSpec => []MessagingTypeOK
<1>1. Shape => MessagingTypeOK
  <2> SUFFICES ASSUME Shape PROVE MessagingTypeOK
    OBVIOUS
  <2>1. \A e \in Elements : \A j \in DOMAIN inbox[e] : inbox[e][j] \in Messages
    BY Indexed DEF Shape, ClientsOK
  <2> QED BY <2>1 DEF Shape, ClientsOK, RouterOK, TableOK, QueuesOK, ServerOK, NetworkOK,
                      MessagingTypeOK, SocketStates
<1> QED BY <1>1, AlwaysShape, PTL

-----------------------------------------------------------------------------
(* Messages and the places where they are                                  *)

\* Message m is in the named place.
Coming(e, i, j, m) ==
  /\ i \in DOMAIN server[e] /\ j \in DOMAIN server[e][i].in
  /\ server[e][i].in[j].op = "NEW" /\ m = server[e][i].in[j].msg
Handled(e, i, m) ==
  /\ i \in DOMAIN server[e] /\ server[e][i].pc \in {"park", "push"}
  /\ m = server[e][i].cmd.msg
InQueue(e, j, m) == j \in DOMAIN queue[e] /\ m = queue[e][j]
Going(e, i, j, m) ==
  /\ i \in DOMAIN conn[e]["data"] /\ j \in DOMAIN conn[e]["data"][i].items
  /\ conn[e]["data"][i].items[j].type = "MESSAGE" /\ m = conn[e]["data"][i].items[j].msg
Collected(e, i, m) ==
  /\ i \in DOMAIN conn[e]["data"] /\ conn[e]["data"][i].partial # None
  /\ m = conn[e]["data"][i].partial
IsRead(e, j, m) == j \in DOMAIN inbox[e] /\ m = inbox[e][j]

PlaceSet == {"coming", "handled", "queued", "going", "partial", "read"} \X Elements \X Nat \X Nat

Holds(p, m) ==
  \/ p[1] = "coming" /\ Coming(p[2], p[3], p[4], m)
  \/ p[1] = "handled" /\ p[4] = 0 /\ Handled(p[2], p[3], m)
  \/ p[1] = "queued" /\ p[3] = 0 /\ InQueue(p[2], p[4], m)
  \/ p[1] = "going" /\ Going(p[2], p[3], p[4], m)
  \/ p[1] = "partial" /\ p[4] = 0 /\ Collected(p[2], p[3], m)
  \/ p[1] = "read" /\ p[3] = 0 /\ IsRead(p[2], p[4], m)

\* No number is in two places, ...
Unique ==
  \A p, q \in PlaceSet, m1, m2 \in Messages :
    Holds(p, m1) /\ Holds(q, m2) /\ m1.n = m2.n => p = q

\* ... every number has been given out, and a message is with its sender or its
\* target.
Known ==
  \A p \in PlaceSet, m \in Messages :
    Holds(p, m) =>
      /\ m.n < sent
      /\ IF p[1] \in {"coming", "handled"} THEN m.from = p[2] ELSE m.to = p[2]

\* What a step leaves where it is, or takes away.
ServerKeeps ==
  /\ \A e \in Elements, i, j \in Nat, m \in Messages : Coming(e, i, j, m)' => Coming(e, i, j, m)
  /\ \A e \in Elements, i \in Nat, m \in Messages : Handled(e, i, m)' => Handled(e, i, m)
QueueKeeps == \A e \in Elements, j \in Nat, m \in Messages : InQueue(e, j, m)' => InQueue(e, j, m)
ConnKeeps ==
  /\ \A e \in Elements, i, j \in Nat, m \in Messages : Going(e, i, j, m)' => Going(e, i, j, m)
  /\ \A e \in Elements, i \in Nat, m \in Messages : Collected(e, i, m)' => Collected(e, i, m)
InboxKeeps == \A e \in Elements, j \in Nat, m \in Messages : IsRead(e, j, m)' => IsRead(e, j, m)

\* Thread i of e reads its next command.
ServerReads(e, i) ==
  /\ \A f \in Elements, k, j \in Nat, m \in Messages :
       Coming(f, k, j, m)' => j >= 1 /\ IF f = e /\ k = i THEN Coming(f, k, j + 1, m)
                                         ELSE Coming(f, k, j, m)
  /\ \A f \in Elements, k \in Nat, m \in Messages :
       Handled(f, k, m)' => IF f = e /\ k = i THEN Coming(f, k, 1, m) ELSE Handled(f, k, m)

\* Thread i of e puts the message it has into the queue of its target.
QueueGets(e, i) ==
  \A f \in Elements, j \in Nat, m \in Messages :
    InQueue(f, j, m)' => InQueue(f, j, m) \/ (j = Len(queue[f]) + 1 /\ f = m.to /\ Handled(e, i, m))

\* The first message in the queue of e is taken, ...
QueueGives(e) ==
  \A f \in Elements, j \in Nat, m \in Messages :
    InQueue(f, j, m)' => j >= 1 /\ IF f = e THEN InQueue(f, j + 1, m) ELSE InQueue(f, j, m)

\* ... and written to e on its last connection.
ConnGets(e) ==
  /\ \A f \in Elements, i, j \in Nat, m \in Messages :
       Going(f, i, j, m)' =>
         \/ Going(f, i, j, m)
         \/ /\ f = e /\ i = Len(conn[e]["data"]) /\ j = Len(conn[e]["data"][i].items) + 1
            /\ InQueue(e, 1, m)
  /\ \A f \in Elements, i \in Nat, m \in Messages : Collected(f, i, m)' => Collected(f, i, m)

\* Thread i of the element e takes an item; what it had collected is read.
ConnGives(e, i) ==
  /\ \A f \in Elements, k, j \in Nat, m \in Messages :
       Going(f, k, j, m)' => j >= 1 /\ IF f = e /\ k = i THEN Going(f, k, j + 1, m)
                                        ELSE Going(f, k, j, m)
  /\ \/ /\ \A f \in Elements, k \in Nat, m \in Messages : Collected(f, k, m)' => Collected(f, k, m)
        /\ InboxKeeps
     \/ /\ \A f \in Elements, k \in Nat, m \in Messages :
             Collected(f, k, m)' => IF f = e /\ k = i THEN Going(f, k, 1, m) ELSE Collected(f, k, m)
        /\ \A f \in Elements, j \in Nat, m \in Messages :
             IsRead(f, j, m)' =>
               IsRead(f, j, m) \/ (f = e /\ j = Len(inbox[e]) + 1 /\ Collected(e, i, m))

\* A thread that has its command goes on, and is done with its message.
LEMMA BecomeKeeps ==
  ASSUME ServerOK, NEW e \in Elements, NEW i \in DOMAIN server[e], NEW pc \in Pcs, NEW cmd,
         BecomeEffect(e, i, pc, cmd), server[e][i].pc # "idle", pc \notin {"park", "push"}
  PROVE  ServerKeeps /\ \A m : ~ Handled(e, i, m)'
<1>1. ASSUME NEW f \in Elements, NEW k \in DOMAIN server'[f]
      PROVE  /\ k \in DOMAIN server[f] /\ server'[f][k].in = server[f][k].in
             /\ server'[f][k].pc \in {"park", "push"} =>
                  server'[f][k] = server[f][k] /\ ~ (f = e /\ k = i)
  BY DEF BecomeEffect
<1>2. \A f \in Elements, k, j \in Nat, m \in Messages : Coming(f, k, j, m)' => Coming(f, k, j, m)
  BY <1>1 DEF Coming
<1>3. \A f \in Elements, k \in Nat, m \in Messages : Handled(f, k, m)' => Handled(f, k, m)
  BY <1>1 DEF Handled
<1>4. \A m : ~ Handled(e, i, m)'
  BY DEF Handled, BecomeEffect
<1> QED BY <1>2, <1>3, <1>4 DEF ServerKeeps

\* A thread that reads its next command, which it keeps if it is a message.
LEMMA BecomeReads ==
  ASSUME ServerOK, NEW e \in Elements, NEW i \in DOMAIN server[e], NEW pc \in Pcs, NEW cmd,
         BecomeEffect(e, i, pc, cmd), server[e][i].pc = "idle", server[e][i].in # << >>,
         pc \in {"park", "push"} => cmd = server[e][i].in[1] /\ cmd.op = "NEW"
  PROVE  ServerReads(e, i)
<1>0. server[e] \in Seq(ThreadStates) /\ server[e][i] \in ThreadStates
  BY Indexed DEF ServerOK
<1>1. server[e][i].in \in Seq(Commands)
  BY <1>0 DEF ThreadStates
<1>2. /\ Len(server[e][i].in) \in Nat /\ Len(server[e][i].in) >= 1
      /\ DOMAIN server[e][i].in = 1 .. Len(server[e][i].in)
      /\ server'[e][i].in = Tail(server[e][i].in)
      /\ DOMAIN server'[e][i].in = 1 .. Len(server[e][i].in) - 1
      /\ \A j \in 1 .. Len(server[e][i].in) - 1 : server'[e][i].in[j] = server[e][i].in[j + 1]
  BY <1>1, Taken DEF BecomeEffect
<1>3. ASSUME NEW f \in Elements, NEW k \in DOMAIN server'[f]
      PROVE  /\ k \in DOMAIN server[f] /\ (f # e \/ k # i => server'[f][k] = server[f][k])
             /\ server'[f][k].in \in Seq(Commands)
  <2>1. server'[f] \in Seq(ThreadStates)
    BY DEF BecomeEffect
  <2>2. server'[f][k] \in ThreadStates
    BY <2>1, Indexed
  <2> QED BY <2>2 DEF BecomeEffect, ThreadStates
<1>4. ASSUME NEW f \in Elements, NEW k \in Nat, NEW j \in Nat, NEW m \in Messages, Coming(f, k, j, m)'
      PROVE  j >= 1 /\ IF f = e /\ k = i THEN Coming(f, k, j + 1, m) ELSE Coming(f, k, j, m)
  <2>1. k \in DOMAIN server'[f] /\ j \in DOMAIN server'[f][k].in
    BY <1>4 DEF Coming
  <2>2. j >= 1
    BY <1>3, <2>1, Indexed
  <2>3. CASE f = e /\ k = i
    <3>1. j + 1 \in DOMAIN server[e][i].in /\ server[e][i].in[j + 1] = server'[e][i].in[j]
      BY <1>1, <1>2, <2>1, <2>3, TakenAt
    <3> QED BY <1>3, <1>4, <2>1, <2>2, <2>3, <3>1 DEF Coming
  <2>4. CASE ~ (f = e /\ k = i)
    BY <1>3, <1>4, <2>1, <2>2, <2>4 DEF Coming
  <2> QED BY <2>3, <2>4
<1>5. ASSUME NEW f \in Elements, NEW k \in Nat, NEW m \in Messages, Handled(f, k, m)'
      PROVE  IF f = e /\ k = i THEN Coming(f, k, 1, m) ELSE Handled(f, k, m)
  <2>1. k \in DOMAIN server'[f]
    BY <1>5 DEF Handled
  <2>2. CASE f = e /\ k = i
    BY <1>2, <1>5, <2>2 DEF Handled, Coming, BecomeEffect
  <2>3. CASE ~ (f = e /\ k = i)
    BY <1>3, <1>5, <2>1, <2>3 DEF Handled
  <2> QED BY <2>2, <2>3
<1> QED BY <1>4, <1>5 DEF ServerReads

\* What arrives is not a message, or it is at the end of the last connection.
LEMMA ArrivesKeeps ==
  ASSUME ServerOK, NEW e \in Elements, NEW cmd \in Commands, ArrivesEffect(e, cmd)
  PROVE  /\ cmd.op # "NEW" => ServerKeeps
         /\ \A f \in Elements, i, j \in Nat, m \in Messages : Coming(f, i, j, m)' =>
              \/ Coming(f, i, j, m)
              \/ /\ f = e /\ i = Len(server'[e]) /\ j = Len(server'[e][i].in) /\ m = cmd.msg
         /\ \A f \in Elements, i \in Nat, m \in Messages : Handled(f, i, m)' => Handled(f, i, m)
<1>0. /\ server[e] \in Seq(ThreadStates) /\ Len(server[e]) \in Nat /\ DOMAIN server[e] = 1 .. Len(server[e])
      /\ \A i \in DOMAIN server[e] : server[e][i].in \in Seq(Commands)
  <2>1. server[e] \in Seq(ThreadStates)
    BY DEF ServerOK
  <2>2. \A i \in DOMAIN server[e] : server[e][i] \in ThreadStates
    BY <2>1, Indexed
  <2> QED BY <2>1, <2>2, Indexed DEF ThreadStates
<1>1. ASSUME NEW i \in DOMAIN server'[e]
      PROVE  \/ /\ i \in DOMAIN server[e] /\ server'[e][i].in = server[e][i].in
                /\ server'[e][i].pc = server[e][i].pc /\ server'[e][i].cmd = server[e][i].cmd
             \/ /\ i \in DOMAIN server[e] /\ i = Len(server'[e])
                /\ server'[e][i].in = Append(server[e][i].in, cmd)
                /\ server'[e][i].pc = server[e][i].pc /\ server'[e][i].cmd = server[e][i].cmd
             \/ i = Len(server'[e]) /\ server'[e][i].in = <<cmd>> /\ server'[e][i].pc = "idle"
  <2>1. PICK n \in Nat : n = Len(server[e]) /\ DOMAIN server[e] = 1 .. n
    BY <1>0
  <2>2. CASE i \in DOMAIN server[e] /\ server'[e][i] = server[e][i]
    BY <2>2
  <2>3. CASE /\ n = Len(server'[e]) /\ DOMAIN server'[e] = 1 .. n
             /\ server'[e][n].pc = server[e][n].pc /\ server'[e][n].cmd = server[e][n].cmd
             /\ server'[e][n].in = Append(server[e][n].in, cmd)
             /\ \A j \in DOMAIN server[e] : j # n => server'[e][j] = server[e][j]
    <3>1. CASE i = n
      BY <1>1, <2>1, <2>3, <3>1
    <3>2. CASE i # n
      BY <1>1, <2>1, <2>3, <3>2
    <3> QED BY <3>1, <3>2
  <2>4. CASE /\ Len(server'[e]) = n + 1 /\ DOMAIN server'[e] = 1 .. n + 1
             /\ \A j \in DOMAIN server[e] : server'[e][j] = server[e][j]
             /\ server'[e][n + 1] = Serving(<<cmd>>)
    <3>1. CASE i = n + 1
      BY <2>4, <3>1 DEF Serving
    <3>2. CASE i # n + 1
      <4>1. i \in 1 .. n
        BY <1>1, <2>4, <3>2
      <4> QED BY <2>1, <2>4, <4>1
    <3> QED BY <3>1, <3>2
  <2> QED BY <2>1, <2>3, <2>4 DEF ArrivesEffect
<1>2. ASSUME NEW i \in Nat, NEW j \in Nat, NEW m \in Messages, Coming(e, i, j, m)'
      PROVE  \/ Coming(e, i, j, m)
             \/ /\ i = Len(server'[e]) /\ j = Len(server'[e][i].in) /\ m = cmd.msg /\ cmd.op = "NEW"
  <2>1. i \in DOMAIN server'[e] /\ j \in DOMAIN server'[e][i].in
    BY <1>2 DEF Coming
  <2>2. CASE i \in DOMAIN server[e] /\ server'[e][i].in = server[e][i].in
    BY <1>2, <2>2 DEF Coming
  <2>3. CASE /\ i \in DOMAIN server[e] /\ i = Len(server'[e])
             /\ server'[e][i].in = Append(server[e][i].in, cmd)
    <3>1. \/ j \in DOMAIN server[e][i].in /\ server'[e][i].in[j] = server[e][i].in[j]
          \/ j = Len(server'[e][i].in) /\ server'[e][i].in[j] = cmd
      <4>1. server[e][i].in \in Seq(Commands) /\ j \in DOMAIN Append(server[e][i].in, cmd)
        BY <1>0, <2>1, <2>3
      <4> QED BY <2>3, <4>1, AppendedAt
    <3> QED BY <1>2, <2>3, <3>1 DEF Coming
  <2>4. CASE i = Len(server'[e]) /\ server'[e][i].in = <<cmd>>
    <3>1. DOMAIN <<cmd>> = {1} /\ Len(<<cmd>>) = 1 /\ <<cmd>>[1] = cmd
      OBVIOUS
    <3> QED BY <1>2, <2>1, <2>4, <3>1 DEF Coming
  <2> QED BY <1>1, <2>1, <2>2, <2>3, <2>4
<1>3. ASSUME NEW i \in Nat, NEW m \in Messages, Handled(e, i, m)' PROVE Handled(e, i, m)
  BY <1>1, <1>3 DEF Handled
<1>4. \A f \in Elements, i, j \in Nat, m \in Messages : f # e =>
        (Coming(f, i, j, m)' => Coming(f, i, j, m)) /\ (Handled(f, i, m)' => Handled(f, i, m))
  BY DEF Coming, Handled, ArrivesEffect
<1>5. \A f \in Elements, i \in Nat, m \in Messages : Handled(f, i, m)' => Handled(f, i, m)
  BY <1>3, <1>4
<1>6. \A f \in Elements, i, j \in Nat, m \in Messages : Coming(f, i, j, m)' =>
              \/ Coming(f, i, j, m)
              \/ /\ f = e /\ i = Len(server'[e]) /\ j = Len(server'[e][i].in) /\ m = cmd.msg
                 /\ cmd.op = "NEW"
  BY <1>2, <1>4
<1> QED BY <1>5, <1>6 DEF ServerKeeps

\* Where the items of a connection are after something was written.
LEMMA WrittenAt ==
  ASSUME NEW cs \in Seq(Connections), cs # << >>, NEW item \in Items, NEW i \in DOMAIN Written(cs, item)
  PROVE  /\ i \in DOMAIN cs /\ Written(cs, item)[i].partial = cs[i].partial
         /\ \A j \in DOMAIN Written(cs, item)[i].items :
              \/ j \in DOMAIN cs[i].items /\ Written(cs, item)[i].items[j] = cs[i].items[j]
              \/ /\ i = Len(cs) /\ j = Len(cs[i].items) + 1
                 /\ Written(cs, item)[i].items[j] = item
<1>1. /\ DOMAIN Written(cs, item) = DOMAIN cs
      /\ Len(cs) \in DOMAIN cs
      /\ Written(cs, item)[Len(cs)] = [cs[Len(cs)] EXCEPT !.items = Append(@, item)]
      /\ \A k \in DOMAIN cs : k # Len(cs) => Written(cs, item)[k] = cs[k]
  BY WrittenIs
<1>2. CASE i = Len(cs)
  <2>1. cs[i] \in Connections
    BY <1>1, <1>2, Indexed
  <2>2. /\ Written(cs, item)[i].partial = cs[i].partial
        /\ Written(cs, item)[i].items = Append(cs[i].items, item)
        /\ cs[i].items \in Seq(Items)
    BY <1>1, <1>2, <2>1 DEF Connections
  <2>3. ASSUME NEW j \in DOMAIN Written(cs, item)[i].items
        PROVE  \/ j \in DOMAIN cs[i].items /\ Written(cs, item)[i].items[j] = cs[i].items[j]
               \/ j = Len(cs[i].items) + 1 /\ Written(cs, item)[i].items[j] = item
    BY <2>2, AppendedAt
  <2> QED BY <1>1, <1>2, <2>2, <2>3
<1>3. CASE i # Len(cs)
  BY <1>1, <1>3
<1> QED BY <1>2, <1>3

LEMMA NewAt ==
  ASSUME NEW cs \in Seq(Connections), NEW i \in DOMAIN Append(cs, NewConnection)
  PROVE  \/ i \in DOMAIN cs /\ Append(cs, NewConnection)[i] = cs[i]
         \/ /\ i = Len(Append(cs, NewConnection))
            /\ Append(cs, NewConnection)[i].partial = None
            /\ Append(cs, NewConnection)[i].items = << >>
BY AppendedAt, NewConnectionIs

\* Notifications bring no message.
LEMMA ExtendedAt ==
  ASSUME NEW cs \in Seq(Connections), NEW cs2, NEW item, Extended(cs, cs2, item),
         item.type # "MESSAGE", NEW i \in DOMAIN cs2
  PROVE  /\ cs2[i].partial # None => i \in DOMAIN cs /\ cs2[i].partial = cs[i].partial
         /\ \A j \in DOMAIN cs2[i].items : cs2[i].items[j].type = "MESSAGE" =>
              i \in DOMAIN cs /\ j \in DOMAIN cs[i].items /\ cs2[i].items[j] = cs[i].items[j]
<1>0. DOMAIN << >> = {}
  OBVIOUS
<1>1. Append(cs, NewConnection) \in Seq(Connections) /\ Append(cs, NewConnection) # << >>
  BY Appended, NewConnectionIs
<1>2. CASE cs2 = cs
  BY <1>2
<1>3. CASE cs2 = Append(cs, NewConnection)
  BY <1>0, <1>3, NewAt
<1>4. CASE item \in Items /\ cs # << >> /\ cs2 = Written(cs, item)
  BY <1>4, WrittenAt
<1>5. CASE item \in Items /\ cs2 = Written(Append(cs, NewConnection), item)
  <2>1. PICK ds \in Seq(Connections) : ds = Append(cs, NewConnection) /\ ds # << >>
    BY <1>1
  <2>2. i \in DOMAIN Written(ds, item) /\ cs2 = Written(ds, item)
    BY <1>5, <2>1
  <2>3. i \in DOMAIN ds /\ cs2[i].partial = ds[i].partial
        /\ \A j \in DOMAIN cs2[i].items : cs2[i].items[j].type = "MESSAGE" =>
              j \in DOMAIN ds[i].items /\ cs2[i].items[j] = ds[i].items[j]
    <3>1. item \in Items /\ ds # << >>
      BY <1>5, <2>1
    <3>2. i \in DOMAIN ds /\ cs2[i].partial = ds[i].partial
          /\ \A j \in DOMAIN cs2[i].items :
              \/ j \in DOMAIN ds[i].items /\ cs2[i].items[j] = ds[i].items[j]
              \/ cs2[i].items[j] = item
      BY <2>2, <3>1, WrittenAt
    <3> QED BY <3>2
  <2>4. \/ i \in DOMAIN cs /\ ds[i] = cs[i]
        \/ ds[i].partial = None /\ ds[i].items = << >>
    BY <2>1, <2>3, NewAt
  <2> QED BY <1>0, <2>3, <2>4
<1> QED BY <1>2, <1>3, <1>4, <1>5 DEF Extended

LEMMA WriteKeeps ==
  ASSUME NetworkOK, NEW To \in SUBSET Elements, NEW k \in Kinds, NEW broken, NEW silent,
         NEW item, item \in Items \/ To \subseteq silent, item.type # "MESSAGE",
         Write(To, k, broken, item, silent)
  PROVE  ConnKeeps
<1>1. "data" \in Kinds
  BY DEF Kinds
<1>2. \A e \in Elements : Extended(conn[e]["data"], conn'[e]["data"], item) /\ conn[e]["data"] \in Seq(Connections)
  BY <1>1, WriteExtends DEF NetworkOK
<1>3. ASSUME NEW e \in Elements, NEW i \in DOMAIN conn'[e]["data"]
      PROVE  LET cs == conn[e]["data"]  cs2 == conn'[e]["data"] IN
         /\ cs2[i].partial # None => i \in DOMAIN cs /\ cs2[i].partial = cs[i].partial
         /\ \A j \in DOMAIN cs2[i].items : cs2[i].items[j].type = "MESSAGE" =>
              i \in DOMAIN cs /\ j \in DOMAIN cs[i].items /\ cs2[i].items[j] = cs[i].items[j]
  BY <1>2, ExtendedAt
<1>4. \A e \in Elements, i, j \in Nat, m \in Messages : Going(e, i, j, m)' => Going(e, i, j, m)
  BY <1>3 DEF Going
<1>5. \A e \in Elements, i \in Nat, m \in Messages : Collected(e, i, m)' => Collected(e, i, m)
  BY <1>3 DEF Collected
<1> QED BY <1>4, <1>5 DEF ConnKeeps

\* A socket for data that is not written to, or gets no message.
LEMMA ConnUnchanged ==
  ASSUME \A e \in Elements : conn'[e]["data"] = conn[e]["data"] \/ conn'[e]["data"] = << >>
  PROVE  ConnKeeps
<1>1. DOMAIN << >> = {}
  OBVIOUS
<1> QED BY <1>1 DEF ConnKeeps, Going, Collected

LEMMA ArrivalKeeps ==
  ASSUME NetworkOK, NEW e \in Elements, NEW n \in Nat, NotifyMessageArrival(e, n)
  PROVE  ConnKeeps
<1>1. CASE UNCHANGED <<network, table, marks>>
  BY <1>1, ConnUnchanged DEF network
<1>2. ASSUME NEW broken \in SUBSET {e},
             Write({e}, "data", broken, [type |-> "NOTIFY", n |-> n], {})
      PROVE  ConnKeeps
  <2>1. {e} \in SUBSET Elements /\ "data" \in Kinds /\ [type |-> "NOTIFY", n |-> n] \in Items
        /\ [type |-> "NOTIFY", n |-> n].type # "MESSAGE"
    BY ItemIs DEF Kinds
  <2> QED BY <1>2, <2>1, WriteKeeps
<1> QED BY <1>1, <1>2 DEF NotifyMessageArrival

LEMMA AvailabilityKeeps ==
  ASSUME NetworkOK, TableOK, NEW id \in Elements \cup {Router},
         NEW type \in {"AVAILABLE", "UNAVAILABLE"}, NotifyElementAvailability(id, type)
  PROVE  ConnKeeps
<1> DEFINE To == {e \in registered : e # id /\ (e \notin unavailableIds \/ id = Router)}
           filtered == {e \in {Proxy} : id \in Internal}
           item == [type |-> type, id |-> id]
<1>1. \E broken : Write(To, "control", broken, item, filtered)
  BY DEF NotifyElementAvailability
<1>2. To \in SUBSET Elements /\ "control" \in Kinds /\ item \in Items /\ item.type # "MESSAGE"
  BY ItemIs DEF Kinds, TableOK
<1> HIDE DEF To, filtered, item
<1> QED BY <1>1, <1>2, WriteKeeps

\* Delivering a message.
LEMMA WriteReturnsGets ==
  ASSUME NetworkOK, NEW e \in Elements, NEW item \in Items, WriteReturns(e, item),
         up' = up, routerUp' = routerUp
  PROVE  /\ item.type # "MESSAGE" => ConnKeeps
         /\ item.type = "MESSAGE" /\ InQueue(e, 1, item.msg) => ConnGets(e)
<1>1. "data" \in Kinds
  BY DEF Kinds
<1>2. \A f \in Elements : conn[f]["data"] \in Seq(Connections)
  BY <1>1 DEF NetworkOK
<1>3. \A f \in Elements :
        conn'[f]["data"] = IF f = e /\ sock[e]["data"] = "open"
                           THEN Written(conn[e]["data"], item) ELSE conn[f]["data"]
  BY <1>1, WriteReturnsShape
<1>4. sock[e]["data"] = "open" => conn[e]["data"] # << >>
  BY <1>1 DEF NetworkOK
<1>5. ASSUME NEW f \in Elements, NEW i \in DOMAIN conn'[f]["data"]
      PROVE  LET cs == conn[f]["data"]  cs2 == conn'[f]["data"] IN
         /\ i \in DOMAIN cs /\ cs2[i].partial = cs[i].partial
         /\ \A j \in DOMAIN cs2[i].items :
              \/ j \in DOMAIN cs[i].items /\ cs2[i].items[j] = cs[i].items[j]
              \/ f = e /\ i = Len(cs) /\ j = Len(cs[i].items) + 1 /\ cs2[i].items[j] = item
  <2>1. CASE conn'[f]["data"] = conn[f]["data"]
    BY <2>1
  <2>2. CASE f = e /\ sock[e]["data"] = "open"
    <3>1. PICK cs \in Seq(Connections) : cs = conn[e]["data"] /\ cs # << >>
      BY <1>2, <1>4, <2>2
    <3>2. PICK cs2 : cs2 = conn'[e]["data"] /\ cs2 = Written(cs, item)
      BY <1>3, <2>2, <3>1
    <3>3. i \in DOMAIN Written(cs, item)
      BY <2>2, <3>2
    <3>4. /\ i \in DOMAIN cs /\ cs2[i].partial = cs[i].partial
          /\ \A j \in DOMAIN cs2[i].items :
              \/ j \in DOMAIN cs[i].items /\ cs2[i].items[j] = cs[i].items[j]
              \/ i = Len(cs) /\ j = Len(cs[i].items) + 1 /\ cs2[i].items[j] = item
      BY <3>1, <3>2, <3>3, WrittenAt
    <3> QED BY <2>2, <3>1, <3>2, <3>4
  <2> QED BY <1>3, <2>1, <2>2
<1>6. \A f \in Elements, i \in Nat, m \in Messages : Collected(f, i, m)' => Collected(f, i, m)
  BY <1>5 DEF Collected
<1>7. \A f \in Elements, i, j \in Nat, m \in Messages : Going(f, i, j, m)' =>
         \/ Going(f, i, j, m)
         \/ /\ f = e /\ i = Len(conn[e]["data"]) /\ j = Len(conn[e]["data"][i].items) + 1
            /\ item.type = "MESSAGE" /\ m = item.msg
  BY <1>5 DEF Going
<1> QED BY <1>6, <1>7 DEF ConnKeeps, ConnGets

\* Taking an item off a connection.
LEMMA TakesGives ==
  ASSUME NetworkOK, NEW e \in Elements, NEW i \in DOMAIN conn[e]["data"],
         NEW partial, conn[e]["data"][i].items # << >>, TakesEffect(e, "data", i, partial)
  PROVE  /\ \A f \in Elements, k, j \in Nat, m \in Messages :
              Going(f, k, j, m)' => j >= 1 /\ IF f = e /\ k = i THEN Going(f, k, j + 1, m)
                                               ELSE Going(f, k, j, m)
         /\ \A f \in Elements, k \in Nat, m \in Messages :
              Collected(f, k, m)' => IF f = e /\ k = i THEN partial # None /\ m = partial
                                     ELSE Collected(f, k, m)
<1>1. "data" \in Kinds
  BY DEF Kinds
<1>2. \A f \in Elements : conn[f]["data"] \in Seq(Connections) /\ conn'[f]["data"] \in Seq(Connections)
  BY <1>1 DEF TakesEffect, NetworkOK
<1>4. ASSUME NEW f \in Elements, NEW k \in DOMAIN conn'[f]["data"]
      PROVE  /\ k \in DOMAIN conn[f]["data"] /\ conn'[f]["data"][k] \in Connections
             /\ ~ (f = e /\ k = i) => conn'[f]["data"][k] = conn[f]["data"][k]
  BY <1>1, <1>2, Indexed DEF TakesEffect
<1>5. conn[e]["data"][i].items \in Seq(Items)
  <2>1. conn[e]["data"][i] \in Connections
    BY <1>2, Indexed
  <2> QED BY <2>1 DEF Connections
<1>6. conn'[e]["data"][i].items = Tail(conn[e]["data"][i].items) /\ conn'[e]["data"][i].partial = partial
  BY DEF TakesEffect
<1>7. ASSUME NEW f \in Elements, NEW k \in Nat, NEW j \in Nat, NEW m \in Messages, Going(f, k, j, m)'
      PROVE  j >= 1 /\ IF f = e /\ k = i THEN Going(f, k, j + 1, m) ELSE Going(f, k, j, m)
  <2>1. k \in DOMAIN conn'[f]["data"] /\ j \in DOMAIN conn'[f]["data"][k].items
    BY <1>7 DEF Going
  <2>2. conn'[f]["data"][k].items \in Seq(Items)
    BY <1>4, <2>1 DEF Connections
  <2>3. j >= 1
    BY <2>1, <2>2, Indexed
  <2>4. CASE f = e /\ k = i
    <3>1. j + 1 \in DOMAIN conn[e]["data"][i].items
          /\ conn[e]["data"][i].items[j + 1] = conn'[e]["data"][i].items[j]
      BY <1>5, <1>6, <2>1, <2>4, TakenAt
    <3> QED BY <1>7, <2>3, <2>4, <3>1 DEF Going
  <2>5. CASE ~ (f = e /\ k = i)
    BY <1>4, <1>7, <2>1, <2>3, <2>5 DEF Going
  <2> QED BY <2>4, <2>5
<1>8. ASSUME NEW f \in Elements, NEW k \in Nat, NEW m \in Messages, Collected(f, k, m)'
      PROVE  IF f = e /\ k = i THEN partial # None /\ m = partial ELSE Collected(f, k, m)
  BY <1>4, <1>6, <1>8 DEF Collected
<1> QED BY <1>7, <1>8

-----------------------------------------------------------------------------
(* Where messages go                                                       *)

\* How far a message has come, and whether p is further than q.
Rank(kind) ==
  CASE kind = "read" -> 1 [] kind = "partial" -> 2 [] kind = "going" -> 3
    [] kind = "queued" -> 4 [] kind = "handled" -> 5 [] kind = "coming" -> 6
Before(p, q) == Rank(p[1]) < Rank(q[1]) \/ (p[1] = q[1] /\ p[4] < q[4])

\* Messages of the same sender and target are in the order they were sent.
Ordered ==
  \A p, q \in PlaceSet, m1, m2 \in Messages :
    /\ Holds(p, m1) /\ Holds(q, m2)
    /\ m1.from = m2.from /\ m1.to = m2.to /\ Before(p, q)
    => m1.n < m2.n

\* The threads have to do with first connections only.
OneEach ==
  \A p \in PlaceSet, m \in Messages :
    Holds(p, m) /\ p[1] \notin {"queued", "read"} => p[3] = 1

\* What is at p after a step was at src[p] before it.
Carries(src) ==
  /\ src \in [PlaceSet -> PlaceSet]
  /\ \A p \in PlaceSet, m \in Messages : Holds(p, m)' => Holds(src[p], m)
  /\ \A p, q \in PlaceSet, m1, m2 \in Messages :
       Holds(p, m1)' /\ Holds(q, m2)' /\ src[p] = src[q] => p = q
  /\ \A p \in PlaceSet, m \in Messages : Holds(p, m)' =>
       \/ p[2] = src[p][2] /\ (p[1] \in {"coming", "handled"} <=> src[p][1] \in {"coming", "handled"})
       \/ p[1] = "queued" /\ p[2] = m.to
KeepsOrder(src) ==
  Known /\ OneEach /\ Known' /\ OneEach' =>
    \A p, q \in PlaceSet, m1, m2 \in Messages :
      /\ Holds(p, m1)' /\ Holds(q, m2)'
      /\ m1.from = m2.from /\ m1.to = m2.to /\ Before(p, q)
      => Before(src[p], src[q])

LEMMA PlaceIs ==
  /\ \A p \in PlaceSet :
       /\ p[1] \in {"coming", "handled", "queued", "going", "partial", "read"}
       /\ p[2] \in Elements /\ p[3] \in Nat /\ p[4] \in Nat
  /\ \A p, q \in PlaceSet :
       p[1] = q[1] /\ p[2] = q[2] /\ p[3] = q[3] /\ p[4] = q[4] => p = q
  /\ \A k \in {"coming", "handled", "queued", "going", "partial", "read"}, e \in Elements, i, j \in Nat :
       <<k, e, i, j>> \in PlaceSet
BY DEF PlaceSet

LEMMA CarriedUnique ==
  ASSUME BoundsOK, Unique, Known, NEW src, Carries(src), sent' = sent
  PROVE  Unique' /\ Known'
<1>1. Unique'
  <2> SUFFICES ASSUME NEW p \in PlaceSet, NEW q \in PlaceSet, NEW m1 \in Messages, NEW m2 \in Messages,
                      Holds(p, m1)', Holds(q, m2)', m1.n = m2.n
               PROVE  p = q
    BY DEF Unique, PlaceSet, Messages
  <2>1. Holds(src[p], m1) /\ Holds(src[q], m2) /\ src[p] \in PlaceSet /\ src[q] \in PlaceSet
    BY DEF Carries
  <2>2. src[p] = src[q]
    BY <2>1 DEF Unique
  <2> QED BY <2>2 DEF Carries
<1>2. Known'
  <2> SUFFICES ASSUME NEW p \in PlaceSet, NEW m \in Messages, Holds(p, m)'
               PROVE  /\ m.n < sent
                      /\ IF p[1] \in {"coming", "handled"} THEN m.from = p[2] ELSE m.to = p[2]
    BY DEF Known, PlaceSet, Messages
  <2>1. Holds(src[p], m) /\ src[p] \in PlaceSet
    BY DEF Carries
  <2>2. /\ m.n < sent
        /\ IF src[p][1] \in {"coming", "handled"} THEN m.from = src[p][2] ELSE m.to = src[p][2]
    BY <2>1 DEF Known
  <2> QED BY <2>2 DEF Carries
<1> QED BY <1>1, <1>2

LEMMA CarriedOrder ==
  ASSUME Ordered, NEW src, Carries(src), KeepsOrder(src), Known, OneEach, Known', OneEach'
  PROVE  Ordered'
<1> SUFFICES ASSUME NEW p \in PlaceSet, NEW q \in PlaceSet, NEW m1 \in Messages, NEW m2 \in Messages,
                    Holds(p, m1)', Holds(q, m2)', m1.from = m2.from, m1.to = m2.to, Before(p, q)
             PROVE  m1.n < m2.n
  BY DEF Ordered, PlaceSet, Messages, Before, Rank
<1>1. Holds(src[p], m1) /\ Holds(src[q], m2) /\ src[p] \in PlaceSet /\ src[q] \in PlaceSet
  BY DEF Carries
<1>2. Before(src[p], src[q])
  BY DEF KeepsOrder
<1> QED BY <1>1, <1>2 DEF Ordered

\* What is held where, kind by kind.
LEMMA HoldsIs ==
  ASSUME NEW p \in PlaceSet, NEW m
  PROVE  /\ p[1] = "coming" => (Holds(p, m) <=> Coming(p[2], p[3], p[4], m))
         /\ p[1] = "handled" => (Holds(p, m) <=> p[4] = 0 /\ Handled(p[2], p[3], m))
         /\ p[1] = "queued" => (Holds(p, m) <=> p[3] = 0 /\ InQueue(p[2], p[4], m))
         /\ p[1] = "going" => (Holds(p, m) <=> Going(p[2], p[3], p[4], m))
         /\ p[1] = "partial" => (Holds(p, m) <=> p[4] = 0 /\ Collected(p[2], p[3], m))
         /\ p[1] = "read" => (Holds(p, m) <=> p[3] = 0 /\ IsRead(p[2], p[4], m))
BY DEF Holds

LEMMA HeldIs ==
  ASSUME NEW p \in PlaceSet, NEW m
  PROVE  /\ p[1] = "coming" => (Holds(p, m)' <=> Coming(p[2], p[3], p[4], m)')
         /\ p[1] = "handled" => (Holds(p, m)' <=> p[4] = 0 /\ Handled(p[2], p[3], m)')
         /\ p[1] = "queued" => (Holds(p, m)' <=> p[3] = 0 /\ InQueue(p[2], p[4], m)')
         /\ p[1] = "going" => (Holds(p, m)' <=> Going(p[2], p[3], p[4], m)')
         /\ p[1] = "partial" => (Holds(p, m)' <=> p[4] = 0 /\ Collected(p[2], p[3], m)')
         /\ p[1] = "read" => (Holds(p, m)' <=> p[3] = 0 /\ IsRead(p[2], p[4], m)')
BY DEF Holds

\* Nothing moves.
LEMMA CarriesAll ==
  ASSUME ServerKeeps, QueueKeeps, ConnKeeps, InboxKeeps
  PROVE  \E src : Carries(src) /\ KeepsOrder(src)
<1> DEFINE src == [p \in PlaceSet |-> p]
<1>1. ASSUME NEW p \in PlaceSet, NEW m \in Messages, Holds(p, m)'
      PROVE  Holds(p, m)
  BY <1>1, PlaceIs, HoldsIs, HeldIs DEF ServerKeeps, QueueKeeps, ConnKeeps, InboxKeeps
<1>2. Carries(src)
  BY <1>1 DEF Carries
<1>3. KeepsOrder(src)
  BY DEF KeepsOrder
<1> QED BY <1>2, <1>3

\* A thread reads a command: what came next is handled, the others move up.
LEMMA CarriesCommand ==
  ASSUME NEW e \in Elements, NEW i \in Nat, ServerReads(e, i), QueueKeeps, ConnKeeps, InboxKeeps
  PROVE  \E src : Carries(src) /\ KeepsOrder(src)
<1> DEFINE src == [p \in PlaceSet |->
             IF p[1] \in {"coming", "handled"} /\ p[2] = e /\ p[3] = i
             THEN <<"coming", e, i, p[4] + 1>> ELSE p]
<1>1. ASSUME NEW p \in PlaceSet
      PROVE  /\ src[p] \in PlaceSet
             /\ p[1] \in {"coming", "handled"} /\ p[2] = e /\ p[3] = i =>
                  /\ src[p][1] = "coming" /\ src[p][2] = e /\ src[p][3] = i /\ src[p][4] = p[4] + 1
             /\ ~ (p[1] \in {"coming", "handled"} /\ p[2] = e /\ p[3] = i) => src[p] = p
  BY PlaceIs
<1>2. src \in [PlaceSet -> PlaceSet]
  BY <1>1
<1> HIDE DEF src
<1>3. ASSUME NEW p \in PlaceSet, NEW m \in Messages, Holds(p, m)'
      PROVE  /\ Holds(src[p], m)
             /\ p[1] = "coming" => p[4] >= 1
             /\ p[1] = "handled" => p[4] = 0
  <2>1. CASE p[1] = "coming"
    <3>1. p[4] >= 1 /\ IF p[2] = e /\ p[3] = i THEN Coming(p[2], p[3], p[4] + 1, m)
                       ELSE Coming(p[2], p[3], p[4], m)
      BY <1>3, <2>1, PlaceIs, HeldIs DEF ServerReads
    <3> QED BY <1>1, <2>1, <3>1, PlaceIs, HoldsIs
  <2>2. CASE p[1] = "handled"
    <3>1. p[4] = 0 /\ IF p[2] = e /\ p[3] = i THEN Coming(p[2], p[3], 1, m)
                      ELSE Handled(p[2], p[3], m)
      BY <1>3, <2>2, PlaceIs, HeldIs DEF ServerReads
    <3> QED BY <1>1, <2>2, <3>1, PlaceIs, HoldsIs
  <2>3. CASE p[1] \notin {"coming", "handled"}
    BY <1>1, <1>3, <2>3, PlaceIs, HoldsIs, HeldIs DEF QueueKeeps, ConnKeeps, InboxKeeps
  <2> QED BY <2>1, <2>2, <2>3
<1>4. Carries(src)
  <2>1. ASSUME NEW p \in PlaceSet, NEW q \in PlaceSet, NEW m1 \in Messages, NEW m2 \in Messages,
               Holds(p, m1)', Holds(q, m2)', src[p] = src[q]
        PROVE  p = q
    BY <1>1, <1>3, <2>1, PlaceIs
  <2>2. ASSUME NEW p \in PlaceSet, NEW m \in Messages
        PROVE  p[2] = src[p][2] /\ (p[1] \in {"coming", "handled"} <=> src[p][1] \in {"coming", "handled"})
    BY <1>1, PlaceIs
  <2> QED BY <1>2, <1>3, <2>1, <2>2 DEF Carries
<1>5. KeepsOrder(src)
  <2> SUFFICES ASSUME Known, OneEach, Known', OneEach', NEW p \in PlaceSet, NEW q \in PlaceSet,
                      NEW m1 \in Messages, NEW m2 \in Messages,
                      Holds(p, m1)', Holds(q, m2)', m1.from = m2.from, m1.to = m2.to, Before(p, q)
               PROVE  Before(src[p], src[q])
    BY DEF KeepsOrder
  <2>1. /\ p[1] \in {"coming", "handled"} => p[2] = m1.from /\ p[3] = 1
        /\ q[1] \in {"coming", "handled"} => q[2] = m2.from /\ q[3] = 1
    BY DEF Known, OneEach
  <2> QED BY <1>1, <1>3, <2>1, PlaceIs DEF Before, Rank
<1> QED BY <1>4, <1>5

\* A thread puts the message it has into a queue.
LEMMA CarriesToQueue ==
  ASSUME QueuesOK, NEW e \in Elements, NEW i \in Nat, ServerKeeps, \A m : ~ Handled(e, i, m)',
         QueueGets(e, i), ConnKeeps, InboxKeeps
  PROVE  \E src : Carries(src) /\ KeepsOrder(src)
<1> DEFINE New(p) == p[1] = "queued" /\ p[4] = Len(queue[p[2]]) + 1
           src == [p \in PlaceSet |-> IF New(p) THEN <<"handled", e, i, 0>> ELSE p]
<1>1. ASSUME NEW p \in PlaceSet
      PROVE  /\ src[p] \in PlaceSet
             /\ New(p) => src[p][1] = "handled" /\ src[p][2] = e /\ src[p][3] = i /\ src[p][4] = 0
             /\ ~ New(p) => src[p] = p
  BY PlaceIs
<1>2. src \in [PlaceSet -> PlaceSet]
  BY <1>1
<1> HIDE DEF src
<1>0. \A f \in Elements, j \in Nat : j \in DOMAIN queue[f] => j < Len(queue[f]) + 1
  BY Indexed DEF QueuesOK
<1>3. ASSUME NEW p \in PlaceSet, NEW m \in Messages, Holds(p, m)'
      PROVE  /\ Holds(src[p], m)
             /\ New(p) => p[3] = 0 /\ p[2] = m.to /\ Handled(e, i, m)
             /\ p[1] = "queued" => p[3] = 0 /\ p[4] <= Len(queue[p[2]]) + 1
             /\ p[1] = "handled" => p[4] = 0 /\ ~ (p[2] = e /\ p[3] = i)
  <2>1. CASE p[1] = "queued"
    <3>1. p[3] = 0 /\ (InQueue(p[2], p[4], m) \/ (p[4] = Len(queue[p[2]]) + 1 /\ p[2] = m.to /\ Handled(e, i, m)))
      BY <1>3, <2>1, PlaceIs, HeldIs DEF QueueGets
    <3>2. InQueue(p[2], p[4], m) => p[4] < Len(queue[p[2]]) + 1
      BY <1>0, PlaceIs DEF InQueue
    <3>3. Len(queue[p[2]]) \in Nat
      BY PlaceIs, Indexed DEF QueuesOK
    <3> QED BY <1>1, <2>1, <3>1, <3>2, <3>3, PlaceIs, HoldsIs
  <2>2. CASE p[1] = "handled"
    BY <1>1, <1>3, <2>2, PlaceIs, HoldsIs, HeldIs DEF ServerKeeps
  <2>3. CASE p[1] \notin {"queued", "handled"}
    BY <1>1, <1>3, <2>3, PlaceIs, HoldsIs, HeldIs DEF ServerKeeps, ConnKeeps, InboxKeeps
  <2> QED BY <2>1, <2>2, <2>3
<1>4. Carries(src)
  <2>1. ASSUME NEW p \in PlaceSet, NEW q \in PlaceSet, NEW m1 \in Messages, NEW m2 \in Messages,
               Holds(p, m1)', Holds(q, m2)', src[p] = src[q]
        PROVE  p = q
    <3>1. CASE New(p) /\ New(q)
      <4>1. m1 = m2
        BY <1>3, <2>1, <3>1 DEF Handled
      <4> QED BY <1>3, <2>1, <3>1, <4>1, PlaceIs
    <3>2. CASE ~ New(p) \/ ~ New(q)
      BY <1>1, <1>3, <2>1, <3>2, PlaceIs
    <3> QED BY <3>1, <3>2
  <2>2. ASSUME NEW p \in PlaceSet, NEW m \in Messages, Holds(p, m)'
        PROVE  \/ p[2] = src[p][2] /\ (p[1] \in {"coming", "handled"} <=> src[p][1] \in {"coming", "handled"})
               \/ p[1] = "queued" /\ p[2] = m.to
    BY <1>1, <1>3, <2>2
  <2> QED BY <1>2, <1>3, <2>1, <2>2 DEF Carries
<1>5. KeepsOrder(src)
  <2> SUFFICES ASSUME Known, OneEach, Known', OneEach', NEW p \in PlaceSet, NEW q \in PlaceSet,
                      NEW m1 \in Messages, NEW m2 \in Messages,
                      Holds(p, m1)', Holds(q, m2)', m1.from = m2.from, m1.to = m2.to, Before(p, q)
               PROVE  Before(src[p], src[q])
    BY DEF KeepsOrder
  <2>0. \A f \in Elements : Len(queue[f]) \in Nat
    BY Indexed DEF QueuesOK
  <2>1. New(p) => m1.from = e /\ i = 1
    <3>1. HAVE New(p)
    <3>2. Holds(src[p], m1) /\ src[p] \in PlaceSet /\ src[p][1] = "handled" /\ src[p][2] = e /\ src[p][3] = i
      BY <1>1, <1>3, <3>1
    <3> QED BY <3>2 DEF Known, OneEach
  <2>2. q[1] = "handled" => q[2] = m2.from /\ q[3] = 1
    BY DEF Known, OneEach
  <2>3. CASE New(p)
    <3>1. q[1] # "handled"
      BY <1>3, <2>1, <2>2, <2>3
    <3>2. q[1] = "queued" => q[2] = p[2]
      BY <2>3 DEF Known
    <3> QED BY <1>1, <1>3, <2>0, <2>3, <3>1, <3>2, PlaceIs, SMTT(30) DEF Before, Rank
  <2>4. CASE ~ New(p)
    BY <1>1, <1>3, <2>4, PlaceIs DEF Before, Rank
  <2> QED BY <2>3, <2>4
<1> QED BY <1>4, <1>5

\* The first message of a queue is written to its target.
LEMMA CarriesFromQueue ==
  ASSUME NetworkOK, NEW e \in Elements, ServerKeeps, QueueGives(e), ConnGets(e), InboxKeeps
  PROVE  \E src : Carries(src) /\ KeepsOrder(src)
<1> DEFINE last == Len(conn[e]["data"])
           next == Len(conn[e]["data"][last].items) + 1
           New(p) == p[1] = "going" /\ p[2] = e /\ p[3] = last /\ p[4] = next
           Up(p) == p[1] = "queued" /\ p[2] = e
           src == [p \in PlaceSet |-> IF New(p) THEN <<"queued", e, 0, 1>>
                                      ELSE IF Up(p) THEN <<"queued", e, 0, p[4] + 1>> ELSE p]
<1>1. ASSUME NEW p \in PlaceSet
      PROVE  /\ src[p] \in PlaceSet
             /\ New(p) => src[p][1] = "queued" /\ src[p][2] = e /\ src[p][3] = 0 /\ src[p][4] = 1
             /\ Up(p) => src[p][1] = "queued" /\ src[p][2] = e /\ src[p][3] = 0 /\ src[p][4] = p[4] + 1
             /\ ~ New(p) /\ ~ Up(p) => src[p] = p
  BY PlaceIs
<1>2. src \in [PlaceSet -> PlaceSet]
  BY <1>1
<1> HIDE DEF src
<1>0. \A j \in Nat : last \in DOMAIN conn[e]["data"] /\ j \in DOMAIN conn[e]["data"][last].items => j < next /\ j <= next
  <2>1. "data" \in Kinds
    BY DEF Kinds
  <2>2. conn[e]["data"] \in Seq(Connections)
    BY <2>1 DEF NetworkOK
  <2>3. ASSUME last \in DOMAIN conn[e]["data"] PROVE conn[e]["data"][last].items \in Seq(Items)
    <3>1. conn[e]["data"][last] \in Connections
      BY <2>2, <2>3, Indexed
    <3> QED BY <3>1 DEF Connections
  <2> QED BY <2>3, Indexed
<1> HIDE DEF last, next
<1>3. ASSUME NEW p \in PlaceSet, NEW m \in Messages, Holds(p, m)'
      PROVE  /\ Holds(src[p], m)
             /\ p[1] = "queued" => p[3] = 0 /\ p[4] >= 1
             /\ p[1] = "going" /\ p[2] = e /\ p[3] = last => p[4] <= next
  <2>1. CASE p[1] = "queued"
    <3>1. p[3] = 0 /\ p[4] >= 1 /\ IF p[2] = e THEN InQueue(p[2], p[4] + 1, m) ELSE InQueue(p[2], p[4], m)
      BY <1>3, <2>1, PlaceIs, HeldIs DEF QueueGives
    <3> QED BY <1>1, <2>1, <3>1, PlaceIs, HoldsIs
  <2>2. CASE p[1] = "going"
    <3>1. \/ Going(p[2], p[3], p[4], m)
          \/ p[2] = e /\ p[3] = last /\ p[4] = next /\ InQueue(e, 1, m)
      BY <1>3, <2>2, PlaceIs, HeldIs DEF ConnGets, last, next
    <3>2. Going(p[2], p[3], p[4], m) /\ p[2] = e /\ p[3] = last => p[4] < next /\ p[4] <= next
      BY <1>0, PlaceIs DEF Going
    <3>3. p[2] = e /\ p[3] = last => p[4] <= next
      BY <3>1, <3>2, PlaceIs
    <3>4. Holds(src[p], m)
      <4>1. CASE New(p)
        <5>1. InQueue(e, 1, m)
          BY <3>1, <3>2, <4>1, PlaceIs
        <5> QED BY <1>1, <4>1, <5>1, HoldsIs
      <4>2. CASE ~ New(p)
        BY <1>1, <2>2, <3>1, <4>2, HoldsIs
      <4> QED BY <4>1, <4>2
    <3> QED BY <2>2, <3>3, <3>4
  <2>3. CASE p[1] \notin {"queued", "going"}
    BY <1>1, <1>3, <2>3, PlaceIs, HoldsIs, HeldIs DEF ServerKeeps, ConnGets, InboxKeeps
  <2> QED BY <2>1, <2>2, <2>3
<1>4. Carries(src)
  <2>1. ASSUME NEW p \in PlaceSet, NEW q \in PlaceSet, NEW m1 \in Messages, NEW m2 \in Messages,
               Holds(p, m1)', Holds(q, m2)', src[p] = src[q]
        PROVE  p = q
    BY <1>1, <1>3, <2>1, PlaceIs
  <2>2. ASSUME NEW p \in PlaceSet
        PROVE  p[2] = src[p][2] /\ (p[1] \in {"coming", "handled"} <=> src[p][1] \in {"coming", "handled"})
    BY <1>1, PlaceIs
  <2> QED BY <1>2, <1>3, <2>1, <2>2 DEF Carries
<1>5. KeepsOrder(src)
  <2> SUFFICES ASSUME Known, OneEach, Known', OneEach', NEW p \in PlaceSet, NEW q \in PlaceSet,
                      NEW m1 \in Messages, NEW m2 \in Messages,
                      Holds(p, m1)', Holds(q, m2)', m1.from = m2.from, m1.to = m2.to, Before(p, q)
               PROVE  Before(src[p], src[q])
    BY DEF KeepsOrder
  <2>1. /\ p[1] \in {"going", "queued"} => p[2] = m1.to
        /\ q[1] \in {"going", "queued"} => q[2] = m1.to
        /\ p[1] = "going" => p[3] = 1
        /\ q[1] = "going" => q[3] = 1
    BY DEF Known, OneEach
  <2>2. CASE New(p)
    BY <1>1, <1>3, <2>1, <2>2, PlaceIs DEF Before, Rank
  <2>3. CASE ~ New(p)
    BY <1>1, <1>3, <2>1, <2>3, PlaceIs DEF Before, Rank
  <2> QED BY <2>2, <2>3
<1> QED BY <1>4, <1>5

\* A thread of an element reads a notification.
LEMMA CarriesNews ==
  ASSUME NEW e \in Elements, NEW i \in Nat, ServerKeeps, QueueKeeps, InboxKeeps,
         \A f \in Elements, k, j \in Nat, m \in Messages :
           Going(f, k, j, m)' => j >= 1 /\ IF f = e /\ k = i THEN Going(f, k, j + 1, m)
                                            ELSE Going(f, k, j, m),
         \A f \in Elements, k \in Nat, m \in Messages : Collected(f, k, m)' => Collected(f, k, m)
  PROVE  \E src : Carries(src) /\ KeepsOrder(src)
<1> DEFINE Up(p) == p[1] = "going" /\ p[2] = e /\ p[3] = i
           src == [p \in PlaceSet |-> IF Up(p) THEN <<"going", e, i, p[4] + 1>> ELSE p]
<1>1. ASSUME NEW p \in PlaceSet
      PROVE  /\ src[p] \in PlaceSet
             /\ Up(p) => src[p][1] = "going" /\ src[p][2] = e /\ src[p][3] = i /\ src[p][4] = p[4] + 1
             /\ ~ Up(p) => src[p] = p
  BY PlaceIs
<1>2. src \in [PlaceSet -> PlaceSet]
  BY <1>1
<1> HIDE DEF src
<1>3. ASSUME NEW p \in PlaceSet, NEW m \in Messages, Holds(p, m)'
      PROVE  Holds(src[p], m)
  <2>1. CASE p[1] = "going"
    <3>1. IF p[2] = e /\ p[3] = i THEN Going(p[2], p[3], p[4] + 1, m) ELSE Going(p[2], p[3], p[4], m)
      BY <1>3, <2>1, PlaceIs, HeldIs
    <3> QED BY <1>1, <2>1, <3>1, PlaceIs, HoldsIs
  <2>2. CASE p[1] # "going"
    BY <1>1, <1>3, <2>2, PlaceIs, HoldsIs, HeldIs DEF ServerKeeps, QueueKeeps, InboxKeeps
  <2> QED BY <2>1, <2>2
<1>4. Carries(src)
  <2>1. ASSUME NEW p \in PlaceSet, NEW q \in PlaceSet, src[p] = src[q]
        PROVE  p = q
    <3>1. CASE Up(p) /\ Up(q)
      <4>1. p[4] + 1 = q[4] + 1 /\ p[4] \in Nat /\ q[4] \in Nat
        BY <1>1, <2>1, <3>1, PlaceIs
      <4> QED BY <3>1, <4>1, PlaceIs
    <3>2. CASE ~ Up(p) \/ ~ Up(q)
      BY <1>1, <2>1, <3>2
    <3> QED BY <3>1, <3>2
  <2>2. ASSUME NEW p \in PlaceSet
        PROVE  p[2] = src[p][2] /\ (p[1] \in {"coming", "handled"} <=> src[p][1] \in {"coming", "handled"})
    BY <1>1, PlaceIs
  <2> QED BY <1>2, <1>3, <2>1, <2>2 DEF Carries
<1>5. KeepsOrder(src)
  <2> SUFFICES ASSUME Known, OneEach, Known', OneEach', NEW p \in PlaceSet, NEW q \in PlaceSet,
                      NEW m1 \in Messages, NEW m2 \in Messages,
                      Holds(p, m1)', Holds(q, m2)', m1.from = m2.from, m1.to = m2.to, Before(p, q)
               PROVE  Before(src[p], src[q])
    BY DEF KeepsOrder
  <2>1. /\ p[1] = "going" => p[2] = m1.to /\ p[3] = 1
        /\ q[1] = "going" => q[2] = m1.to /\ q[3] = 1
    BY DEF Known, OneEach
  <2> QED BY <1>1, <2>1, PlaceIs DEF Before, Rank
<1> QED BY <1>4, <1>5

\* A thread of an element begins to collect a message, or reads the end of
\* messages: what it had collected is read.
LEMMA CarriesToInbox ==
  ASSUME ClientsOK, NEW e \in Elements, NEW i \in Nat, ServerKeeps, QueueKeeps,
         \A f \in Elements, k, j \in Nat, m \in Messages :
           Going(f, k, j, m)' => j >= 1 /\ IF f = e /\ k = i THEN Going(f, k, j + 1, m)
                                            ELSE Going(f, k, j, m),
         \A f \in Elements, k \in Nat, m \in Messages :
           Collected(f, k, m)' => IF f = e /\ k = i THEN Going(f, k, 1, m) ELSE Collected(f, k, m),
         \A f \in Elements, j \in Nat, m \in Messages :
           IsRead(f, j, m)' => IsRead(f, j, m) \/ (f = e /\ j = Len(inbox[e]) + 1 /\ Collected(e, i, m))
  PROVE  \E src : Carries(src) /\ KeepsOrder(src)
<1> DEFINE next == Len(inbox[e]) + 1
           Up(p) == p[1] \in {"going", "partial"} /\ p[2] = e /\ p[3] = i
           New(p) == p[1] = "read" /\ p[2] = e /\ p[4] = next
           src == [p \in PlaceSet |-> IF Up(p) THEN <<"going", e, i, p[4] + 1>>
                                      ELSE IF New(p) THEN <<"partial", e, i, 0>> ELSE p]
<1>1. ASSUME NEW p \in PlaceSet
      PROVE  /\ src[p] \in PlaceSet
             /\ Up(p) => src[p][1] = "going" /\ src[p][2] = e /\ src[p][3] = i /\ src[p][4] = p[4] + 1
             /\ New(p) => src[p][1] = "partial" /\ src[p][2] = e /\ src[p][3] = i /\ src[p][4] = 0
             /\ ~ Up(p) /\ ~ New(p) => src[p] = p
  BY PlaceIs
<1>2. src \in [PlaceSet -> PlaceSet]
  BY <1>1
<1> HIDE DEF src
<1>0. next \in Nat /\ \A j \in Nat : j \in DOMAIN inbox[e] => j < next
  BY Indexed DEF ClientsOK
<1> HIDE DEF next
<1>3. ASSUME NEW p \in PlaceSet, NEW m \in Messages, Holds(p, m)'
      PROVE  /\ Holds(src[p], m)
             /\ p[1] = "going" => p[4] >= 1
             /\ p[1] = "partial" => p[4] = 0
             /\ p[1] = "read" => p[3] = 0
             /\ p[1] = "read" /\ p[2] = e => p[4] <= next
  <2>1. CASE p[1] = "going"
    <3>1. p[4] >= 1 /\ IF p[2] = e /\ p[3] = i THEN Going(p[2], p[3], p[4] + 1, m)
                       ELSE Going(p[2], p[3], p[4], m)
      BY <1>3, <2>1, PlaceIs, HeldIs
    <3> QED BY <1>1, <2>1, <3>1, PlaceIs, HoldsIs
  <2>2. CASE p[1] = "partial"
    <3>1. p[4] = 0 /\ IF p[2] = e /\ p[3] = i THEN Going(p[2], p[3], 1, m) ELSE Collected(p[2], p[3], m)
      BY <1>3, <2>2, PlaceIs, HeldIs
    <3> QED BY <1>1, <2>2, <3>1, PlaceIs, HoldsIs
  <2>3. CASE p[1] = "read"
    <3>1. p[3] = 0 /\ (IsRead(p[2], p[4], m) \/ (p[2] = e /\ p[4] = next /\ Collected(e, i, m)))
      BY <1>3, <2>3, PlaceIs, HeldIs DEF next
    <3>2. IsRead(p[2], p[4], m) /\ p[2] = e => p[4] < next
      BY <1>0, PlaceIs DEF IsRead
    <3>3. p[2] = e => p[4] <= next
      BY <1>0, <3>1, <3>2, PlaceIs
    <3>4. Holds(src[p], m)
      <4>1. CASE New(p)
        <5>1. Collected(e, i, m)
          BY <1>0, <3>1, <3>2, <4>1, PlaceIs
        <5> QED BY <1>1, <4>1, <5>1, HoldsIs
      <4>2. CASE ~ New(p)
        BY <1>1, <2>3, <3>1, <4>2, HoldsIs
      <4> QED BY <4>1, <4>2
    <3> QED BY <2>3, <3>1, <3>3, <3>4
  <2>4. CASE p[1] \notin {"going", "partial", "read"}
    BY <1>1, <1>3, <2>4, PlaceIs, HoldsIs, HeldIs DEF ServerKeeps, QueueKeeps
  <2> QED BY <2>1, <2>2, <2>3, <2>4
<1>4. Carries(src)
  <2>1. ASSUME NEW p \in PlaceSet, NEW q \in PlaceSet, NEW m1 \in Messages, NEW m2 \in Messages,
               Holds(p, m1)', Holds(q, m2)', src[p] = src[q]
        PROVE  p = q
    <3>1. CASE Up(p) /\ Up(q)
      <4>1. p[4] + 1 = q[4] + 1 /\ p[4] \in Nat /\ q[4] \in Nat
        BY <1>1, <2>1, <3>1, PlaceIs
      <4>2. p[4] = q[4]
        BY <4>1
      <4>3. p[1] = q[1]
        BY <1>3, <2>1, <3>1, <4>2
      <4> QED BY <3>1, <4>2, <4>3, PlaceIs
    <3>2. CASE ~ (Up(p) /\ Up(q))
      <4>1. CASE New(p) /\ New(q)
        BY <1>1, <1>3, <2>1, <4>1, PlaceIs
      <4>2. CASE ~ (New(p) /\ New(q))
        BY <1>1, <2>1, <3>2, <4>2, <1>3, PlaceIs
      <4> QED BY <4>1, <4>2
    <3> QED BY <3>1, <3>2
  <2>2. ASSUME NEW p \in PlaceSet
        PROVE  p[2] = src[p][2] /\ (p[1] \in {"coming", "handled"} <=> src[p][1] \in {"coming", "handled"})
    BY <1>1, PlaceIs
  <2> QED BY <1>2, <1>3, <2>1, <2>2 DEF Carries
<1>5. KeepsOrder(src)
  <2> SUFFICES ASSUME Known, OneEach, Known', OneEach', NEW p \in PlaceSet, NEW q \in PlaceSet,
                      NEW m1 \in Messages, NEW m2 \in Messages,
                      Holds(p, m1)', Holds(q, m2)', m1.from = m2.from, m1.to = m2.to, Before(p, q)
               PROVE  Before(src[p], src[q])
    BY DEF KeepsOrder
  <2>1. /\ p[1] \in {"going", "partial"} => p[2] = m1.to /\ p[3] = 1
        /\ q[1] \in {"going", "partial"} => q[2] = m1.to /\ q[3] = 1
        /\ p[1] = "read" => p[2] = m1.to
        /\ q[1] = "read" => q[2] = m1.to
    BY DEF Known, OneEach
  <2>2. New(p) => i = 1
    <3>1. HAVE New(p)
    <3>2. Holds(src[p], m1) /\ src[p] \in PlaceSet /\ src[p][1] = "partial" /\ src[p][3] = i
      BY <1>1, <1>3, <3>1
    <3> QED BY <3>2 DEF OneEach
  <2>3. CASE New(p)
    BY <1>0, <1>1, <1>3, <2>1, <2>2, <2>3, PlaceIs DEF Before, Rank
  <2>4. CASE Up(p)
    BY <1>1, <1>3, <2>1, <2>4, PlaceIs, SMTT(30) DEF Before, Rank
  <2>5. CASE ~ New(p) /\ ~ Up(p)
    BY <1>1, <1>3, <2>1, <2>5, PlaceIs DEF Before, Rank
  <2> QED BY <2>3, <2>4, <2>5
<1> QED BY <1>4, <1>5

\* A new message comes in at the end of a connection, and is the last of its sender.
Enters(e, i, j, msg) ==
  /\ \A f \in Elements, k, l \in Nat, m \in Messages :
       Coming(f, k, l, m)' => Coming(f, k, l, m) \/ (f = e /\ k = i /\ l = j /\ m = msg)
  /\ \A f \in Elements, k \in Nat, m \in Messages : Handled(f, k, m)' => Handled(f, k, m)
  /\ \A l \in Nat, m \in Messages : Coming(e, i, l, m)' => l <= j
Adds(e, i, j, msg) ==
  \A p \in PlaceSet, m \in Messages : Holds(p, m)' =>
    Holds(p, m) \/ (p[1] = "coming" /\ p[2] = e /\ p[3] = i /\ p[4] = j /\ m = msg)

LEMMA SentUnique ==
  ASSUME BoundsOK, Unique, Known, sent' = sent + 1, QueueKeeps, ConnKeeps, InboxKeeps,
         NEW e \in Elements, NEW i \in Nat, NEW j \in Nat, NEW msg \in Messages, msg.from = e, msg.n = sent,
         Enters(e, i, j, msg)
  PROVE  Unique' /\ Known' /\ Adds(e, i, j, msg)
<1>1. ASSUME NEW p \in PlaceSet, NEW m \in Messages, Holds(p, m)'
      PROVE  Holds(p, m) \/ (p[1] = "coming" /\ p[2] = e /\ p[3] = i /\ p[4] = j /\ m = msg)
  BY <1>1, PlaceIs, HoldsIs, HeldIs DEF QueueKeeps, ConnKeeps, InboxKeeps, Enters
<1>2. Unique'
  <2> SUFFICES ASSUME NEW p \in PlaceSet, NEW q \in PlaceSet, NEW m1 \in Messages, NEW m2 \in Messages,
                      Holds(p, m1)', Holds(q, m2)', m1.n = m2.n
               PROVE  p = q
    BY DEF Unique, PlaceSet, Messages
  <2>1. Holds(p, m1) => m1.n < sent
    BY DEF Known
  <2>2. Holds(q, m2) => m2.n < sent
    BY DEF Known
  <2>3. CASE Holds(p, m1) /\ Holds(q, m2)
    BY <2>3 DEF Unique
  <2>4. CASE ~ (Holds(p, m1) /\ Holds(q, m2))
    BY <1>1, <2>1, <2>2, <2>4, PlaceIs DEF BoundsOK
  <2> QED BY <2>3, <2>4
<1>3. Known'
  <2> SUFFICES ASSUME NEW p \in PlaceSet, NEW m \in Messages, Holds(p, m)'
               PROVE  /\ m.n < sent + 1
                      /\ IF p[1] \in {"coming", "handled"} THEN m.from = p[2] ELSE m.to = p[2]
    BY DEF Known, PlaceSet, Messages
  <2>1. m.n \in Int
    BY BudgetAssumption DEF Messages, Events
  <2> QED BY <1>1, <2>1 DEF Known, BoundsOK
<1> QED BY <1>1, <1>2, <1>3 DEF Adds

LEMMA SentOrder ==
  ASSUME BoundsOK, Ordered, Known, Known', OneEach',
         NEW e \in Elements, NEW i \in Nat, NEW j \in Nat, NEW msg \in Messages, msg.from = e, msg.n = sent,
         Enters(e, i, j, msg), Adds(e, i, j, msg)
  PROVE  Ordered'
<1> SUFFICES ASSUME NEW p \in PlaceSet, NEW q \in PlaceSet, NEW m1 \in Messages, NEW m2 \in Messages,
                    Holds(p, m1)', Holds(q, m2)', m1.from = m2.from, m1.to = m2.to, Before(p, q)
             PROVE  m1.n < m2.n
  BY DEF Ordered, PlaceSet, Messages, Before, Rank
<1>1. CASE Holds(p, m1) /\ Holds(q, m2)
  BY <1>1 DEF Ordered
<1>2. CASE ~ Holds(q, m2) /\ Holds(p, m1)
  BY <1>2 DEF Known, Adds
<1>3. CASE ~ Holds(p, m1)
  <2>1. p[1] = "coming" /\ p[2] = e /\ p[3] = i /\ p[4] = j /\ m1 = msg
    BY <1>3 DEF Adds
  <2>2. q[1] = "coming" /\ q[4] > p[4]
    BY <2>1, PlaceIs DEF Before, Rank
  <2>3. q[2] = e /\ p[3] = 1 /\ q[3] = 1
    BY <2>1, <2>2 DEF Known, OneEach
  <2>4. Coming(e, i, q[4], m2)'
    BY <2>1, <2>2, <2>3, HeldIs
  <2> QED BY <2>1, <2>2, <2>4, PlaceIs DEF Enters
<1> QED BY <1>1, <1>2, <1>3

-----------------------------------------------------------------------------
(* No message is in two places                                             *)

Moved == sent' = sent /\ \E src : Carries(src) /\ KeepsOrder(src)

LEMMA QueueUnchanged ==
  ASSUME \A e \in Elements : queue'[e] = queue[e] \/ queue'[e] = << >>
  PROVE  QueueKeeps
<1>1. DOMAIN << >> = {}
  OBVIOUS
<1> QED BY <1>1 DEF QueueKeeps, InQueue

LEMMA InboxUnchanged ==
  ASSUME \A e \in Elements : inbox'[e] = inbox[e] \/ inbox'[e] = << >>
  PROVE  InboxKeeps
<1>1. DOMAIN << >> = {}
  OBVIOUS
<1> QED BY <1>1 DEF InboxKeeps, IsRead

LEMMA ServerUnchanged ==
  ASSUME \A e \in Elements : server'[e] = server[e] \/ server'[e] = << >>
  PROVE  ServerKeeps
<1>1. DOMAIN << >> = {}
  OBVIOUS
<1> QED BY <1>1 DEF ServerKeeps, Coming, Handled

\* Logging in and out, and clearing a queue.
LEMMA ThreadTableMoves ==
  ASSUME Shape, NEW e \in Elements, NEW i \in DOMAIN server[e],
         Login(e, i) \/ LoginQueue(e, i) \/ LoginNotify(e, i) \/ Logout(e, i) \/ PersistState(e, i) \/ ClearMessageQueue(e, i)
  PROVE  Moved
<1>1. /\ \A op : Reads(e, i, op) =>
              /\ Command(e, i) \in Commands /\ Command(e, i).op = op
              /\ server[e][i].pc = "idle" /\ server[e][i].in # << >>
  BY ThreadIs
<1>2. None \in Commands \cup {None} /\ {"idle", "joining", "leaving", "login", "pending"} \subseteq Pcs
  BY DEF Pcs
<1>3. ServerOK /\ NetworkOK /\ TableOK /\ i \in Nat /\ queue \in [Elements -> Seq(Messages)]
  BY Indexed DEF Shape, RouterOK, QueuesOK, ServerOK
<1>4. ASSUME NEW pc \in {"idle", "joining", "leaving", "login", "pending"}, Become(e, i, pc, None), UNCHANGED others,
             server[e][i].pc = "idle" => server[e][i].in # << >>
      PROVE  /\ InboxKeeps /\ sent' = sent
             /\ server[e][i].pc = "idle" => ServerReads(e, i)
             /\ server[e][i].pc # "idle" => ServerKeeps
  <2>1. pc \in Pcs /\ BecomeEffect(e, i, pc, None)
    BY <1>2, <1>3, <1>4, BecomeIs
  <2>2. pc \notin {"park", "push"}
    BY <1>4
  <2>3. server[e][i].pc = "idle" => ServerReads(e, i)
    BY <1>3, <1>4, <2>1, <2>2, BecomeReads
  <2>4. server[e][i].pc # "idle" => ServerKeeps
    BY <1>3, <2>1, <2>2, BecomeKeeps
  <2> QED BY <1>4, <2>3, <2>4, InboxUnchanged DEF others, clients, bounds
<1>5. CASE Login(e, i)
  <2>1. ServerReads(e, i) /\ InboxKeeps /\ sent' = sent
    BY <1>1, <1>4, <1>5 DEF Login
  <2>2. QueueKeeps /\ ConnKeeps
    BY <1>5, QueueUnchanged, ConnUnchanged DEF Login, queues, network
  <2> QED BY <1>3, <2>1, <2>2, CarriesCommand DEF Moved
<1>6. CASE LoginQueue(e, i)
  <2>1. ServerKeeps /\ InboxKeeps /\ sent' = sent
    BY <1>1, <1>4, <1>6 DEF LoginQueue, At, Done
  <2>2. QueueKeeps
    BY <1>3, <1>6, QueueUnchanged DEF LoginQueue
  <2>3. ConnKeeps
    BY <1>6, ConnUnchanged DEF LoginQueue, network
  <2> QED BY <2>1, <2>2, <2>3, CarriesAll DEF Moved
<1>7. CASE LoginNotify(e, i)
  <2>1. ServerKeeps /\ InboxKeeps /\ sent' = sent
    BY <1>1, <1>4, <1>7 DEF LoginNotify, At, Done
  <2>2. QueueKeeps
    BY <1>7, QueueUnchanged DEF LoginNotify, queues
  <2>3. Len(queue[e]) \in Nat
    BY <1>3, Indexed
  <2>4. ConnKeeps
    BY <1>3, <1>7, <2>3, ArrivalKeeps DEF LoginNotify
  <2> QED BY <2>1, <2>2, <2>4, CarriesAll DEF Moved
<1>8. CASE Logout(e, i)
  <2>1. ServerReads(e, i) /\ InboxKeeps /\ sent' = sent
    BY <1>1, <1>4, <1>8 DEF Logout
  <2>2. QueueKeeps
    BY <1>3, <1>8, QueueUnchanged DEF Logout
  <2>3. ConnKeeps
    BY <1>8, ConnUnchanged DEF Logout
  <2> QED BY <1>3, <2>1, <2>2, <2>3, CarriesCommand DEF Moved
<1>9. CASE PersistState(e, i)
  <2>1. ServerKeeps /\ InboxKeeps /\ sent' = sent
    BY <1>1, <1>4, <1>9 DEF PersistState, At, Done
  <2>2. QueueKeeps /\ ConnKeeps
    BY <1>9, QueueUnchanged, ConnUnchanged DEF PersistState, queues, network
  <2> QED BY <2>1, <2>2, CarriesAll DEF Moved
<1>10. CASE ClearMessageQueue(e, i)
  <2>1. ServerReads(e, i) /\ InboxKeeps /\ sent' = sent
    BY <1>1, <1>4, <1>10 DEF ClearMessageQueue, Done
  <2>2. QueueKeeps
    BY <1>3, <1>10, QueueUnchanged DEF ClearMessageQueue
  <2>3. ConnKeeps
    BY <1>10, ConnUnchanged DEF ClearMessageQueue, network
  <2> QED BY <1>3, <2>1, <2>2, <2>3, CarriesCommand DEF Moved
<1> QED BY <1>5, <1>6, <1>7, <1>8, <1>9, <1>10

\* Storing a message.
LEMMA ThreadStoreMoves ==
  ASSUME Shape, NEW e \in Elements, NEW i \in DOMAIN server[e],
         NewMessage(e, i) \/ ParkMessage(e, i) \/ PushMessage(e, i) \/ NotifyTarget(e, i)
  PROVE  Moved
<1>1. /\ \A op : Reads(e, i, op) =>
              /\ Command(e, i) \in Commands /\ Command(e, i).op = op
              /\ server[e][i].pc = "idle" /\ server[e][i].in # << >>
              /\ Command(e, i) = server[e][i].in[1]
      /\ \A pc \in {"park", "push", "notify"} : At(e, i, pc) =>
              Command(e, i) \in NewCommands /\ Command(e, i) = server[e][i].cmd
  BY ThreadIs
<1>2. None \in Commands \cup {None} /\ {"idle", "park", "push", "notify"} \subseteq Pcs
  BY DEF Pcs
<1>3. ServerOK /\ NetworkOK /\ QueuesOK /\ i \in Nat /\ queue \in [Elements -> Seq(Messages)]
  BY Indexed DEF Shape, QueuesOK, ServerOK
<1>4. ASSUME UNCHANGED others
      PROVE  InboxKeeps /\ sent' = sent
  BY <1>4, InboxUnchanged DEF others, clients, bounds
<1>5. ASSUME NEW pc \in {"idle", "notify"}, NEW cmd \in NewCommands \cup {None},
             Become(e, i, pc, cmd), server[e][i].pc # "idle"
      PROVE  ServerKeeps /\ \A m : ~ Handled(e, i, m)'
  <2>1. cmd \in Commands \cup {None} /\ pc \in Pcs /\ pc \notin {"park", "push"}
    BY <1>2, <1>5, CommandIs
  <2>2. BecomeEffect(e, i, pc, cmd)
    BY <1>3, <1>5, <2>1, BecomeIs
  <2> QED BY <1>3, <1>5, <2>1, <2>2, BecomeKeeps
<1>6. CASE NewMessage(e, i)
  <2>1. Command(e, i) \in Commands /\ Command(e, i).op = "NEW" /\ Command(e, i) = server[e][i].in[1]
        /\ server[e][i].pc = "idle" /\ server[e][i].in # << >>
    BY <1>1, <1>6 DEF NewMessage
  <2>2. \/ Become(e, i, "idle", None)
        \/ Become(e, i, "park", Command(e, i))
        \/ Become(e, i, "push", Command(e, i))
    BY <1>6 DEF NewMessage, Done
  <2>3. \/ BecomeEffect(e, i, "idle", None)
        \/ BecomeEffect(e, i, "park", Command(e, i))
        \/ BecomeEffect(e, i, "push", Command(e, i))
    BY <1>2, <1>3, <2>1, <2>2, BecomeIs
  <2>4. ServerReads(e, i)
    BY <1>2, <1>3, <2>1, <2>3, BecomeReads
  <2>5. QueueKeeps /\ ConnKeeps
    BY <1>6, QueueUnchanged, ConnUnchanged DEF NewMessage, network
  <2>6. InboxKeeps /\ sent' = sent
    BY <1>4, <1>6 DEF NewMessage
  <2> QED BY <1>3, <2>4, <2>5, <2>6, CarriesCommand DEF Moved
<1>7. ASSUME NEW msg \in Messages, Push(msg), Handled(e, i, msg)
      PROVE  QueueGets(e, i)
  <2>1. msg.to \in Elements
    BY CommandIs
  <2>2. \A f \in Elements : f # msg.to => queue'[f] = queue[f]
    BY <1>3, <1>7, <2>1 DEF Push
  <2>3. queue'[msg.to] = queue[msg.to] \/ queue'[msg.to] = Append(queue[msg.to], msg)
    BY <1>3, <1>7, <2>1 DEF Push
  <2>4. ASSUME NEW j \in DOMAIN queue'[msg.to]
        PROVE  \/ j \in DOMAIN queue[msg.to] /\ queue'[msg.to][j] = queue[msg.to][j]
               \/ j = Len(queue[msg.to]) + 1 /\ queue'[msg.to][j] = msg
    <3>1. PICK q \in Seq(Messages) : q = queue[msg.to]
      BY <1>3, <2>1
    <3>2. CASE queue'[msg.to] = queue[msg.to]
      BY <2>4, <3>2
    <3>3. CASE queue'[msg.to] = Append(q, msg)
      <4>1. j \in DOMAIN Append(q, msg)
        BY <2>4, <3>3
      <4> QED BY <3>1, <3>3, <4>1, AppendedAt
    <3> QED BY <2>3, <3>1, <3>2, <3>3
  <2> QED BY <1>7, <2>2, <2>4 DEF QueueGets, InQueue
<1>8. CASE ParkMessage(e, i)
  <2>1. Command(e, i) \in NewCommands /\ Command(e, i) = server[e][i].cmd /\ server[e][i].pc = "park"
    BY <1>1, <1>8 DEF ParkMessage, At
  <2>2. Command(e, i).msg \in Messages /\ Handled(e, i, Command(e, i).msg)
    BY <2>1, CommandIs DEF Handled
  <2>3. QueueGets(e, i)
    BY <1>7, <1>8, <2>2 DEF ParkMessage
  <2>4. ServerKeeps /\ \A m : ~ Handled(e, i, m)'
    BY <1>5, <1>8, <2>1 DEF ParkMessage, Done
  <2>5. ConnKeeps /\ InboxKeeps /\ sent' = sent
    BY <1>4, <1>8, ConnUnchanged DEF ParkMessage, network
  <2> QED BY <1>3, <2>3, <2>4, <2>5, CarriesToQueue DEF Moved
<1>9. CASE PushMessage(e, i)
  <2>1. Command(e, i) \in NewCommands /\ Command(e, i) = server[e][i].cmd /\ server[e][i].pc = "push"
    BY <1>1, <1>9 DEF PushMessage, At
  <2>2. Command(e, i).msg \in Messages /\ Handled(e, i, Command(e, i).msg)
    BY <2>1, CommandIs DEF Handled
  <2>3. QueueGets(e, i)
    BY <1>7, <1>9, <2>2 DEF PushMessage
  <2>4. ServerKeeps /\ \A m : ~ Handled(e, i, m)'
    BY <1>5, <1>9, <2>1 DEF PushMessage
  <2>5. ConnKeeps /\ InboxKeeps /\ sent' = sent
    BY <1>4, <1>9, ConnUnchanged DEF PushMessage, network
  <2> QED BY <1>3, <2>3, <2>4, <2>5, CarriesToQueue DEF Moved
<1>10. CASE NotifyTarget(e, i)
  <2>1. Command(e, i) \in NewCommands /\ server[e][i].pc # "idle"
    BY <1>1, <1>10 DEF NotifyTarget, At
  <2>2. ServerKeeps
    BY <1>5, <1>10, <2>1 DEF NotifyTarget, Done
  <2>3. Command(e, i).msg.to \in Elements
    BY <2>1, CommandIs
  <2>4. ConnKeeps
    BY <1>3, <1>10, <2>3, ArrivalKeeps DEF NotifyTarget
  <2>5. QueueKeeps /\ InboxKeeps /\ sent' = sent
    BY <1>4, <1>10, QueueUnchanged DEF NotifyTarget, queues
  <2> QED BY <2>2, <2>4, <2>5, CarriesAll DEF Moved
<1> QED BY <1>6, <1>8, <1>9, <1>10

\* Sending the messages that were asked for.
LEMMA ThreadDeliverMoves ==
  ASSUME Shape, NEW e \in Elements, NEW i \in DOMAIN server[e],
         RequestUnreadMessages(e, i) \/ MoreMessages(e, i) \/ DeliverMessage(e, i) \/ NoMoreMessages(e, i)
  PROVE  Moved
<1>1. \A op : Reads(e, i, op) => server[e][i].pc = "idle" /\ server[e][i].in # << >>
  BY ThreadIs
<1>2. None \in Commands \cup {None} /\ {"idle", "deliver", "pop", "ended"} \subseteq Pcs
  BY DEF Pcs
<1>3. ServerOK /\ NetworkOK /\ i \in Nat /\ queue[e] \in Seq(Messages)
      /\ queue \in [Elements -> Seq(Messages)]
  BY Indexed DEF Shape, QueuesOK, ServerOK
<1>4. ASSUME NEW pc \in {"idle", "deliver", "pop", "ended"}, Become(e, i, pc, None), UNCHANGED others,
             server[e][i].pc = "idle" => server[e][i].in # << >>
      PROVE  /\ InboxKeeps /\ sent' = sent /\ up' = up /\ routerUp' = routerUp
             /\ server[e][i].pc = "idle" => ServerReads(e, i)
             /\ server[e][i].pc # "idle" => ServerKeeps
  <2>1. pc \in Pcs /\ BecomeEffect(e, i, pc, None)
    BY <1>2, <1>3, <1>4, BecomeIs
  <2>2. pc \notin {"park", "push"}
    BY <1>4
  <2>3. server[e][i].pc = "idle" => ServerReads(e, i)
    BY <1>3, <1>4, <2>1, <2>2, BecomeReads
  <2>4. server[e][i].pc # "idle" => ServerKeeps
    BY <1>3, <2>1, <2>2, BecomeKeeps
  <2> QED BY <1>4, <2>3, <2>4, InboxUnchanged DEF others, clients, bounds
<1>5. CASE RequestUnreadMessages(e, i)
  <2>1. ServerReads(e, i) /\ InboxKeeps /\ sent' = sent
    BY <1>1, <1>4, <1>5 DEF RequestUnreadMessages, Done
  <2>2. QueueKeeps
    BY <1>5, QueueUnchanged DEF RequestUnreadMessages
  <2>3. ConnKeeps
    <3>1. CASE UNCHANGED network
      BY <3>1, ConnUnchanged DEF network
    <3>2. CASE Write({e}, "data", {}, None, {e})
      <4>1. Write({e}, "data", {}, [type |-> "END"], {e})
        BY <3>2 DEF Write
      <4>2. {e} \in SUBSET Elements /\ "data" \in Kinds /\ {e} \subseteq {e} /\ [type |-> "END"].type # "MESSAGE"
        BY DEF Kinds
      <4> QED BY <1>3, <4>1, <4>2, WriteKeeps
    <3> QED BY <1>5, <3>1, <3>2 DEF RequestUnreadMessages
  <2> QED BY <1>3, <2>1, <2>2, <2>3, CarriesCommand DEF Moved
<1>6. CASE MoreMessages(e, i)
  <2>1. ServerKeeps /\ InboxKeeps /\ sent' = sent
    BY <1>4, <1>6 DEF MoreMessages, At
  <2>2. QueueKeeps /\ ConnKeeps
    BY <1>6, QueueUnchanged, ConnUnchanged DEF MoreMessages, queues, network
  <2> QED BY <2>1, <2>2, CarriesAll DEF Moved
<1>7. CASE DeliverMessage(e, i)
  <2>1. ServerKeeps /\ InboxKeeps /\ sent' = sent /\ up' = up /\ routerUp' = routerUp
    BY <1>4, <1>7 DEF DeliverMessage, At, WriteThrows
  <2>2. queue[e] # << >> /\ queue' = [queue EXCEPT ![e] = Tail(queue[e])]
    BY <1>7 DEF DeliverMessage
  <2>3. Head(queue[e]) \in Messages /\ InQueue(e, 1, Head(queue[e]))
    BY <1>3, <2>2, Taken, Indexed DEF InQueue
  <2>4. QueueGives(e)
    <3>1. queue'[e] = Tail(queue[e]) /\ \A f \in Elements : f # e => queue'[f] = queue[f]
      BY <1>3, <2>2
    <3>2. \A j \in DOMAIN queue'[e] : j >= 1 /\ j + 1 \in DOMAIN queue[e] /\ queue[e][j + 1] = queue'[e][j]
      BY <1>3, <2>2, <3>1, TakenAt
    <3>3. \A f \in Elements : \A j \in DOMAIN queue[f] : j >= 1
      BY <1>3, Indexed
    <3> QED BY <3>1, <3>2, <3>3 DEF QueueGives, InQueue
  <2>5. ConnGets(e)
    <3>1. CASE UNCHANGED network
      <4>1. ConnKeeps
        BY <3>1, ConnUnchanged DEF network
      <4> QED BY <4>1 DEF ConnKeeps, ConnGets
    <3>2. CASE WriteReturns(e, [type |-> "MESSAGE", msg |-> Head(queue[e])])
      <4>1. [type |-> "MESSAGE", msg |-> Head(queue[e])] \in Items
        BY <2>3, ItemIs
      <4> QED BY <1>3, <2>1, <2>3, <3>2, <4>1, WriteReturnsGets
    <3> QED BY <1>7, <3>1, <3>2 DEF DeliverMessage, WriteThrows
  <2> QED BY <1>3, <2>1, <2>4, <2>5, CarriesFromQueue DEF Moved
<1>8. CASE NoMoreMessages(e, i)
  <2>1. ServerKeeps /\ InboxKeeps /\ sent' = sent /\ up' = up /\ routerUp' = routerUp
    BY <1>4, <1>8 DEF NoMoreMessages, At, WriteThrows, Done
  <2>2. QueueKeeps
    BY <1>8, QueueUnchanged DEF NoMoreMessages, queues
  <2>3. ConnKeeps
    <3>1. CASE UNCHANGED network
      BY <3>1, ConnUnchanged DEF network
    <3>2. CASE WriteReturns(e, [type |-> "END"])
      <4>1. [type |-> "END"] \in Items /\ [type |-> "END"].type # "MESSAGE"
        BY ItemIs
      <4> QED BY <1>3, <2>1, <3>2, <4>1, WriteReturnsGets
    <3> QED BY <1>8, <3>1, <3>2 DEF NoMoreMessages, WriteThrows
  <2> QED BY <2>1, <2>2, <2>3, CarriesAll DEF Moved
<1> QED BY <1>5, <1>6, <1>7, <1>8

\* The main loop of the router, its failure and its start.
LEMMA RouterMoves ==
  ASSUME Shape,
         \/ RouterLoop \/ NotifyRouterAvailable \/ NotifyRecovery
         \/ RouterCrash \/ RouterStart \/ \E e \in Elements : PopNull(e)
  PROVE  Moved
<1>1. NetworkOK /\ TableOK /\ Router \in Elements \cup {Router} /\ loop.pending \subseteq Elements
  BY DEF Shape, RouterOK
<1>2. ASSUME UNCHANGED <<clients, queues, server, sent>>, ConnKeeps
      PROVE  Moved
  <2>1. ServerKeeps /\ QueueKeeps /\ InboxKeeps
    BY <1>2, ServerUnchanged, QueueUnchanged, InboxUnchanged DEF clients, queues
  <2> QED BY <1>2, <2>1, CarriesAll DEF Moved
<1>3. ASSUME NEW id \in Elements \cup {Router}, NEW type \in {"AVAILABLE", "UNAVAILABLE"},
             NotifyElementAvailability(id, type)
      PROVE  ConnKeeps
  BY <1>1, <1>3, AvailabilityKeeps
<1>4. CASE NotifyRouterAvailable \/ NotifyRecovery
  <2>1. ConnKeeps
    BY <1>1, <1>3, <1>4 DEF NotifyRouterAvailable, NotifyRecovery
  <2> QED BY <1>2, <1>4, <2>1 DEF NotifyRouterAvailable, NotifyRecovery, bounds
<1>5. CASE NotifyPending
  <2>1. PICK id \in loop.pending :
          /\ NotifyElementAvailability(id,
               IF loop.phase = "available" THEN "AVAILABLE" ELSE "UNAVAILABLE")
          /\ UNCHANGED <<clients, queues, server, bounds>>
    BY <1>5 DEF NotifyPending
  <2>2. (IF loop.phase = "available" THEN "AVAILABLE" ELSE "UNAVAILABLE") \in {"AVAILABLE", "UNAVAILABLE"}
    OBVIOUS
  <2>3. ConnKeeps
    BY <1>1, <1>3, <2>1, <2>2
  <2> QED BY <1>2, <2>1, <2>3 DEF bounds
<1>6. CASE TakeAvailable \/ TakeUnavailable \/ Sleep
  <2>1. UNCHANGED <<clients, queues, server, sent, network>>
    BY <1>6 DEF TakeAvailable, TakeUnavailable, Sleep, bounds
  <2>2. ConnKeeps
    BY <2>1, ConnUnchanged DEF network
  <2> QED BY <1>2, <2>1, <2>2
<1>7. CASE RouterStart
  <2>1. UNCHANGED <<clients, queues, server, sent, network>>
    BY <1>7 DEF RouterStart, bounds
  <2>2. ConnKeeps
    BY <2>1, ConnUnchanged DEF network
  <2> QED BY <1>2, <2>1, <2>2
<1>8. CASE RouterCrash \/ \E e \in Elements : PopNull(e)
  <2>1. RouterFails
    BY <1>8 DEF RouterCrash, PopNull
  <2>2. ServerKeeps /\ QueueKeeps /\ InboxKeeps /\ ConnKeeps /\ sent' = sent
    BY <2>1, ServerUnchanged, QueueUnchanged, InboxUnchanged, ConnUnchanged DEF RouterFails
  <2> QED BY <2>2, CarriesAll DEF Moved
<1> QED BY <1>4, <1>5, <1>6, <1>7, <1>8 DEF RouterLoop

\* A command that is not a message.
LEMMA CommandKeeps ==
  ASSUME ServerOK, NEW e \in Elements, NEW cmd \in Commands, cmd.op # "NEW", NEW l, l = "open" => link[e] = "open",
         NEW U, sendCommandToRouter(e, cmd, l, U)
  PROVE  ServerKeeps
<1>1. CASE Arrives(e, cmd, l)
  BY <1>1, ArrivesIs, ArrivesKeeps
<1>2. CASE Vanishes(e, l) \/ WriteFails(e, l) \/ ConnectFails(e, l)
  BY <1>2, ServerUnchanged DEF Vanishes, WriteFails, ConnectFails
<1> QED BY <1>1, <1>2 DEF sendCommandToRouter

LEMMA ElementMoves ==
  ASSUME Shape, NEW e \in Elements,
         Start(e) \/ Crash(e) \/ logoutFromRouter(e) \/ ClearQueue(e) \/ retrieveMessages(e)
  PROVE  Moved
<1>1. ServerOK
  BY DEF Shape
<1>2. ASSUME routerVars' = routerVars, inbox' = inbox, network' = network, sent' = sent,
             NEW f \in Elements, NEW cmd \in Commands, cmd.op # "NEW", NEW U,
             sendCommandToRouter(f, cmd, link[f], U)
      PROVE  Moved
  <2>1. ServerKeeps
    BY <1>1, <1>2, CommandKeeps
  <2>2. QueueKeeps /\ InboxKeeps /\ ConnKeeps
    BY <1>2, QueueUnchanged, InboxUnchanged, ConnUnchanged DEF routerVars, queues, network
  <2> QED BY <1>2, <2>1, <2>2, CarriesAll DEF Moved
<1>3. /\ \A o \in {"LOGIN", "LOGOUT", "REQUEST"} : [op |-> o] \in Commands /\ [op |-> o].op # "NEW"
      /\ [op |-> "CLEAR", target |-> e] \in Commands /\ [op |-> "CLEAR", target |-> e].op # "NEW"
  BY CommandIs
<1>4. CASE Start(e)
  BY <1>2, <1>3, <1>4 DEF Start
<1>5. CASE logoutFromRouter(e)
  BY <1>2, <1>3, <1>5 DEF logoutFromRouter
<1>6. CASE ClearQueue(e)
  BY <1>2, <1>3, <1>6 DEF ClearQueue
<1>7. CASE retrieveMessages(e)
  BY <1>2, <1>3, <1>7 DEF retrieveMessages, bounds
<1>8. CASE Crash(e)
  <2>1. \A f \in Elements : inbox'[f] = inbox[f] \/ inbox'[f] = << >>
    BY <1>8 DEF Crash, Shape, ClientsOK
  <2>2. \A f \in Elements : conn'[f]["data"] = conn[f]["data"] \/ conn'[f]["data"] = << >>
    BY <1>8 DEF Crash, Shape, NetworkOK, Kinds
  <2>3. server' = server /\ queue' = queue /\ sent' = sent
    BY <1>8 DEF Crash, routerVars, queues
  <2>4. ServerKeeps /\ QueueKeeps /\ InboxKeeps /\ ConnKeeps
    BY <2>1, <2>2, <2>3, ServerUnchanged, QueueUnchanged, InboxUnchanged, ConnUnchanged
  <2> QED BY <2>3, <2>4, CarriesAll DEF Moved
<1> QED BY <1>4, <1>5, <1>6, <1>7, <1>8

LEMMA ReadControlMoves ==
  ASSUME Shape, NEW e \in Elements, ReadControl(e)
  PROVE  Moved
<1>1. PICK i \in DOMAIN conn[e]["control"] :
        /\ conn[e]["control"][i].items # << >>
        /\ \/ OtherElement(e, Head(conn[e]["control"][i].items))
           \/ RouterStillThere(e, Head(conn[e]["control"][i].items))
           \/ RouterAvailable(e, Head(conn[e]["control"][i].items))
           \/ RouterRecovered(e, Head(conn[e]["control"][i].items))
        /\ Takes(e, "control", i, None)
  BY DEF ReadControl
<1>2. UNCHANGED <<up, inbox, routerVars, bounds>>
  BY DEF ReadControl
<1> DEFINE item == Head(conn[e]["control"][i].items)
<1>3. ConnKeeps
  <2>1. "control" \in Kinds /\ "data" \in Kinds /\ None \in Messages \cup {None}
    BY DEF Kinds
  <2>2. NetworkOK /\ up' = up /\ routerUp' = routerUp
    BY <1>2 DEF Shape, routerVars
  <2>3. \A f \in Elements : conn'[f]["data"] = conn[f]["data"]
    <3>1. TakesEffect(e, "control", i, None)
      BY <1>1, <2>1, <2>2, TakesIs
    <3> QED BY <2>1, <3>1 DEF TakesEffect
  <2> QED BY <2>3, ConnUnchanged
<1>4. ServerKeeps
  <2>1. CASE OtherElement(e, item) \/ RouterStillThere(e, item)
    BY <2>1, ServerUnchanged DEF OtherElement, RouterStillThere
  <2>2. ServerOK /\ [op |-> "LOGIN"] \in Commands /\ [op |-> "LOGIN"].op # "NEW"
    BY CommandIs DEF Shape
  <2>3. CASE RouterAvailable(e, item)
    BY <2>2, <2>3, CommandKeeps DEF RouterAvailable
  <2>4. CASE RouterRecovered(e, item)
    BY <2>2, <2>4, CommandKeeps DEF RouterRecovered
  <2> QED BY <1>1, <2>1, <2>3, <2>4
<1>5. QueueKeeps /\ InboxKeeps /\ sent' = sent
  BY <1>2, QueueUnchanged, InboxUnchanged DEF routerVars, queues, bounds
<1> QED BY <1>3, <1>4, <1>5, CarriesAll DEF Moved

LEMMA ReadDataMoves ==
  ASSUME Shape, NEW e \in Elements, ReadData(e)
  PROVE  Moved
<1>1. PICK i \in DOMAIN conn[e]["data"] :
        /\ conn[e]["data"][i].items # << >>
        /\ \/ newMessageInRouter(e, i, Head(conn[e]["data"][i].items))
           \/ StartMessage(e, i, Head(conn[e]["data"][i].items))
           \/ EndOfMessages(e, i, Head(conn[e]["data"][i].items))
  BY DEF ReadData
<1>2. UNCHANGED <<up, unavailableElements, link, locked, routerVars, server, bounds>>
  BY DEF ReadData
<1> DEFINE item == Head(conn[e]["data"][i].items)
           c == conn[e]["data"][i]
<1>3. "data" \in Kinds
  BY DEF Kinds
<1>4. /\ item \in Items /\ item = c.items[1] /\ c.items \in Seq(Items)
      /\ c.partial \in Messages \cup {None}
  BY <1>1, <1>3, ItemRead
<1>5. /\ NetworkOK /\ ClientsOK /\ up' = up /\ routerUp' = routerUp /\ i \in Nat
      /\ ServerKeeps /\ QueueKeeps /\ sent' = sent
  <2>1. i \in Nat
    BY <1>3, Indexed DEF Shape, NetworkOK
  <2> QED BY <1>2, <2>1, ServerUnchanged, QueueUnchanged DEF Shape, routerVars, queues, bounds
<1>6. ASSUME NEW partial \in Messages \cup {None}, Takes(e, "data", i, partial)
      PROVE  /\ \A f \in Elements, k, j \in Nat, m \in Messages :
                  Going(f, k, j, m)' => j >= 1 /\ IF f = e /\ k = i THEN Going(f, k, j + 1, m)
                                                   ELSE Going(f, k, j, m)
             /\ \A f \in Elements, k \in Nat, m \in Messages :
                  Collected(f, k, m)' => IF f = e /\ k = i THEN partial # None /\ m = partial
                                         ELSE Collected(f, k, m)
  BY <1>1, <1>3, <1>5, <1>6, TakesIs, TakesGives
<1>7. CASE newMessageInRouter(e, i, item)
  <2>1. inbox' = inbox /\ Takes(e, "data", i, c.partial)
    BY <1>7 DEF newMessageInRouter
  <2>2. InboxKeeps
    BY <2>1, InboxUnchanged
  <2>3. /\ \A f \in Elements, k, j \in Nat, m \in Messages :
             Going(f, k, j, m)' => j >= 1 /\ IF f = e /\ k = i THEN Going(f, k, j + 1, m)
                                              ELSE Going(f, k, j, m)
        /\ \A f \in Elements, k \in Nat, m \in Messages :
             Collected(f, k, m)' => IF f = e /\ k = i THEN c.partial # None /\ m = c.partial
                                    ELSE Collected(f, k, m)
    BY <1>4, <1>6, <2>1
  <2>4. \A f \in Elements, k \in Nat, m \in Messages : Collected(f, k, m)' => Collected(f, k, m)
    BY <1>1, <2>3 DEF Collected
  <2> QED BY <1>5, <2>2, <2>3, <2>4, CarriesNews DEF Moved
<1>8. ASSUME newMessageRead(e, c.partial)
      PROVE  \A f \in Elements, j \in Nat, m \in Messages : IsRead(f, j, m)' =>
               IsRead(f, j, m) \/ (f = e /\ j = Len(inbox[e]) + 1 /\ Collected(e, i, m))
  <2>1. CASE c.partial = None
    BY <1>8, <2>1 DEF newMessageRead, IsRead
  <2>2. CASE c.partial # None
    <3>1. PICK q \in Seq(Messages) : q = inbox[e]
      BY <1>5 DEF ClientsOK
    <3>2. inbox'[e] = Append(q, c.partial) /\ \A f \in Elements : f # e => inbox'[f] = inbox[f]
      BY <1>5, <1>8, <2>2, <3>1 DEF newMessageRead, ClientsOK
    <3>3. c.partial \in Messages
      BY <1>4, <2>2
    <3>4. \A j \in DOMAIN Append(q, c.partial) :
            \/ j \in DOMAIN q /\ Append(q, c.partial)[j] = q[j]
            \/ j = Len(q) + 1 /\ Append(q, c.partial)[j] = c.partial
      BY <3>3, AppendedAt
    <3>5. Collected(e, i, c.partial)
      BY <1>1, <2>2 DEF Collected
    <3> QED BY <3>1, <3>2, <3>4, <3>5 DEF IsRead
  <2> QED BY <2>1, <2>2
<1>9. CASE StartMessage(e, i, item)
  <2>1. item.type = "MESSAGE" /\ newMessageRead(e, c.partial) /\ Takes(e, "data", i, item.msg)
    BY <1>9 DEF StartMessage
  <2>2. item.msg \in Messages \cup {None} /\ Going(e, i, 1, item.msg)
    <3>1. 1 \in DOMAIN c.items
      BY <1>1, <1>4, Indexed
    <3>2. c.items[1].type = "MESSAGE" /\ item.msg = c.items[1].msg
      BY <1>4, <2>1
    <3>3. Going(e, i, 1, item.msg)
      BY <1>1, <3>1, <3>2 DEF Going
    <3> QED BY <1>4, <2>1, <3>3, ItemIs
  <2>3. /\ \A f \in Elements, k, j \in Nat, m \in Messages :
             Going(f, k, j, m)' => j >= 1 /\ IF f = e /\ k = i THEN Going(f, k, j + 1, m)
                                              ELSE Going(f, k, j, m)
        /\ \A f \in Elements, k \in Nat, m \in Messages :
             Collected(f, k, m)' => IF f = e /\ k = i THEN Going(f, k, 1, m) ELSE Collected(f, k, m)
    <3>1. PICK partial \in Messages \cup {None} : partial = item.msg
      BY <2>2
    <3>2. Takes(e, "data", i, partial) /\ Going(e, i, 1, partial)
      BY <2>1, <2>2, <3>1
    <3> QED BY <1>6, <3>2
  <2> QED BY <1>5, <1>8, <2>1, <2>3, CarriesToInbox DEF Moved
<1>10. CASE EndOfMessages(e, i, item)
  <2>1. newMessageRead(e, c.partial) /\ Takes(e, "data", i, None) /\ None \in Messages \cup {None}
    BY <1>10 DEF EndOfMessages
  <2>3. /\ \A f \in Elements, k, j \in Nat, m \in Messages :
             Going(f, k, j, m)' => j >= 1 /\ IF f = e /\ k = i THEN Going(f, k, j + 1, m)
                                              ELSE Going(f, k, j, m)
        /\ \A f \in Elements, k \in Nat, m \in Messages :
             Collected(f, k, m)' => IF f = e /\ k = i THEN Going(f, k, 1, m) ELSE Collected(f, k, m)
    BY <1>6, <2>1
  <2> QED BY <1>5, <1>8, <2>1, <2>3, CarriesToInbox DEF Moved
<1> QED BY <1>1, <1>7, <1>9, <1>10

\* A new message goes to the end of the sender's connection, or nowhere.
LEMMA SendKeeps ==
  ASSUME Shape, Unique, Known, NEW e \in Elements, NEW to \in Elements \ {e}, sendMessage(e, to)
  PROVE  /\ Unique' /\ Known'
         /\ Ordered /\ OneEach' => Ordered'
<1> DEFINE msg == [from |-> e, to |-> to, n |-> sent]
           cmd == [op |-> "NEW", msg |-> msg]
<1>1. sent \in 0 .. Budget["send"] - 1 /\ BoundsOK /\ ServerOK /\ sent' = sent + 1
  BY BudgetAssumption DEF sendMessage, Spend, Shape, BoundsOK, Events
<1>2. msg \in Messages /\ msg.from = e /\ msg.n = sent
  BY <1>1 DEF Messages
<1>3. cmd \in Commands /\ cmd.msg = msg
  BY <1>2, CommandIs
<1>4. QueueKeeps /\ InboxKeeps /\ ConnKeeps
  BY QueueUnchanged, InboxUnchanged, ConnUnchanged DEF sendMessage, routerVars, queues, network
<1>5. Shape'
  BY ElementShape
<1>6. \/ Arrives(e, cmd, link[e])
      \/ server' = server
  BY DEF sendMessage, Vanishes, WriteFails, ConnectFails
<1> HIDE DEF msg, cmd
<1>7. \E i, j \in Nat :
        Enters(e, i, j, msg)
  <2>0. ASSUME NEW k \in Nat, k \in DOMAIN server'[e]
        PROVE  k # 0 /\ server'[e][k].in \in Seq(Commands)
    <3>1. server'[e] \in Seq(ThreadStates)
      BY <1>5 DEF Shape, ServerOK
    <3>2. k # 0 /\ server'[e][k] \in ThreadStates
      BY <2>0, <3>1, Indexed
    <3> QED BY <3>2 DEF ThreadStates
  <2>1. CASE server' = server
    <3>1. ServerKeeps
      BY <2>1, ServerUnchanged
    <3>2. \A l \in Nat, m \in Messages : ~ Coming(e, 0, l, m)'
      BY <2>0 DEF Coming
    <3> QED BY <3>1, <3>2 DEF ServerKeeps, Enters
  <2>2. CASE Arrives(e, cmd, link[e])
    <3>1. ArrivesEffect(e, cmd) /\ server'[e] # << >>
      BY <1>1, <1>3, <2>2, ArrivesIs
    <3>2. server'[e] \in Seq(ThreadStates)
      BY <1>5 DEF Shape, ServerOK
    <3>3. PICK i \in Nat : i = Len(server'[e]) /\ i \in DOMAIN server'[e]
      BY <3>1, <3>2, Indexed
    <3>4. PICK j \in Nat : j = Len(server'[e][i].in) /\ DOMAIN server'[e][i].in = 1 .. j
      BY <2>0, <3>3, Indexed
    <3>5. /\ \A f \in Elements, k, l \in Nat, m \in Messages :
               Coming(f, k, l, m)' => Coming(f, k, l, m) \/ (f = e /\ k = i /\ l = j /\ m = msg)
          /\ \A f \in Elements, k \in Nat, m \in Messages : Handled(f, k, m)' => Handled(f, k, m)
      BY <1>1, <1>3, <3>1, <3>3, <3>4, ArrivesKeeps
    <3>6. \A l \in Nat, m \in Messages : Coming(e, i, l, m)' => l <= j
      BY <3>4 DEF Coming
    <3> QED BY <3>5, <3>6 DEF Enters
  <2> QED BY <1>6, <2>1, <2>2
<1>8. PICK i, j \in Nat :
        Enters(e, i, j, msg)
  BY <1>7
<1>9. /\ Unique' /\ Known'
      /\ Adds(e, i, j, msg)
  BY <1>1, <1>2, <1>4, <1>8, SentUnique
<1>10. ASSUME Ordered, OneEach' PROVE Ordered'
  BY <1>1, <1>2, <1>8, <1>9, <1>10, SentOrder
<1> QED BY <1>9, <1>10

\* Every step.
LEMMA MovesStep ==
  ASSUME Shape, Unique, Known, [Next]_vars
  PROVE  /\ Unique' /\ Known'
         /\ Ordered /\ OneEach /\ OneEach' => Ordered'
<1>1. ASSUME Moved
      PROVE  Unique' /\ Known' /\ (Ordered /\ OneEach /\ OneEach' => Ordered')
  <2>1. PICK src : Carries(src) /\ KeepsOrder(src)
    BY <1>1 DEF Moved
  <2>2. BoundsOK /\ sent' = sent
    BY <1>1 DEF Shape, Moved
  <2>3. Unique' /\ Known'
    BY <2>1, <2>2, CarriedUnique
  <2> QED BY <2>1, <2>3, CarriedOrder
<1>2. CASE UNCHANGED vars
  <2>1. ServerKeeps /\ QueueKeeps /\ InboxKeeps /\ ConnKeeps /\ sent' = sent
    BY <1>2, ServerUnchanged, QueueUnchanged, InboxUnchanged, ConnUnchanged
       DEF vars, clients, queues, network, bounds
  <2>2. Moved
    BY <2>1, CarriesAll DEF Moved
  <2> QED BY <1>1, <2>2
<1>3. ASSUME NEW e \in Elements, RouterThread(e)
      PROVE  Moved
  BY <1>3, ThreadTableMoves, ThreadStoreMoves, ThreadDeliverMoves DEF RouterThread
<1>4. ASSUME NEW e \in Elements, NEW to \in Elements \ {e}, sendMessage(e, to)
      PROVE  Unique' /\ Known' /\ (Ordered /\ OneEach /\ OneEach' => Ordered')
  BY <1>4, SendKeeps
<1>5. CASE Environment
  BY <1>1, <1>4, <1>5, ElementMoves, RouterMoves DEF Environment
<1>6. ASSUME NEW e \in Elements,
             RouterThread(e) \/ PopNull(e) \/ retrieveMessages(e) \/ ReadData(e) \/ ReadControl(e)
      PROVE  Moved
  BY <1>3, <1>6, RouterMoves, ElementMoves, ReadDataMoves, ReadControlMoves
<1>7. CASE RouterLoop \/ RouterStart \/ NotifyRecovery
  BY <1>1, <1>7, RouterMoves
<1> QED BY <1>1, <1>2, <1>5, <1>6, <1>7 DEF Next

LEMMA NothingAtFirst ==
  ASSUME Init PROVE \A p \in PlaceSet, m \in Messages : ~ Holds(p, m)
<1>1. DOMAIN << >> = {} /\ DOMAIN <<Serving(<< >>)>> = {1}
      /\ <<Serving(<< >>)>>[1].in = << >> /\ <<Serving(<< >>)>>[1].pc = "idle"
  BY DEF Serving
<1>2. ASSUME NEW e \in Elements
      PROVE  \A i, j \in Nat, m \in Messages :
        /\ ~ Coming(e, i, j, m) /\ ~ Handled(e, i, m) /\ ~ InQueue(e, j, m)
        /\ ~ Going(e, i, j, m) /\ ~ Collected(e, i, m) /\ ~ IsRead(e, j, m)
  <2>1. server[e] = << >> \/ server[e] = <<Serving(<< >>)>>
    BY DEF Init
  <2>2. queue[e] = << >> /\ inbox[e] = << >> /\ conn[e]["data"] = << >>
    BY DEF Init, Kinds
  <2>3. \A i \in DOMAIN server[e] : server[e][i].in = << >> /\ server[e][i].pc = "idle"
    BY <1>1, <2>1
  <2> QED BY <1>1, <2>2, <2>3 DEF Coming, Handled, InQueue, Going, Collected, IsRead
<1> QED BY <1>2, PlaceIs DEF Holds

\* The number of a message is in one place at most: its sender's connection, a
\* thread of the router, the queue of its target, the way from there, or the
\* inbox.  No failure of a process brings it back (RouterServerSocket::
\* storeNewMessage and sendRequestedMessages, ServerSocket::OnLine).
THEOREM AlwaysUnique == MessagingSpec => [](Unique /\ Known)
<1>1. Init => Unique /\ Known
  BY NothingAtFirst DEF Unique, Known
<1>2. Shape /\ Unique /\ Known /\ [Next]_vars => (Unique /\ Known)'
  BY MovesStep
<1> QED BY <1>1, <1>2, AlwaysShape, PTL DEF MessagingSpec

\* The places of the module hold the messages it says.
LEMMA PlacesHold ==
  ASSUME Shape, NEW e \in Elements, NEW p \in Places(e)
  PROVE  p \in PlaceSet /\ MessageAt(p) \in Messages /\ Holds(p, MessageAt(p)) /\ p[2] = e
<1>0. "data" \in Kinds
  BY DEF Kinds
<1>1. ASSUME NEW i \in DOMAIN server[e]
      PROVE  /\ i \in Nat
             /\ \A j \in DOMAIN server[e][i].in :
                  j \in Nat /\ (server[e][i].in[j].op = "NEW" => server[e][i].in[j].msg \in Messages)
             /\ server[e][i].pc \in {"park", "push"} => server[e][i].cmd.msg \in Messages
  <2>1. server[e] \in Seq(ThreadStates)
    BY DEF Shape, ServerOK
  <2>2. i \in Nat /\ server[e][i] \in ThreadStates
    BY <2>1, Indexed
  <2>3. server[e][i].in \in Seq(Commands)
    BY <2>2 DEF ThreadStates
  <2>4. \A j \in DOMAIN server[e][i].in : j \in Nat /\ server[e][i].in[j] \in Commands
    BY <2>3, Indexed
  <2>5. server[e][i].pc \in {"park", "push"} => server[e][i].cmd \in NewCommands
    BY DEF Shape, ServerOK
  <2> QED BY <2>2, <2>4, <2>5, CommandIs
<1>2. ASSUME NEW i \in DOMAIN conn[e]["data"]
      PROVE  /\ i \in Nat
             /\ \A j \in DOMAIN conn[e]["data"][i].items :
                  j \in Nat /\ (conn[e]["data"][i].items[j].type = "MESSAGE" =>
                                  conn[e]["data"][i].items[j].msg \in Messages)
             /\ conn[e]["data"][i].partial # None => conn[e]["data"][i].partial \in Messages
  <2>1. conn[e]["data"] \in Seq(Connections)
    BY <1>0 DEF Shape, NetworkOK
  <2>2. i \in Nat /\ conn[e]["data"][i] \in Connections
    BY <2>1, Indexed
  <2>3. conn[e]["data"][i].items \in Seq(Items) /\ conn[e]["data"][i].partial \in Messages \cup {None}
    BY <2>2 DEF Connections
  <2>4. \A j \in DOMAIN conn[e]["data"][i].items : j \in Nat /\ conn[e]["data"][i].items[j] \in Items
    BY <2>3, Indexed
  <2> QED BY <2>2, <2>3, <2>4, ItemIs
<1>3. /\ \A j \in DOMAIN queue[e] : j \in Nat /\ queue[e][j] \in Messages
      /\ \A j \in DOMAIN inbox[e] : j \in Nat /\ inbox[e][j] \in Messages
  BY Indexed DEF Shape, QueuesOK, ClientsOK
<1>4. ASSUME NEW i \in DOMAIN server[e], NEW j \in DOMAIN server[e][i].in, server[e][i].in[j].op = "NEW",
             p = <<"coming", e, i, j>>
      PROVE  p \in PlaceSet /\ MessageAt(p) \in Messages /\ Holds(p, MessageAt(p)) /\ p[2] = e
  <2>1. p \in PlaceSet
    BY <1>1, <1>4, PlaceIs
  <2>2. MessageAt(p) = server[e][i].in[j].msg
    BY <1>4 DEF MessageAt
  <2> QED BY <1>1, <1>4, <2>1, <2>2 DEF Holds, Coming
<1>5. ASSUME NEW i \in DOMAIN server[e], server[e][i].pc \in {"park", "push"}, p = <<"handled", e, i, 0>>
      PROVE  p \in PlaceSet /\ MessageAt(p) \in Messages /\ Holds(p, MessageAt(p)) /\ p[2] = e
  <2>1. p \in PlaceSet
    BY <1>1, <1>5, PlaceIs
  <2>2. MessageAt(p) = server[e][i].cmd.msg
    BY <1>5 DEF MessageAt
  <2> QED BY <1>1, <1>5, <2>1, <2>2 DEF Holds, Handled
<1>6. ASSUME NEW j \in DOMAIN queue[e], p = <<"queued", e, 0, j>>
      PROVE  p \in PlaceSet /\ MessageAt(p) \in Messages /\ Holds(p, MessageAt(p)) /\ p[2] = e
  <2>1. p \in PlaceSet
    BY <1>3, <1>6, PlaceIs
  <2>2. MessageAt(p) = queue[e][j]
    BY <1>6 DEF MessageAt
  <2> QED BY <1>3, <1>6, <2>1, <2>2 DEF Holds, InQueue
<1>7. ASSUME NEW i \in DOMAIN conn[e]["data"], NEW j \in DOMAIN conn[e]["data"][i].items,
             conn[e]["data"][i].items[j].type = "MESSAGE", p = <<"going", e, i, j>>
      PROVE  p \in PlaceSet /\ MessageAt(p) \in Messages /\ Holds(p, MessageAt(p)) /\ p[2] = e
  <2>1. p \in PlaceSet
    BY <1>2, <1>7, PlaceIs
  <2>2. MessageAt(p) = conn[e]["data"][i].items[j].msg
    BY <1>7 DEF MessageAt
  <2> QED BY <1>2, <1>7, <2>1, <2>2 DEF Holds, Going
<1>8. ASSUME NEW i \in DOMAIN conn[e]["data"], conn[e]["data"][i].partial # None, p = <<"partial", e, i, 0>>
      PROVE  p \in PlaceSet /\ MessageAt(p) \in Messages /\ Holds(p, MessageAt(p)) /\ p[2] = e
  <2>1. p \in PlaceSet
    BY <1>2, <1>8, PlaceIs
  <2>2. MessageAt(p) = conn[e]["data"][i].partial
    BY <1>8 DEF MessageAt
  <2> QED BY <1>2, <1>8, <2>1, <2>2 DEF Holds, Collected
<1>9. ASSUME NEW j \in DOMAIN inbox[e], p = <<"read", e, 0, j>>
      PROVE  p \in PlaceSet /\ MessageAt(p) \in Messages /\ Holds(p, MessageAt(p)) /\ p[2] = e
  <2>1. p \in PlaceSet
    BY <1>3, <1>9, PlaceIs
  <2>2. MessageAt(p) = inbox[e][j]
    BY <1>9 DEF MessageAt
  <2> QED BY <1>3, <1>9, <2>1, <2>2 DEF Holds, IsRead
<1>10. \/ \E i \in DOMAIN server[e] : \E j \in DOMAIN server[e][i].in :
            server[e][i].in[j].op = "NEW" /\ p = <<"coming", e, i, j>>
       \/ \E i \in DOMAIN server[e] : server[e][i].pc \in {"park", "push"} /\ p = <<"handled", e, i, 0>>
       \/ \E j \in DOMAIN queue[e] : p = <<"queued", e, 0, j>>
       \/ \E i \in DOMAIN conn[e]["data"] : \E j \in DOMAIN conn[e]["data"][i].items :
            conn[e]["data"][i].items[j].type = "MESSAGE" /\ p = <<"going", e, i, j>>
       \/ \E i \in DOMAIN conn[e]["data"] : conn[e]["data"][i].partial # None /\ p = <<"partial", e, i, 0>>
       \/ \E j \in DOMAIN inbox[e] : p = <<"read", e, 0, j>>
  <2>2. ASSUME p \in ComingFrom(e)
        PROVE  \E i \in DOMAIN server[e] : \E j \in DOMAIN server[e][i].in :
                 server[e][i].in[j].op = "NEW" /\ p = <<"coming", e, i, j>>
    BY <2>2 DEF ComingFrom
  <2>3. ASSUME p \in HandledFor(e)
        PROVE  \E i \in DOMAIN server[e] : server[e][i].pc \in {"park", "push"} /\ p = <<"handled", e, i, 0>>
    BY <2>3 DEF HandledFor
  <2>4. ASSUME p \in GoingTo(e)
        PROVE  \E i \in DOMAIN conn[e]["data"] : \E j \in DOMAIN conn[e]["data"][i].items :
                 conn[e]["data"][i].items[j].type = "MESSAGE" /\ p = <<"going", e, i, j>>
    BY <2>4 DEF GoingTo
  <2>5. ASSUME p \in CollectedBy(e)
        PROVE  \E i \in DOMAIN conn[e]["data"] : conn[e]["data"][i].partial # None /\ p = <<"partial", e, i, 0>>
    BY <2>5 DEF CollectedBy
  <2>6. p \in QueuedFor(e) => \E j \in DOMAIN queue[e] : p = <<"queued", e, 0, j>>
    BY DEF QueuedFor
  <2>7. p \in ReadBy(e) => \E j \in DOMAIN inbox[e] : p = <<"read", e, 0, j>>
    BY DEF ReadBy
  <2> QED BY <2>2, <2>3, <2>4, <2>5, <2>6, <2>7 DEF Places
<1> QED BY <1>4, <1>5, <1>6, <1>7, <1>8, <1>9, <1>10

\* A message is never delivered twice, whatever fails and however many
\* connections and threads serve an element.
THEOREM MessagesAreNeverTwice == MessagingSpec => []NeverTwice
<1>1. Shape /\ Unique => NeverTwice
  <2> SUFFICES ASSUME Shape, Unique,
                      NEW e \in Elements, NEW f \in Elements, NEW p \in Places(e), NEW q \in Places(f),
                      MessageAt(p).n = MessageAt(q).n
               PROVE  p = q
    BY DEF NeverTwice
  <2>1. p \in PlaceSet /\ MessageAt(p) \in Messages /\ Holds(p, MessageAt(p))
    BY PlacesHold
  <2>2. q \in PlaceSet /\ MessageAt(q) \in Messages /\ Holds(q, MessageAt(q))
    BY PlacesHold
  <2> QED BY <2>1, <2>2 DEF Unique
<1> QED BY <1>1, AlwaysShape, AlwaysUnique, PTL

-----------------------------------------------------------------------------
(* While nobody logs in or out, no queue is cleared and the router does    *)
(* not fail: elements may fail, send and read.                             *)

Faults == {"start", "logout", "clear", "routercrash"}
Steady == \A k \in Faults : Budget[k] = 0

\* The table does not change, ...
CalmTable ==
  /\ \A k \in Faults : budget[k] = 0
  /\ registered = Started /\ addressed = Started

\* ... an element that runs keeps its link and is not taken to be unavailable, ...
CalmElements ==
  \A e \in Elements : up[e] =>
    /\ e \in Started /\ e \notin unavailableIds
    /\ link[e] = "open" /\ Router \notin unavailableElements[e]

\* ... the main loop has news about unavailable elements only, ...
CalmRouter ==
  /\ routerUp /\ loop.phase # "recovered" /\ toNotifyAvailability = {}
  /\ loop.phase # "unavailable" => loop.pending = {}

\* ... an element has one thread in the router, which has to do with messages
\* only and finds the queue as it left it, ...
CalmThread(t, waiting) ==
  /\ \A j \in DOMAIN t.in : t.in[j].op \in {"NEW", "REQUEST"}
  /\ t.pc \notin {"joining", "leaving", "login", "pending"}
  /\ t.pc = "park" => t.cmd.msg.to \notin Started
  /\ t.pc \in {"push", "notify"} => t.cmd.msg.to \in Started
  /\ t.pc = "pop" => waiting # << >>
CalmThreads ==
  \A e \in Elements :
    Len(server[e]) <= 1 /\ \A i \in DOMAIN server[e] : CalmThread(server[e][i], queue[e])

\* ... and one connection of each kind, as long as it runs.
News(item) == \/ item.type = "AVAILABLE" /\ item.id = Router
              \/ item.type = "UNAVAILABLE" /\ item.id \in Elements
CalmNetwork ==
  \A e \in Elements, k \in Kinds :
    /\ Len(conn[e][k]) <= 1
    /\ conn[e][k] # << >> => sock[e][k] = "open"
    /\ sock[e][k] = "stale" => ~ up[e]
    /\ k = "control" => \A i \in DOMAIN conn[e][k] :
         \A j \in DOMAIN conn[e][k][i].items : News(conn[e][k][i].items[j])

Calm == CalmTable /\ CalmElements /\ CalmRouter /\ CalmThreads /\ CalmNetwork

\* The news that id is unavailable is on its way to e, or there.
NewsWritten(e, id) ==
  \E i \in DOMAIN conn[e]["control"] : \E j \in DOMAIN conn[e]["control"][i].items :
    conn[e]["control"][i].items[j].type = "UNAVAILABLE" /\ conn[e]["control"][i].items[j].id = id
Spreading(e, id) ==
  \/ id \in toNotifyUnavailability
  \/ loop.phase = "unavailable" /\ id \in loop.pending
  \/ NewsWritten(e, id)
  \/ id \in unavailableElements[e]
Spread ==
  \A id \in unavailableIds, e \in Elements :
    up[e] /\ e # id /\ ~ (e = Proxy /\ id \in Internal) => Spreading(e, id)

\* What is written is there, and so is all that was there before.
LEMMA WrittenHas ==
  ASSUME NEW cs \in Seq(Connections), cs # << >>, NEW item \in Items
  PROVE  /\ Len(Written(cs, item)) = Len(cs) /\ DOMAIN Written(cs, item) = DOMAIN cs
         /\ Len(cs) \in DOMAIN cs
         /\ \A i \in DOMAIN cs : \A j \in DOMAIN cs[i].items :
              j \in DOMAIN Written(cs, item)[i].items /\ Written(cs, item)[i].items[j] = cs[i].items[j]
         /\ LET n == Len(cs[Len(cs)].items) + 1 IN
            n \in DOMAIN Written(cs, item)[Len(cs)].items /\ Written(cs, item)[Len(cs)].items[n] = item
<1>1. /\ Len(Written(cs, item)) = Len(cs) /\ DOMAIN Written(cs, item) = DOMAIN cs
      /\ Len(cs) \in DOMAIN cs
      /\ Written(cs, item)[Len(cs)] = [cs[Len(cs)] EXCEPT !.items = Append(@, item)]
      /\ \A k \in DOMAIN cs : k # Len(cs) => Written(cs, item)[k] = cs[k]
  BY WrittenIs
<1>2. cs[Len(cs)] \in Connections
  BY <1>1, Indexed
<1>3. PICK s \in Seq(Items) : s = cs[Len(cs)].items /\ Written(cs, item)[Len(cs)].items = Append(s, item)
  BY <1>1, <1>2 DEF Connections
<1>4. /\ Len(s) \in Nat /\ DOMAIN s = 1 .. Len(s) /\ DOMAIN Append(s, item) = 1 .. Len(s) + 1
      /\ Append(s, item)[Len(s) + 1] = item
      /\ \A i \in DOMAIN s : Append(s, item)[i] = s[i]
  BY Appended
<1>5. \A j \in DOMAIN s : j \in DOMAIN Append(s, item)
  BY <1>4
<1>6. Len(s) + 1 \in DOMAIN Append(s, item)
  BY <1>4
<1> QED BY <1>1, <1>3, <1>4, <1>5, <1>6, ZenonT(60)

\* Writing in calm times: an element that runs gets the item on its one
\* connection, which is made if there is none; one that is gone gets nothing.
CalmWritten(e, k, item, silent) ==
  /\ sock'[e][k] = "open"
  /\ \E cs \in Seq(Connections) :
       /\ cs # << >> /\ conn'[e][k] = IF e \in silent THEN cs ELSE Written(cs, item)
       /\ \/ cs = conn[e][k]
          \/ cs = Append(conn[e][k], NewConnection) /\ conn[e][k] = << >>
CalmWriteEffect(To, k, item, silent) ==
  /\ \A e \in Elements, kk \in Kinds :
       e \notin To \/ ~ up[e] \/ kk # k =>
         conn'[e][kk] = conn[e][kk] /\ (up[e] => sock'[e][kk] = sock[e][kk])
  /\ \A e \in To : up[e] => CalmWritten(e, k, item, silent)
  /\ registered' = registered /\ addressed' = addressed

LEMMA CalmWriteIs ==
  ASSUME Shape, Calm, NEW To \in SUBSET registered, NEW k \in Kinds, NEW broken, NEW silent,
         NEW item, item \in Items \/ To \subseteq silent, Write(To, k, broken, item, silent)
  PROVE  /\ CalmWriteEffect(To, k, item, silent)
         /\ \A e \in Failed(To, k, broken) : ~ up[e]
<1>0. NetworkOK /\ To \in SUBSET Elements
  BY DEF Shape, RouterOK, TableOK
<1>1. WriteEffect(To, k, broken, item, silent)
  BY <1>0, WriteIs
<1>2. NotWritten(To, k, broken)
  BY <1>1 DEF WriteEffect
<1>3. \A e \in To \ Failed(To, k, broken) :
        WrittenFresh(e, k, item, silent) \/ WrittenAgain(e, k, item, silent)
  BY <1>1 DEF WriteEffect
<1>4. \A e \in Elements : sock[e] \in [Kinds -> SocketStates] /\ conn[e] \in [Kinds -> Seq(Connections)]
  BY <1>0 DEF NetworkOK
<1>5. ASSUME NEW e \in Elements, up[e]
      PROVE  Reused(e, k) = sock[e] /\ sock[e][k] \in {"none", "open"} /\ e \in addressed
  BY <1>4, <1>5 DEF Calm, CalmElements, CalmTable, CalmNetwork, Reused, SocketStates
<1>6. ASSUME NEW e \in Failed(To, k, broken)
      PROVE  ~ up[e]
  <2>1. e \in Elements /\ (CannotConnect(e, k) \/ IsStale(e, k))
    BY <1>0 DEF Failed
  <2> QED BY <1>5, <2>1 DEF CannotConnect, IsStale
<1>7. ASSUME NEW e \in To, up[e]
      PROVE  CalmWritten(e, k, item, silent)
  <2>1. e \in Elements /\ e \notin Failed(To, k, broken)
    BY <1>0, <1>6, <1>7
  <2>2. CASE sock[e][k] = "open"
    <3>1. conn[e][k] \in Seq(Connections) /\ conn[e][k] # << >>
      BY <1>0, <1>4, <2>1, <2>2 DEF NetworkOK
    <3>2. sock'[e][k] = "open" /\ conn'[e][k] = IF e \in silent THEN conn[e][k] ELSE Written(conn[e][k], item)
      BY <1>3, <1>5, <1>7, <2>1, <2>2 DEF WrittenFresh, WrittenAgain
    <3> QED BY <3>1, <3>2 DEF CalmWritten
  <2>3. CASE sock[e][k] = "none"
    <3>1. conn[e][k] = << >>
      BY <2>1, <2>3 DEF Calm, CalmNetwork
    <3>2. WrittenFresh(e, k, item, silent)
      BY <1>3, <1>5, <1>7, <2>1, <2>3 DEF WrittenAgain
    <3>3. sock'[e][k] = "open"
      BY <1>4, <1>5, <1>7, <2>1, <3>2 DEF WrittenFresh
    <3>4. Append(conn[e][k], NewConnection) \in Seq(Connections) /\ Append(conn[e][k], NewConnection) # << >>
      BY <1>4, <2>1, Appended, NewConnectionIs
    <3> QED BY <3>1, <3>2, <3>3, <3>4 DEF WrittenFresh, CalmWritten
  <2> QED BY <1>5, <1>7, <2>1, <2>2, <2>3
<1>8. ASSUME NEW e \in Elements, NEW kk \in Kinds, e \notin To \/ ~ up[e] \/ kk # k
      PROVE  conn'[e][kk] = conn[e][kk] /\ (up[e] => sock'[e][kk] = sock[e][kk])
  <2>1. CASE e \notin To
    BY <1>2, <2>1 DEF NotWritten
  <2>2. CASE e \in To /\ up[e] /\ kk # k
    <3>1. sock'[e] = sock[e] \/ sock'[e] = [sock[e] EXCEPT ![k] = "open"]
      BY <1>3, <1>5, <1>6, <2>2 DEF WrittenFresh, WrittenAgain
    <3> QED BY <1>2, <1>4, <2>2, <3>1 DEF NotWritten
  <2>3. CASE e \in To /\ ~ up[e]
    <3>1. CASE kk # k \/ e \in Failed(To, k, broken)
      BY <1>2, <2>3, <3>1 DEF NotWritten
    <3>2. CASE kk = k /\ e \notin Failed(To, k, broken)
      <4>1. Reused(e, k)[k] # "none"
        BY <2>3, <3>2 DEF Failed, CannotConnect
      <4>2. Reused(e, k)[k] # "open"
        BY <1>0, <2>3, <4>1 DEF Reused, NetworkOK, NoSockets
      <4> QED BY <1>3, <2>3, <3>2, <4>1, <4>2 DEF WrittenFresh, WrittenAgain
    <3> QED BY <3>1, <3>2
  <2> QED BY <1>8, <2>1, <2>2, <2>3
<1>9. registered' = registered /\ addressed' = addressed
  BY <1>1 DEF WriteEffect
<1> QED BY <1>6, <1>7, <1>8, <1>9 DEF CalmWriteEffect

LEMMA CalmWriteNetwork ==
  ASSUME Shape, Calm, NEW To \in SUBSET Elements, NEW k \in Kinds, NEW silent, NEW item,
         item \in Items \/ To \subseteq silent, k = "control" => News(item),
         CalmWriteEffect(To, k, item, silent), up' = up
  PROVE  /\ CalmNetwork'
         /\ \A e, id \in Elements : NewsWritten(e, id) => NewsWritten(e, id)'
         /\ k = "control" /\ item.type = "UNAVAILABLE" =>
              \A e \in To \ silent : up[e] => NewsWritten(e, item.id)'
<1>0. \A e \in Elements, kk \in Kinds :
        /\ conn[e][kk] \in Seq(Connections) /\ (sock[e][kk] = "open" => up[e])
        /\ Len(conn[e][kk]) <= 1 /\ (conn[e][kk] # << >> => sock[e][kk] = "open")
        /\ sock[e][kk] = "stale" => ~ up[e]
        /\ kk = "control" => \A i \in DOMAIN conn[e][kk] :
             \A j \in DOMAIN conn[e][kk][i].items : News(conn[e][kk][i].items[j])
  BY DEF Shape, NetworkOK, Calm, CalmNetwork
<1>1. DOMAIN << >> = {} /\ Len(<< >>) = 0 /\ "control" \in Kinds
  BY DEF Kinds
<1>2. ASSUME NEW e \in To, up[e]
      PROVE  /\ sock'[e][k] = "open" /\ Len(conn'[e][k]) <= 1
             /\ k = "control" => \A i \in DOMAIN conn'[e][k] :
                  \A j \in DOMAIN conn'[e][k][i].items : News(conn'[e][k][i].items[j])
             /\ \A i \in DOMAIN conn[e][k] : i \in DOMAIN conn'[e][k] /\ \A j \in DOMAIN conn[e][k][i].items :
                  j \in DOMAIN conn'[e][k][i].items /\ conn'[e][k][i].items[j] = conn[e][k][i].items[j]
             /\ e \notin silent => \E i \in DOMAIN conn'[e][k] : \E j \in DOMAIN conn'[e][k][i].items :
                  conn'[e][k][i].items[j] = item
  <2>1. PICK cs \in Seq(Connections) :
          /\ cs # << >> /\ conn'[e][k] = IF e \in silent THEN cs ELSE Written(cs, item)
          /\ \/ cs = conn[e][k]
             \/ cs = Append(conn[e][k], NewConnection) /\ conn[e][k] = << >>
    BY <1>2 DEF CalmWriteEffect, CalmWritten
  <2>2. /\ Len(cs) <= 1
        /\ k = "control" => \A i \in DOMAIN cs : \A j \in DOMAIN cs[i].items : News(cs[i].items[j])
        /\ \A i \in DOMAIN conn[e][k] : i \in DOMAIN cs /\ cs[i] = conn[e][k][i]
    <3>1. CASE cs = conn[e][k]
      BY <1>0, <3>1
    <3>2. CASE cs = Append(conn[e][k], NewConnection) /\ conn[e][k] = << >>
      <4>1. Len(cs) = 1 /\ DOMAIN cs = {1} /\ cs[1] = NewConnection
        BY <3>2
      <4> QED BY <1>1, <3>2, <4>1, NewConnectionIs
    <3> QED BY <2>1, <3>1, <3>2
  <2>3. sock'[e][k] = "open"
    BY <1>2 DEF CalmWriteEffect, CalmWritten
  <2>4. CASE e \in silent
    BY <2>1, <2>2, <2>3, <2>4
  <2>5. CASE e \notin silent
    <3>1. item \in Items /\ conn'[e][k] = Written(cs, item)
      BY <2>1, <2>5
    <3>2. /\ Len(Written(cs, item)) = Len(cs) /\ DOMAIN Written(cs, item) = DOMAIN cs
          /\ \A i \in DOMAIN cs : \A j \in DOMAIN cs[i].items :
               j \in DOMAIN Written(cs, item)[i].items /\ Written(cs, item)[i].items[j] = cs[i].items[j]
          /\ \E i \in DOMAIN cs : \E j \in DOMAIN Written(cs, item)[i].items : Written(cs, item)[i].items[j] = item
      BY <2>1, <3>1, WrittenHas
    <3>3. k = "control" => \A i \in DOMAIN cs : \A j \in DOMAIN Written(cs, item)[i].items :
            News(Written(cs, item)[i].items[j])
      <4> SUFFICES ASSUME k = "control", NEW i \in DOMAIN Written(cs, item),
                          NEW j \in DOMAIN Written(cs, item)[i].items
                   PROVE  News(Written(cs, item)[i].items[j])
        BY <3>2
      <4>1. i \in DOMAIN cs /\ (\/ j \in DOMAIN cs[i].items /\ Written(cs, item)[i].items[j] = cs[i].items[j]
                                \/ Written(cs, item)[i].items[j] = item)
        BY <2>1, <3>1, WrittenAt
      <4> QED BY <2>2, <4>1
    <3> QED BY <2>2, <2>3, <2>5, <3>1, <3>2, <3>3
  <2> QED BY <2>4, <2>5
<1>3. ASSUME NEW e \in Elements, NEW kk \in Kinds, e \notin To \/ ~ up[e] \/ kk # k
      PROVE  conn'[e][kk] = conn[e][kk] /\ (up[e] => sock'[e][kk] = sock[e][kk])
  BY <1>3 DEF CalmWriteEffect
<1>4. CalmNetwork'
  <2> SUFFICES ASSUME NEW e \in Elements, NEW kk \in Kinds
               PROVE  /\ Len(conn'[e][kk]) <= 1
                      /\ conn'[e][kk] # << >> => sock'[e][kk] = "open"
                      /\ sock'[e][kk] = "stale" => ~ up'[e]
                      /\ kk = "control" => \A i \in DOMAIN conn'[e][kk] :
                           \A j \in DOMAIN conn'[e][kk][i].items : News(conn'[e][kk][i].items[j])
    BY DEF CalmNetwork, News
  <2>1. CASE e \notin To \/ ~ up[e] \/ kk # k
    BY <1>0, <1>3, <2>1
  <2>2. CASE e \in To /\ up[e] /\ kk = k
    BY <1>2, <2>2
  <2> QED BY <2>1, <2>2
<1>5. ASSUME NEW e \in Elements, NEW id \in Elements, NewsWritten(e, id) PROVE NewsWritten(e, id)'
  <2>1. CASE e \notin To \/ ~ up[e] \/ k # "control"
    BY <1>1, <1>3, <1>5, <2>1 DEF NewsWritten
  <2>2. CASE e \in To /\ up[e] /\ k = "control"
    BY <1>2, <1>5, <2>2 DEF NewsWritten
  <2> QED BY <2>1, <2>2
<1>6. ASSUME k = "control", item.type = "UNAVAILABLE", NEW e \in To \ silent, up[e]
      PROVE  NewsWritten(e, item.id)'
  BY <1>2, <1>6 DEF NewsWritten
<1> QED BY <1>4, <1>5, <1>6

\* Elements that are gone may be marked, and nobody else is.
MarkedDown ==
  \E U \in SUBSET Elements :
    /\ \A e \in U : ~ up[e]
    /\ unavailableIds' = unavailableIds \cup U
    /\ toNotifyUnavailability' = toNotifyUnavailability \cup U
    /\ toNotifyAvailability' = {}
NewsKept == \A e, id \in Elements : NewsWritten(e, id) => NewsWritten(e, id)'

LEMMA MarkIs ==
  ASSUME Calm, NEW U \in SUBSET Elements, \A e \in U : ~ up[e], NEW A,
         A \cap unavailableIds = {}, A \cap U = {}, Mark(U, A)
  PROVE  MarkedDown
<1>1. toNotifyAvailability = {}
  BY DEF Calm, CalmRouter
<1>2. /\ unavailableIds' = unavailableIds \cup U
      /\ toNotifyUnavailability' = toNotifyUnavailability \cup U
      /\ toNotifyAvailability' = {}
  BY <1>1 DEF Mark
<1> QED BY <1>2 DEF MarkedDown

LEMMA NothingMarked ==
  ASSUME Calm, UNCHANGED marks
  PROVE  MarkedDown
<1>1. toNotifyAvailability = {}
  BY DEF Calm, CalmRouter
<1>2. {} \in SUBSET Elements /\ (\A e \in {} : ~ up[e]) /\ unavailableIds' = unavailableIds \cup {}
      /\ toNotifyUnavailability' = toNotifyUnavailability \cup {} /\ toNotifyAvailability' = {}
  BY <1>1 DEF marks
<1> QED BY <1>2 DEF MarkedDown

\* What is on its way stays there until it is read.
LEMMA SpreadKept ==
  ASSUME Spread, MarkedDown, NewsKept, \A e \in Elements : up'[e] => up[e],
         unavailableIds \subseteq Elements,
         \A e \in Elements : up'[e] => unavailableElements[e] \subseteq unavailableElements'[e],
         loop.phase = "unavailable" => loop'.phase = "unavailable" /\ loop.pending \subseteq loop'.pending
  PROVE  Spread'
<1>1. PICK U \in SUBSET Elements : unavailableIds' = unavailableIds \cup U
         /\ toNotifyUnavailability' = toNotifyUnavailability \cup U
  BY DEF MarkedDown
<1> SUFFICES ASSUME NEW id \in unavailableIds', NEW e \in Elements, up'[e], e # id,
                    ~ (e = Proxy /\ id \in Internal)
             PROVE  Spreading(e, id)'
  BY DEF Spread
<1>2. CASE id \in U
  BY <1>1, <1>2 DEF Spreading
<1>3. CASE id \in unavailableIds
  <2>1. Spreading(e, id) /\ id \in Elements
    BY <1>3 DEF Spread
  <2> QED BY <1>1, <2>1 DEF Spreading, NewsKept
<1> QED BY <1>1, <1>2, <1>3

\* A step of the router that only marks elements that are gone and writes.
LEMMA CalmStep ==
  ASSUME Shape, Calm, UNCHANGED <<clients, routerUp>>, registered' = registered, addressed' = addressed,
         \A k \in Faults : budget'[k] = budget[k],
         MarkedDown, CalmThreads', CalmNetwork', NewsKept, loop' = loop
  PROVE  Calm' /\ (Spread => Spread')
<1>1. CalmTable'
  BY DEF Calm, CalmTable
<1>2. CalmRouter'
  BY DEF Calm, CalmRouter, MarkedDown
<1>3. CalmElements'
  BY DEF Calm, CalmElements, MarkedDown, clients
<1>4. Spread => Spread'
  BY SpreadKept DEF Shape, RouterOK, TableOK, clients
<1> QED BY <1>1, <1>2, <1>3, <1>4 DEF Calm

LEMMA CalmBecome ==
  ASSUME Shape, Calm, NEW e \in Elements, NEW i \in DOMAIN server[e],
         NEW pc \in Pcs \ {"joining", "leaving", "login", "pending"}, NEW cmd \in Commands \cup {None},
         server[e][i].pc = "idle" => server[e][i].in # << >>,
         pc = "park" => cmd.msg.to \notin Started,
         pc \in {"push", "notify"} => cmd.msg.to \in Started,
         pc = "pop" => queue'[e] # << >>,
         \A f \in Elements : f # e /\ queue[f] # << >> => queue'[f] # << >>,
         Become(e, i, pc, cmd)
  PROVE  CalmThreads'
<1>1. BecomeEffect(e, i, pc, cmd)
  BY BecomeIs DEF Shape
<1>2. server[e] \in Seq(ThreadStates) /\ Len(server[e]) <= 1 /\ server[e][i] \in ThreadStates
  BY Indexed DEF Shape, ServerOK, Calm, CalmThreads
<1>3. DOMAIN server[e] = {i}
  BY <1>2
<1>4. CalmThread(server[e][i], queue[e]) /\ server[e][i].in \in Seq(Commands)
  BY <1>2 DEF Calm, CalmThreads, ThreadStates
<1>5. PICK s \in Seq(Commands) : s = server[e][i].in
  BY <1>4
<1>6. \A j \in DOMAIN server'[e][i].in : server'[e][i].in[j].op \in {"NEW", "REQUEST"}
  <2>1. CASE server[e][i].pc = "idle"
    <3>1. s # << >> /\ server'[e][i].in = Tail(s)
      BY <1>1, <1>5, <2>1 DEF BecomeEffect
    <3>2. \A j \in DOMAIN s : s[j].op \in {"NEW", "REQUEST"}
      BY <1>4, <1>5 DEF CalmThread
    <3>3. ASSUME NEW j \in DOMAIN Tail(s) PROVE Tail(s)[j].op \in {"NEW", "REQUEST"}
      BY <3>1, <3>2, TakenAt
    <3> QED BY <3>1, <3>3
  <2>2. CASE server[e][i].pc # "idle"
    BY <1>1, <1>4, <2>2 DEF BecomeEffect, CalmThread
  <2> QED BY <2>1, <2>2
<1>7. CalmThread(server'[e][i], queue'[e])
  BY <1>1, <1>6 DEF CalmThread, BecomeEffect
<1>8. ASSUME NEW f \in Elements
      PROVE  Len(server'[f]) <= 1 /\ \A j \in DOMAIN server'[f] : CalmThread(server'[f][j], queue'[f])
  <2>1. CASE f = e
    BY <1>1, <1>2, <1>3, <1>7, <2>1 DEF BecomeEffect
  <2>2. CASE f # e
    BY <1>1, <2>2 DEF BecomeEffect, Calm, CalmThreads, CalmThread
  <2> QED BY <2>1, <2>2
<1> QED BY <1>8 DEF CalmThreads

LEMMA NetworkRests ==
  ASSUME Calm, UNCHANGED network, up' = up
  PROVE  CalmNetwork' /\ NewsKept
BY DEF Calm, CalmNetwork, NewsKept, NewsWritten, network, News

\* Router::notifyMessageArrival
LEMMA CalmArrival ==
  ASSUME Shape, Calm, NEW e \in Started, NEW n \in Nat, NotifyMessageArrival(e, n), up' = up
  PROVE  CalmNetwork' /\ NewsKept /\ MarkedDown /\ registered' = registered /\ addressed' = addressed
<1>1. CASE e \in unavailableIds
  <2>1. UNCHANGED <<network, table, marks>>
    BY <1>1 DEF NotifyMessageArrival
  <2> QED BY <2>1, NetworkRests, NothingMarked DEF table
<1>2. CASE e \notin unavailableIds
  <2>1. PICK item : item = [type |-> "NOTIFY", n |-> n]
    OBVIOUS
  <2>2. PICK broken \in SUBSET {e} :
          Write({e}, "data", broken, item, {}) /\ Mark(Failed({e}, "data", broken), {})
    BY <1>2, <2>1 DEF NotifyMessageArrival
  <2>3. item \in Items /\ {e} \in SUBSET registered /\ {e} \in SUBSET Elements /\ "data" \in Kinds
    BY <2>1, ItemIs, IdsAssumption DEF Calm, CalmTable, Kinds
  <2>4. /\ CalmWriteEffect({e}, "data", item, {})
        /\ \A f \in Failed({e}, "data", broken) : ~ up[f]
    BY <2>2, <2>3, CalmWriteIs
  <2>5. CalmNetwork' /\ NewsKept
    BY <2>3, <2>4, CalmWriteNetwork DEF NewsKept
  <2>6. MarkedDown
    <3>1. Failed({e}, "data", broken) \in SUBSET Elements
      BY <2>3 DEF Failed
    <3> QED BY <2>2, <2>4, <3>1, MarkIs
  <2> QED BY <2>4, <2>5, <2>6 DEF CalmWriteEffect
<1> QED BY <1>1, <1>2

\* Router::notifyElementAvailability: all that run are told.
LEMMA CalmAvailability ==
  ASSUME Shape, Calm, NEW id \in Elements \cup {Router}, NEW type \in {"AVAILABLE", "UNAVAILABLE"},
         type = "AVAILABLE" <=> id = Router, NotifyElementAvailability(id, type), up' = up
  PROVE  /\ CalmNetwork' /\ NewsKept /\ MarkedDown /\ registered' = registered /\ addressed' = addressed
         /\ type = "UNAVAILABLE" =>
              \A e \in Elements : up[e] /\ e # id /\ ~ (e = Proxy /\ id \in Internal) => NewsWritten(e, id)'
         /\ \A e \in Elements : up[e] => conn'[e]["data"] = conn[e]["data"] /\ sock'[e]["data"] = sock[e]["data"]
<1> DEFINE To == {e \in registered : e # id /\ (e \notin unavailableIds \/ id = Router)}
           filtered == {e \in {Proxy} : id \in Internal}
<1>1. PICK item : item = [type |-> type, id |-> id]
  OBVIOUS
<1>2. PICK broken : /\ Write(To, "control", broken, item, filtered)
                    /\ Mark(Failed(To, "control", broken), To \ (Failed(To, "control", broken) \cup filtered))
  BY <1>1 DEF NotifyElementAvailability
<1>3. To \in SUBSET registered /\ To \in SUBSET Elements /\ "control" \in Kinds
  BY DEF Shape, RouterOK, TableOK, Kinds
<1>4. item \in Items /\ News(item) /\ item.type = type /\ item.id = id
  BY <1>1, ItemIs DEF News
<1>5. \A e \in Elements : up[e] /\ e # id => e \in To
  BY DEF Calm, CalmElements, CalmTable
<1>6. ASSUME NEW e \in To, e \in unavailableIds PROVE e \in Failed(To, "control", broken)
  <2>1. e \in Elements /\ ~ up[e]
    BY <1>3, <1>6 DEF Calm, CalmElements
  <2>2. NoSockets["control"] = "none"
    BY <1>3 DEF NoSockets
  <2>3. Reused(e, "control")["control"] = "none"
    BY <1>6, <2>2 DEF Reused
  <2> QED BY <2>1, <2>3 DEF Failed, CannotConnect
<1> HIDE DEF To, filtered
<1>7. /\ CalmWriteEffect(To, "control", item, filtered)
      /\ \A e \in Failed(To, "control", broken) : ~ up[e]
  BY <1>2, <1>3, <1>4, CalmWriteIs
<1>8. /\ CalmNetwork' /\ NewsKept
      /\ item.type = "UNAVAILABLE" => \A e \in To \ filtered : up[e] => NewsWritten(e, item.id)'
  BY <1>3, <1>4, <1>7, CalmWriteNetwork DEF NewsKept
<1>9. MarkedDown
  <2>1. Failed(To, "control", broken) \in SUBSET Elements
    BY <1>3 DEF Failed
  <2>2. (To \ (Failed(To, "control", broken) \cup filtered)) \cap unavailableIds = {}
    BY <1>6
  <2>3. (To \ (Failed(To, "control", broken) \cup filtered)) \cap Failed(To, "control", broken) = {}
    OBVIOUS
  <2> QED BY <1>2, <1>7, <2>1, <2>2, <2>3, MarkIs
<1>10. \A e \in Elements : ~ (e = Proxy /\ id \in Internal) => e \notin filtered
  BY DEF filtered
<1>11. \A e \in Elements : up[e] => conn'[e]["data"] = conn[e]["data"] /\ sock'[e]["data"] = sock[e]["data"]
  BY <1>7 DEF CalmWriteEffect, Kinds
<1> QED BY <1>4, <1>5, <1>7, <1>8, <1>9, <1>10, <1>11 DEF CalmWriteEffect

\* sendRequestedMessages: what is written to an open socket.
LEMMA CalmReturns ==
  ASSUME Shape, Calm, NEW e \in Elements, NEW item \in Items, WriteReturns(e, item), up' = up,
         UNCHANGED table
  PROVE  CalmNetwork' /\ NewsKept
<1>0. "data" \in Kinds
  BY DEF Kinds
<1>1. CASE sock[e]["data"] = "open"
  <2>1. conn \in [Elements -> [Kinds -> Seq(Connections)]] /\ up[e] /\ conn[e]["data"] # << >>
        /\ conn[e]["data"] \in Seq(Connections)
    BY <1>0, <1>1 DEF Shape, NetworkOK
  <2>2. conn' = [conn EXCEPT ![e] = [conn[e] EXCEPT !["data"] = Written(conn[e]["data"], item)]] /\ sock' = sock
    BY <1>1 DEF WriteReturns
  <2>3. /\ conn'[e]["data"] = Written(conn[e]["data"], item)
        /\ \A f \in Elements, kk \in Kinds : f # e \/ kk # "data" => conn'[f][kk] = conn[f][kk]
    BY <1>0, <2>1, <2>2
  <2>4. CalmWritten(e, "data", item, {})
    BY <1>1, <2>1, <2>2, <2>3 DEF CalmWritten
  <2>5. CalmWriteEffect({e}, "data", item, {})
    BY <2>1, <2>2, <2>3, <2>4 DEF CalmWriteEffect, table
  <2> QED BY <1>0, <2>5, CalmWriteNetwork DEF NewsKept
<1>2. CASE sock[e]["data"] # "open"
  BY <1>2, NetworkRests DEF WriteReturns, network
<1> QED BY <1>1, <1>2

LEMMA CalmThreadIs ==
  ASSUME Shape, Calm, NEW e \in Elements, NEW i \in DOMAIN server[e]
  PROVE  /\ \A op : Reads(e, i, op) =>
              op \in {"NEW", "REQUEST"} /\ server[e][i].pc = "idle" /\ server[e][i].in # << >>
         /\ ~ At(e, i, "joining") /\ ~ At(e, i, "leaving") /\ ~ At(e, i, "login") /\ ~ At(e, i, "pending")
         /\ At(e, i, "park") => Command(e, i) \in NewCommands /\ Command(e, i).msg.to \notin Started
         /\ At(e, i, "push") \/ At(e, i, "notify") =>
              Command(e, i) \in NewCommands /\ Command(e, i).msg.to \in Started
         /\ At(e, i, "pop") => queue[e] # << >>
<1>1. CalmThread(server[e][i], queue[e])
  BY DEF Calm, CalmThreads
<1>2. /\ server[e][i].in \in Seq(Commands)
      /\ \A op : Reads(e, i, op) =>
           /\ Command(e, i).op = op /\ server[e][i].pc = "idle" /\ server[e][i].in # << >>
           /\ Command(e, i) = server[e][i].in[1]
      /\ \A pc \in {"park", "push", "notify"} : At(e, i, pc) =>
           Command(e, i) \in NewCommands /\ Command(e, i) = server[e][i].cmd
  BY ThreadIs
<1>3. \A op : Reads(e, i, op) =>
        op \in {"NEW", "REQUEST"} /\ server[e][i].pc = "idle" /\ server[e][i].in # << >>
  BY <1>1, <1>2, Indexed DEF CalmThread
<1> QED BY <1>1, <1>2, <1>3 DEF CalmThread, At

LEMMA CalmStoreStep ==
  ASSUME Shape, Calm, NEW e \in Elements, NEW i \in DOMAIN server[e],
         NewMessage(e, i) \/ ParkMessage(e, i) \/ PushMessage(e, i) \/ NotifyTarget(e, i)
  PROVE  Calm' /\ (Spread => Spread')
<1>1. /\ \A op : Reads(e, i, op) => server[e][i].pc = "idle" /\ server[e][i].in # << >>
      /\ At(e, i, "park") => Command(e, i) \in NewCommands /\ Command(e, i).msg.to \notin Started
      /\ At(e, i, "push") \/ At(e, i, "notify") =>
           Command(e, i) \in NewCommands /\ Command(e, i).msg.to \in Started
  BY CalmThreadIs
<1>2. UNCHANGED others
  BY DEF NewMessage, ParkMessage, PushMessage, NotifyTarget
<1>3. UNCHANGED <<clients, routerUp>> /\ loop' = loop /\ up' = up /\ \A k \in Faults : budget'[k] = budget[k]
  BY <1>2 DEF others, clients, bounds
<1>4. queue \in [Elements -> Seq(Messages)] /\ registered = Started
  BY DEF Shape, QueuesOK, Calm, CalmTable
<1>5. /\ None \in Commands \cup {None} /\ {"idle", "park", "push", "notify"} \subseteq Pcs \ {"joining", "leaving", "login", "pending"}
  BY DEF Pcs
<1>6. CASE NewMessage(e, i)
  <2>1. Reads(e, i, "NEW") /\ queue' = queue /\ UNCHANGED <<table, marks, network>>
    BY <1>6 DEF NewMessage
  <2>2. PICK cmd \in Commands : cmd = Command(e, i)
    BY <2>1, ThreadIs
  <2>3. CalmThreads'
    <3>1. CASE Done(e, i)
      BY <1>1, <1>5, <2>1, <3>1, CalmBecome DEF Done
    <3>2. CASE Become(e, i, "park", cmd) /\ cmd.msg.to \notin Started
      BY <1>1, <1>5, <2>1, <3>2, CalmBecome
    <3>3. CASE Become(e, i, "push", cmd) /\ cmd.msg.to \in Started
      BY <1>1, <1>5, <2>1, <3>3, CalmBecome
    <3> QED BY <1>4, <1>6, <2>2, <3>1, <3>2, <3>3 DEF NewMessage
  <2>4. MarkedDown /\ CalmNetwork' /\ NewsKept
    BY <1>3, <2>1, NetworkRests, NothingMarked
  <2> QED BY <1>3, <2>1, <2>3, <2>4, CalmStep DEF table
<1>7. ASSUME NEW m \in Messages, Push(m)
      PROVE  \A f \in Elements : queue[f] # << >> => queue'[f] # << >>
  <2>1. CASE queue' = queue
    BY <2>1
  <2>2. CASE queue' = [queue EXCEPT ![m.to] = Append(@, m)] /\ m.to \in Elements
    <3>1. Append(queue[m.to], m) # << >>
      BY <1>4, <2>2, Appended
    <3> QED BY <1>4, <2>2, <3>1
  <2> QED BY <1>7, <2>1, <2>2, CommandIs DEF Push
<1>8. CASE ParkMessage(e, i)
  <2>1. /\ At(e, i, "park") /\ Mark({Command(e, i).msg.to}, {}) /\ Push(Command(e, i).msg) /\ Done(e, i)
        /\ UNCHANGED <<table, network>>
    BY <1>8 DEF ParkMessage
  <2>2. Command(e, i).msg \in Messages /\ Command(e, i).msg.to \in Elements /\ Command(e, i).msg.to \notin Started
    BY <1>1, <2>1, CommandIs
  <2>3. CalmThreads'
    <3>1. server[e][i].pc # "idle"
      BY <2>1 DEF At
    <3> QED BY <1>5, <1>7, <2>1, <2>2, <3>1, CalmBecome DEF Done
  <2>4. MarkedDown
    <3>1. ~ up[Command(e, i).msg.to]
      BY <2>2 DEF Calm, CalmElements
    <3> QED BY <2>1, <2>2, <3>1, MarkIs
  <2> QED BY <1>3, <2>1, <2>3, <2>4, NetworkRests, CalmStep DEF table
<1>9. CASE PushMessage(e, i)
  <2>1. /\ At(e, i, "push") /\ Push(Command(e, i).msg) /\ Become(e, i, "notify", Command(e, i))
        /\ UNCHANGED <<table, network, marks>>
    BY <1>9 DEF PushMessage
  <2>2. PICK cmd \in Commands : cmd = Command(e, i) /\ cmd.msg \in Messages /\ cmd.msg.to \in Started
    BY <1>1, <2>1, CommandIs
  <2>3. CalmThreads'
    <3>1. server[e][i].pc # "idle"
      BY <2>1 DEF At
    <3>2. Become(e, i, "notify", cmd) /\ Push(cmd.msg)
      BY <2>1, <2>2
    <3> QED BY <1>5, <1>7, <2>2, <3>1, <3>2, CalmBecome
  <2>4. MarkedDown
    BY <2>1, NothingMarked
  <2> QED BY <1>3, <2>1, <2>3, <2>4, NetworkRests, CalmStep DEF table
<1>10. CASE NotifyTarget(e, i)
  <2>1. /\ At(e, i, "notify") /\ NotifyMessageArrival(Command(e, i).msg.to, 1) /\ Done(e, i) /\ queue' = queue
    BY <1>10 DEF NotifyTarget, queues
  <2>2. CalmThreads'
    <3>1. server[e][i].pc # "idle"
      BY <2>1 DEF At
    <3> QED BY <1>5, <2>1, <3>1, CalmBecome DEF Done
  <2>3. PICK to \in Started : to = Command(e, i).msg.to
    BY <1>1, <2>1
  <2>4. CalmNetwork' /\ NewsKept /\ MarkedDown /\ registered' = registered /\ addressed' = addressed
    BY <1>3, <2>1, <2>3, CalmArrival
  <2> QED BY <1>3, <2>2, <2>4, CalmStep
<1> QED BY <1>6, <1>8, <1>9, <1>10

LEMMA CalmDeliverStep ==
  ASSUME Shape, Calm, NEW e \in Elements, NEW i \in DOMAIN server[e],
         RequestUnreadMessages(e, i) \/ MoreMessages(e, i) \/ DeliverMessage(e, i) \/ NoMoreMessages(e, i)
  PROVE  Calm' /\ (Spread => Spread')
<1>1. \A op : Reads(e, i, op) => server[e][i].pc = "idle" /\ server[e][i].in # << >>
  BY CalmThreadIs
<1>2. UNCHANGED others
  BY DEF RequestUnreadMessages, MoreMessages, DeliverMessage, NoMoreMessages
<1>3. UNCHANGED <<clients, routerUp>> /\ loop' = loop /\ up' = up /\ \A k \in Faults : budget'[k] = budget[k]
  BY <1>2 DEF others, clients, bounds
<1>4. queue \in [Elements -> Seq(Messages)] /\ registered = Started
  BY DEF Shape, QueuesOK, Calm, CalmTable
<1>5. /\ None \in Commands \cup {None} /\ {"idle", "deliver", "pop", "ended"} \subseteq Pcs \ {"joining", "leaving", "login", "pending"}
  BY DEF Pcs
<1>6. CASE RequestUnreadMessages(e, i)
  <2>1. Reads(e, i, "REQUEST") /\ queue' = queue
    BY <1>6 DEF RequestUnreadMessages
  <2>2. Done(e, i) \/ Become(e, i, "deliver", None)
    BY <1>6 DEF RequestUnreadMessages
  <2>3. CalmThreads'
    BY <1>1, <1>5, <2>1, <2>2, CalmBecome DEF Done
  <2>4. CASE UNCHANGED <<network, table, marks>>
    BY <1>3, <2>3, <2>4, NetworkRests, NothingMarked, CalmStep DEF table
  <2>5. CASE /\ e \in registered /\ Write({e}, "data", {}, None, {e})
             /\ Mark(Failed({e}, "data", {}), {})
    <3>1. {e} \in SUBSET registered /\ {e} \in SUBSET Elements /\ "data" \in Kinds /\ {e} \subseteq {e}
      BY <2>5 DEF Kinds
    <3>2. CalmWriteEffect({e}, "data", None, {e}) /\ \A f \in Failed({e}, "data", {}) : ~ up[f]
      BY <2>5, <3>1, CalmWriteIs
    <3>3. CalmNetwork' /\ NewsKept
      BY <1>3, <3>1, <3>2, CalmWriteNetwork DEF NewsKept
    <3>4. MarkedDown
      <4>1. Failed({e}, "data", {}) \in SUBSET Elements
        BY DEF Failed
      <4> QED BY <2>5, <3>2, <4>1, MarkIs
    <3> QED BY <1>3, <2>3, <3>2, <3>3, <3>4, CalmStep DEF CalmWriteEffect
  <2> QED BY <1>6, <2>4, <2>5 DEF RequestUnreadMessages
<1>7. CASE MoreMessages(e, i)
  <2>1. /\ At(e, i, "deliver") /\ queue[e] # << >> /\ queue' = queue /\ Become(e, i, "pop", None)
        /\ UNCHANGED <<table, marks, network>>
    BY <1>7 DEF MoreMessages, queues
  <2>2. CalmThreads'
    <3>1. server[e][i].pc # "idle"
      BY <2>1 DEF At
    <3> QED BY <1>5, <2>1, <3>1, CalmBecome
  <2> QED BY <1>3, <2>1, <2>2, NetworkRests, NothingMarked, CalmStep DEF table
<1>8. CASE DeliverMessage(e, i)
  <2>1. /\ At(e, i, "pop") /\ queue[e] # << >> /\ queue' = [queue EXCEPT ![e] = Tail(@)]
        /\ UNCHANGED <<table, marks>>
    BY <1>8 DEF DeliverMessage
  <2>2. PICK item \in Items : item = [type |-> "MESSAGE", msg |-> Head(queue[e])]
    <3>1. Head(queue[e]) \in Messages
      BY <1>4, <2>1, Taken
    <3> QED BY <3>1, ItemIs
  <2>3. \/ Become(e, i, "ended", None) /\ UNCHANGED network
        \/ WriteReturns(e, item) /\ Become(e, i, "deliver", None)
    BY <1>8, <2>2 DEF DeliverMessage, WriteThrows
  <2>4. CalmThreads'
    <3>1. server[e][i].pc # "idle" /\ \A f \in Elements : f # e => queue'[f] = queue[f]
      BY <1>4, <2>1 DEF At
    <3> QED BY <1>5, <2>3, <3>1, CalmBecome
  <2>5. CalmNetwork' /\ NewsKept
    BY <1>3, <2>1, <2>3, NetworkRests, CalmReturns
  <2> QED BY <1>3, <2>1, <2>4, <2>5, NothingMarked, CalmStep DEF table
<1>9. CASE NoMoreMessages(e, i)
  <2>1. At(e, i, "deliver") /\ queue' = queue /\ UNCHANGED <<table, marks>>
    BY <1>9 DEF NoMoreMessages, queues
  <2>2. PICK item \in Items : item = [type |-> "END"]
    BY ItemIs
  <2>3. \/ Become(e, i, "ended", None) /\ UNCHANGED network
        \/ WriteReturns(e, item) /\ Become(e, i, "idle", None)
    BY <1>9, <2>2 DEF NoMoreMessages, WriteThrows, Done
  <2>4. CalmThreads'
    <3>1. server[e][i].pc # "idle"
      BY <2>1 DEF At
    <3> QED BY <1>5, <2>1, <2>3, <3>1, CalmBecome
  <2>5. CalmNetwork' /\ NewsKept
    BY <1>3, <2>1, <2>3, NetworkRests, CalmReturns
  <2> QED BY <1>3, <2>1, <2>4, <2>5, NothingMarked, CalmStep DEF table
<1> QED BY <1>6, <1>7, <1>8, <1>9

LEMMA CalmThreadStep ==
  ASSUME Shape, Calm, NEW e \in Elements, RouterThread(e)
  PROVE  Calm' /\ (Spread => Spread')
<1>1. PICK i \in DOMAIN server[e] :
        \/ Login(e, i) \/ LoginQueue(e, i) \/ LoginNotify(e, i) \/ Logout(e, i)
        \/ PersistState(e, i) \/ ClearMessageQueue(e, i)
        \/ NewMessage(e, i) \/ ParkMessage(e, i) \/ PushMessage(e, i) \/ NotifyTarget(e, i)
        \/ RequestUnreadMessages(e, i) \/ MoreMessages(e, i) \/ DeliverMessage(e, i)
        \/ NoMoreMessages(e, i)
  BY DEF RouterThread
<1>2. /\ \A op : Reads(e, i, op) => op \in {"NEW", "REQUEST"}
      /\ ~ At(e, i, "joining") /\ ~ At(e, i, "leaving") /\ ~ At(e, i, "login") /\ ~ At(e, i, "pending")
  BY CalmThreadIs
<1>3. ~ (Login(e, i) \/ LoginQueue(e, i) \/ LoginNotify(e, i) \/ Logout(e, i) \/ PersistState(e, i) \/ ClearMessageQueue(e, i))
  BY <1>2 DEF Login, LoginQueue, LoginNotify, Logout, PersistState, ClearMessageQueue
<1> QED BY <1>1, <1>3, CalmStoreStep, CalmDeliverStep

\* Router::run
LEMMA CalmLoopStep ==
  ASSUME Shape, Calm, RouterLoop \/ NotifyRouterAvailable \/ NotifyRecovery
  PROVE  Calm' /\ (Spread => Spread')
<1>0. /\ loop \in [phase : {"sleep", "available", "unavailable", "recovered"}, pending : SUBSET Elements]
      /\ unavailableIds \subseteq Elements /\ loop.phase # "recovered" /\ toNotifyAvailability = {}
      /\ loop.phase # "unavailable" => loop.pending = {}
  BY DEF Shape, RouterOK, TableOK, Calm, CalmRouter
<1>1. ASSUME server' = server, queue' = queue PROVE CalmThreads'
  BY <1>1 DEF Calm, CalmThreads, CalmThread
<1>2. ASSUME UNCHANGED clients, MarkedDown PROVE CalmElements'
  BY <1>2 DEF Calm, CalmElements, MarkedDown, clients
<1>3. CASE NotifyRouterAvailable
  <2>1. /\ NotifyElementAvailability(Router, "AVAILABLE") /\ Spend("periodic")
        /\ UNCHANGED <<clients, routerUp, queues, server, loop>> /\ up' = up /\ queue' = queue
    BY <1>3 DEF NotifyRouterAvailable, clients, queues
  <2>2. CalmNetwork' /\ NewsKept /\ MarkedDown /\ registered' = registered /\ addressed' = addressed
    BY <2>1, CalmAvailability
  <2>3. \A k \in Faults : budget'[k] = budget[k]
    BY <2>1 DEF Spend, Faults, Shape, BoundsOK, Events
  <2> QED BY <1>1, <2>1, <2>2, <2>3, CalmStep
<1>4. CASE NotifyRecovery
  BY <1>0, <1>4 DEF NotifyRecovery
<1>5. CASE NotifyPending
  <2>1. PICK id \in loop.pending :
          /\ loop' = [loop EXCEPT !.pending = @ \ {id}]
          /\ NotifyElementAvailability(id,
               IF loop.phase = "available" THEN "AVAILABLE" ELSE "UNAVAILABLE")
          /\ UNCHANGED <<clients, routerUp, queues, file, server, bounds>>
    BY <1>5 DEF NotifyPending
  <2>2. /\ id \in Elements /\ id # Router /\ loop.phase = "unavailable"
        /\ loop'.phase = "unavailable" /\ loop'.pending = loop.pending \ {id}
    BY <1>0, <2>1, IdsAssumption
  <2>3. NotifyElementAvailability(id, "UNAVAILABLE") /\ up' = up /\ UNCHANGED clients
    BY <2>1, <2>2 DEF clients
  <2>4. /\ CalmNetwork' /\ NewsKept /\ MarkedDown /\ registered' = registered /\ addressed' = addressed
        /\ \A e \in Elements : up[e] /\ e # id /\ ~ (e = Proxy /\ id \in Internal) => NewsWritten(e, id)'
    BY <2>2, <2>3, CalmAvailability
  <2>5. Calm'
    <3>1. CalmThreads' /\ CalmElements'
      BY <1>1, <1>2, <2>1, <2>4 DEF queues
    <3>2. CalmRouter'
      BY <2>1, <2>2, <2>4 DEF CalmRouter, Calm, MarkedDown
    <3>3. CalmTable'
      BY <2>1, <2>4 DEF CalmTable, Calm, bounds
    <3> QED BY <2>4, <3>1, <3>2, <3>3 DEF Calm
  <2>6. ASSUME Spread, NEW x \in unavailableIds', NEW e \in Elements, up'[e], e # x,
               ~ (e = Proxy /\ x \in Internal)
        PROVE  Spreading(e, x)'
    <3>1. CASE x \in unavailableIds
      <4>1. Spreading(e, x) /\ up[e] /\ x \in Elements
        BY <1>0, <2>3, <2>6, <3>1 DEF Spread
      <4>2. CASE x = id
        BY <2>4, <2>6, <4>1, <4>2 DEF Spreading
      <4>3. CASE x # id
        BY <2>2, <2>3, <2>4, <4>1, <4>3 DEF Spreading, NewsKept, MarkedDown, clients
      <4> QED BY <4>2, <4>3
    <3>2. CASE x \notin unavailableIds
      BY <2>4, <3>2 DEF MarkedDown, Spreading
    <3> QED BY <3>1, <3>2
  <2> QED BY <2>5, <2>6 DEF Spread
<1>6. CASE TakeAvailable \/ TakeUnavailable \/ Sleep
  <2>1. UNCHANGED <<clients, routerUp, table, queues, unavailableIds, file, network, server, bounds>>
    BY <1>6 DEF TakeAvailable, TakeUnavailable, Sleep, marks
  <2>2. CalmTable' /\ CalmElements' /\ CalmThreads'
    BY <1>1, <2>1 DEF Calm, CalmTable, CalmElements, clients, table, bounds, queues
  <2>3. CalmNetwork' /\ NewsKept
    BY <2>1, NetworkRests DEF clients
  <2>4. CalmRouter'
    BY <1>0, <1>6, <2>1 DEF TakeAvailable, TakeUnavailable, Sleep, Calm, CalmRouter, marks
  <2>5. ASSUME Spread, NEW x \in unavailableIds', NEW e \in Elements, up'[e], e # x,
               ~ (e = Proxy /\ x \in Internal)
        PROVE  Spreading(e, x)'
    <3>1. Spreading(e, x) /\ x \in Elements
      BY <1>0, <2>1, <2>5 DEF Spread, clients
    <3>2. NewsWritten(e, x) => NewsWritten(e, x)'
      BY <2>3, <3>1 DEF NewsKept
    <3>3. CASE TakeAvailable
      BY <1>0, <2>1, <3>1, <3>2, <3>3 DEF TakeAvailable, Spreading, clients
    <3>4. CASE TakeUnavailable
      BY <1>0, <2>1, <3>1, <3>2, <3>4 DEF TakeUnavailable, Spreading, clients
    <3>5. CASE Sleep
      BY <1>0, <2>1, <3>1, <3>2, <3>5 DEF Sleep, Spreading, clients, marks
    <3> QED BY <1>6, <3>3, <3>4, <3>5
  <2> QED BY <2>2, <2>3, <2>4, <2>5 DEF Calm, Spread
<1> QED BY <1>3, <1>4, <1>5, <1>6 DEF RouterLoop

\* sendMessageToRouter over the one link of an element that runs.
LEMMA CalmArrives ==
  ASSUME Shape, Calm, NEW e \in Elements, link[e] = "open", NEW cmd \in Commands,
         cmd.op \in {"NEW", "REQUEST"}, Arrives(e, cmd, link[e]), queue' = queue
  PROVE  CalmThreads' /\ link' = link
<1>1. server \in [Elements -> Seq(ThreadStates)] /\ server[e] \in Seq(ThreadStates) /\ server[e] # << >>
      /\ Len(server[e]) <= 1 /\ link \in [Elements -> SocketStates]
  BY DEF Shape, ServerOK, ClientsOK, Calm, CalmThreads
<1>2. Len(server[e]) = 1 /\ DOMAIN server[e] = {1} /\ 1 \in DOMAIN server[e] /\ server[e][1] \in ThreadStates
  <2>1. PICK s \in Seq(ThreadStates) : s = server[e] /\ s # << >> /\ Len(s) <= 1
    BY <1>1
  <2>2. Len(s) \in Nat /\ DOMAIN s = 1 .. Len(s) /\ Len(s) >= 1 /\ \A i \in DOMAIN s : s[i] \in ThreadStates
    BY <2>1, Indexed
  <2>3. Len(s) = 1 /\ DOMAIN s = {1}
    <3>0. PICK n \in Nat : n = Len(s) /\ n >= 1 /\ n <= 1
      BY <2>1, <2>2
    <3>1. n = 1
      BY <3>0
    <3>2. 1 .. 1 = {1}
      OBVIOUS
    <3> QED BY <2>2, <3>0, <3>1, <3>2
  <2> QED BY <2>1, <2>2, <2>3
<1>3. PICK t \in ThreadStates : t = server[e][1]
  BY <1>2
<1>4. t.in \in Seq(Commands)
  BY <1>3 DEF ThreadStates
<1>5. PICK u \in ThreadStates : u = [t EXCEPT !.in = Append(t.in, cmd)] /\ u.in = Append(t.in, cmd)
                                 /\ u.pc = t.pc /\ u.cmd = t.cmd
  <2>1. Append(t.in, cmd) \in Seq(Commands)
    BY <1>4, Appended
  <2>2. /\ [t EXCEPT !.in = Append(t.in, cmd)] \in ThreadStates
        /\ [t EXCEPT !.in = Append(t.in, cmd)].in = Append(t.in, cmd)
        /\ [t EXCEPT !.in = Append(t.in, cmd)].pc = t.pc /\ [t EXCEPT !.in = Append(t.in, cmd)].cmd = t.cmd
    BY <2>1 DEF ThreadStates
  <2> QED BY <2>2
<1>6. server' = [server EXCEPT ![e] = [server[e] EXCEPT ![1] = u]] /\ link' = [link EXCEPT ![e] = "open"]
  BY <1>2, <1>3, <1>5 DEF Arrives
<1>7. server'[e] = [server[e] EXCEPT ![1] = u] /\ \A f \in Elements : f # e => server'[f] = server[f]
  BY <1>1, <1>6
<1>8. Len(server'[e]) = 1 /\ DOMAIN server'[e] = {1} /\ server'[e][1] = u
  BY <1>1, <1>2, <1>7, Replaced
<1>9. CalmThread(t, queue[e])
  BY <1>2, <1>3 DEF Calm, CalmThreads
<1>10. \A j \in DOMAIN u.in : u.in[j].op \in {"NEW", "REQUEST"}
  <2> SUFFICES ASSUME NEW j \in DOMAIN Append(t.in, cmd) PROVE Append(t.in, cmd)[j].op \in {"NEW", "REQUEST"}
    BY <1>5
  <2>1. (j \in DOMAIN t.in /\ Append(t.in, cmd)[j] = t.in[j]) \/ Append(t.in, cmd)[j] = cmd
    BY <1>4, AppendedAt
  <2> QED BY <1>9, <2>1 DEF CalmThread
<1>11. CalmThread(u, queue[e])
  BY <1>5, <1>9, <1>10 DEF CalmThread
<1>12. ASSUME NEW f \in Elements
       PROVE  Len(server'[f]) <= 1 /\ \A j \in DOMAIN server'[f] : CalmThread(server'[f][j], queue'[f])
  <2>1. CASE f = e
    <3>1. Len(server'[e]) <= 1
      BY <1>8
    <3>2. ASSUME NEW j \in DOMAIN server'[e] PROVE CalmThread(server'[e][j], queue'[e])
      BY <1>8, <1>11, <3>2
    <3> QED BY <2>1, <3>1, <3>2
  <2>2. CASE f # e
    BY <1>7, <2>2 DEF Calm, CalmThreads
  <2> QED BY <2>1, <2>2
<1>13. link' = link
  BY <1>1, <1>6
<1> QED BY <1>12, <1>13 DEF CalmThreads

\* Sending and asking for messages.
LEMMA CalmElementStep ==
  ASSUME Shape, Calm, NEW e \in Elements,
         (\E to \in Elements \ {e} : sendMessage(e, to)) \/ retrieveMessages(e)
  PROVE  Calm' /\ (Spread => Spread')
<1>1. link[e] = "open" /\ DOMAIN unavailableElements = Elements /\ up[e]
  BY DEF Calm, CalmElements, sendMessage, retrieveMessages, Shape, ClientsOK
<1>2. /\ up' = up /\ UNCHANGED <<routerVars, network>>
      /\ \A k \in Faults : budget'[k] = budget[k]
  BY DEF sendMessage, retrieveMessages, bounds, Spend, Shape, BoundsOK, Events, Faults
<1>3. \E cmd \in Commands : cmd.op \in {"NEW", "REQUEST"} /\ Arrives(e, cmd, link[e])
        /\ \E n : Believes(e, unavailableElements[e], n)
  <2>1. CASE retrieveMessages(e)
    <3>1. [op |-> "REQUEST"] \in Commands /\ [op |-> "REQUEST"].op = "REQUEST"
      BY CommandIs
    <3>2. Arrives(e, [op |-> "REQUEST"], link[e]) /\ Believes(e, unavailableElements[e], unread[e])
      BY <1>1, <2>1 DEF retrieveMessages, sendCommandToRouter, Vanishes, WriteFails, ConnectFails
    <3> QED BY <3>1, <3>2
  <2>2. ASSUME NEW to \in Elements \ {e}, sendMessage(e, to)
        PROVE  \E cmd \in Commands : cmd.op \in {"NEW", "REQUEST"} /\ Arrives(e, cmd, link[e])
                  /\ \E n : Believes(e, unavailableElements[e], n)
    <3>1. [from |-> e, to |-> to, n |-> sent] \in Messages
      BY <2>2 DEF sendMessage, Spend, Messages, Shape, BoundsOK, Events
    <3>2. PICK cmd \in Commands : cmd = [op |-> "NEW", msg |-> [from |-> e, to |-> to, n |-> sent]] /\ cmd.op = "NEW"
      BY <3>1, CommandIs
    <3>3. Arrives(e, cmd, link[e]) /\ Believes(e, unavailableElements[e], unread[e])
      BY <1>1, <2>2, <3>2 DEF sendMessage, Vanishes, WriteFails, ConnectFails
    <3> QED BY <3>2, <3>3
  <2> QED BY <2>1, <2>2
<1>4. CalmThreads' /\ link' = link
  BY <1>1, <1>2, <1>3, CalmArrives DEF routerVars, queues
<1>5. unavailableElements' = [unavailableElements EXCEPT ![e] = unavailableElements[e]]
  BY <1>3 DEF Believes
<1>6. \A f \in Elements : unavailableElements'[f] = unavailableElements[f]
  BY <1>1, <1>5
<1>7. MarkedDown /\ CalmNetwork' /\ NewsKept
  BY <1>2, NetworkRests, NothingMarked DEF routerVars
<1>8. CalmTable' /\ CalmRouter' /\ CalmElements'
  BY <1>2, <1>4, <1>6 DEF routerVars, table, marks, Calm, CalmTable, CalmRouter, CalmElements
<1>9. Spread => Spread'
  BY <1>2, <1>6, <1>7, SpreadKept DEF routerVars, Shape, RouterOK, TableOK
<1> QED BY <1>4, <1>7, <1>8, <1>9 DEF Calm

LEMMA CalmCrash ==
  ASSUME Shape, Calm, NEW e \in Elements, Crash(e)
  PROVE  Calm' /\ (Spread => Spread')
<1>1. /\ UNCHANGED <<routerVars, server>> /\ Spend("crash")
      /\ up' = [up EXCEPT ![e] = FALSE] /\ link' = [link EXCEPT ![e] = "none"]
      /\ unavailableElements' = [unavailableElements EXCEPT ![e] = {}]
      /\ sock' = [sock EXCEPT ![e] = [k \in Kinds |-> IF @[k] = "open" THEN "stale" ELSE @[k]]]
      /\ conn' = [conn EXCEPT ![e] = [k \in Kinds |-> << >>]]
  BY DEF Crash
<1>2. /\ up \in [Elements -> BOOLEAN] /\ link \in [Elements -> SocketStates] /\ DOMAIN unavailableElements = Elements
      /\ sock \in [Elements -> [Kinds -> SocketStates]] /\ conn \in [Elements -> [Kinds -> Seq(Connections)]]
  BY DEF Shape, ClientsOK, NetworkOK
<1>3. /\ ~ up'[e] /\ \A k \in Kinds : conn'[e][k] = << >>
      /\ \A f \in Elements : f # e => /\ up'[f] = up[f] /\ link'[f] = link[f] /\ sock'[f] = sock[f]
                                      /\ conn'[f] = conn[f] /\ unavailableElements'[f] = unavailableElements[f]
  BY <1>1, <1>2
<1>4. CalmTable'
  BY <1>1 DEF Calm, CalmTable, routerVars, table, Spend, Shape, BoundsOK, Events, Faults
<1>5. CalmElements'
  BY <1>1, <1>3 DEF Calm, CalmElements, routerVars, marks
<1>6. CalmRouter' /\ CalmThreads'
  BY <1>1 DEF Calm, CalmRouter, CalmThreads, CalmThread, routerVars, marks, queues
<1>7. CalmNetwork'
  <2> SUFFICES ASSUME NEW f \in Elements, NEW k \in Kinds
               PROVE  /\ Len(conn'[f][k]) <= 1
                      /\ conn'[f][k] # << >> => sock'[f][k] = "open"
                      /\ sock'[f][k] = "stale" => ~ up'[f]
                      /\ k = "control" => \A i \in DOMAIN conn'[f][k] :
                           \A j \in DOMAIN conn'[f][k][i].items : News(conn'[f][k][i].items[j])
    BY DEF CalmNetwork, News
  <2>1. CASE f = e
    <3>1. Len(<< >>) = 0 /\ DOMAIN << >> = {}
      OBVIOUS
    <3> QED BY <1>3, <2>1, <3>1
  <2>2. CASE f # e
    BY <1>3, <2>2 DEF Calm, CalmNetwork
  <2> QED BY <2>1, <2>2
<1>8. ASSUME Spread, NEW id \in unavailableIds', NEW f \in Elements, up'[f], f # id,
             ~ (f = Proxy /\ id \in Internal)
      PROVE  Spreading(f, id)'
  <2>1. f # e /\ Spreading(f, id)
    BY <1>1, <1>3, <1>8 DEF Spread, routerVars, marks
  <2> QED BY <1>1, <1>3, <2>1, SMTT(40) DEF Spreading, NewsWritten, routerVars, marks
<1> QED BY <1>4, <1>5, <1>6, <1>7, <1>8 DEF Calm, Spread

\* ServerSocket: an element reads what it was sent.
LEMMA CalmTakes ==
  ASSUME Shape, Calm, NEW e \in Elements, NEW k \in Kinds, NEW i \in DOMAIN conn[e][k],
         conn[e][k][i].items # << >>, NEW partial, TakesEffect(e, k, i, partial), up' = up
  PROVE  /\ CalmNetwork'
         /\ \A f, id \in Elements : NewsWritten(f, id) =>
              \/ NewsWritten(f, id)'
              \/ /\ f = e /\ k = "control"
                 /\ Head(conn[e][k][i].items).type = "UNAVAILABLE" /\ Head(conn[e][k][i].items).id = id
<1>1. PICK s \in Seq(Items) : s = conn[e][k][i].items /\ s # << >>
  BY ItemRead
<1>2. /\ Head(s) = s[1] /\ Len(s) \in Nat /\ DOMAIN s = 1 .. Len(s) /\ DOMAIN Tail(s) = 1 .. Len(s) - 1
      /\ \A j \in 1 .. Len(s) - 1 : Tail(s)[j] = s[j + 1]
  BY <1>1, Taken
<1>3. /\ sock' = sock /\ Len(conn'[e][k]) = Len(conn[e][k]) /\ DOMAIN conn'[e][k] = DOMAIN conn[e][k]
      /\ \A f \in Elements, kk \in Kinds : f # e \/ kk # k => conn'[f][kk] = conn[f][kk]
      /\ \A j \in DOMAIN conn[e][k] : j # i => conn'[e][k][j] = conn[e][k][j]
      /\ conn'[e][k][i].items = Tail(s)
  BY <1>1 DEF TakesEffect
<1>4. ASSUME k = "control", NEW ii \in DOMAIN conn'[e][k], NEW j \in DOMAIN conn'[e][k][ii].items
      PROVE  News(conn'[e][k][ii].items[j])
  <2>1. \A a \in DOMAIN conn[e][k] : \A b \in DOMAIN conn[e][k][a].items : News(conn[e][k][a].items[b])
    BY <1>4 DEF Calm, CalmNetwork
  <2>2. CASE ii # i
    BY <1>3, <1>4, <2>1, <2>2
  <2>3. CASE ii = i
    <3>1. j \in DOMAIN Tail(s) /\ conn'[e][k][ii].items[j] = Tail(s)[j]
      BY <1>3, <1>4, <2>3
    <3>2. j + 1 \in DOMAIN s /\ s[j + 1] = Tail(s)[j]
      BY <1>1, <3>1, TakenAt
    <3> QED BY <1>1, <2>1, <3>1, <3>2
  <2> QED BY <2>2, <2>3
<1>5. ASSUME NEW f \in Elements, NEW kk \in Kinds
      PROVE  /\ Len(conn'[f][kk]) <= 1
             /\ conn'[f][kk] # << >> => sock'[f][kk] = "open"
             /\ sock'[f][kk] = "stale" => ~ up'[f]
             /\ kk = "control" => \A ii \in DOMAIN conn'[f][kk] :
                  \A j \in DOMAIN conn'[f][kk][ii].items : News(conn'[f][kk][ii].items[j])
  <2>1. CASE f # e \/ kk # k
    BY <1>3, <2>1 DEF Calm, CalmNetwork
  <2>2. CASE f = e /\ kk = k
    <3>1. conn[e][k] # << >>
      BY DEF Kinds
    <3> QED BY <1>3, <1>4, <2>2, <3>1 DEF Calm, CalmNetwork
  <2> QED BY <2>1, <2>2
<1>6. CalmNetwork'
  BY <1>5 DEF CalmNetwork, News
<1>7. ASSUME NEW f \in Elements, NEW id \in Elements, NewsWritten(f, id), ~ NewsWritten(f, id)'
      PROVE  /\ f = e /\ k = "control"
             /\ Head(conn[e][k][i].items).type = "UNAVAILABLE" /\ Head(conn[e][k][i].items).id = id
  <2>1. f = e /\ k = "control"
    BY <1>3, <1>7 DEF NewsWritten, Kinds
  <2>2. PICK ii \in DOMAIN conn[e][k] : \E j \in DOMAIN conn[e][k][ii].items :
          conn[e][k][ii].items[j].type = "UNAVAILABLE" /\ conn[e][k][ii].items[j].id = id
    BY <1>7, <2>1 DEF NewsWritten
  <2>3. PICK j \in DOMAIN conn[e][k][ii].items :
          conn[e][k][ii].items[j].type = "UNAVAILABLE" /\ conn[e][k][ii].items[j].id = id
    BY <2>2
  <2>4. \A jj \in DOMAIN conn'[e][k][ii].items : conn'[e][k][ii].items[jj] # conn[e][k][ii].items[j]
    BY <1>3, <1>7, <2>1, <2>3, SMTT(40) DEF NewsWritten
  <2>5. ii = i
    BY <1>3, <2>3, <2>4
  <2>6. j \in DOMAIN s /\ s[j].type = "UNAVAILABLE" /\ s[j].id = id /\ \A jj \in DOMAIN Tail(s) : Tail(s)[jj] # s[j]
    BY <1>1, <1>3, <2>3, <2>4, <2>5
  <2>7. j = 1
    <3>1. j # 1 => j - 1 \in 1 .. Len(s) - 1 /\ (j - 1) + 1 = j
      BY <1>2, <2>6
    <3> QED BY <1>2, <2>6, <3>1
  <2> QED BY <1>1, <1>2, <2>1, <2>6, <2>7
<1> QED BY <1>6, <1>7

LEMMA CalmReadData ==
  ASSUME Shape, Calm, NEW e \in Elements, ReadData(e)
  PROVE  Calm' /\ (Spread => Spread')
<1>1. PICK i \in DOMAIN conn[e]["data"] :
        /\ conn[e]["data"][i].items # << >>
        /\ \/ newMessageInRouter(e, i, Head(conn[e]["data"][i].items))
           \/ StartMessage(e, i, Head(conn[e]["data"][i].items))
           \/ EndOfMessages(e, i, Head(conn[e]["data"][i].items))
  BY DEF ReadData
<1>2. UNCHANGED <<up, unavailableElements, link, locked, routerVars, server, bounds>>
  BY DEF ReadData
<1>3. "data" \in Kinds /\ "data" # "control"
  BY DEF Kinds
<1>4. PICK item \in Items : item = Head(conn[e]["data"][i].items) /\ conn[e]["data"][i].partial \in Messages \cup {None}
  BY <1>1, <1>3, ItemRead
<1>5. PICK p \in Messages \cup {None} : Takes(e, "data", i, p)
  BY <1>1, <1>4, ItemIs DEF newMessageInRouter, StartMessage, EndOfMessages
<1>6. NetworkOK /\ up' = up /\ routerUp' = routerUp
  BY <1>2 DEF Shape, routerVars
<1>7. TakesEffect(e, "data", i, p)
  BY <1>1, <1>3, <1>5, <1>6, TakesIs
<1>8. CalmNetwork' /\ NewsKept
  BY <1>1, <1>3, <1>6, <1>7, CalmTakes DEF NewsKept
<1>9. CalmTable' /\ CalmElements' /\ CalmRouter' /\ CalmThreads'
  BY <1>2 DEF routerVars, bounds, table, marks, queues, Calm, CalmTable, CalmElements, CalmRouter,
              CalmThreads, CalmThread
<1>10. MarkedDown
  BY <1>2, NothingMarked DEF routerVars
<1>11. Spread => Spread'
  BY <1>2, <1>8, <1>10, SpreadKept DEF routerVars, Shape, RouterOK, TableOK
<1> QED BY <1>8, <1>9, <1>11 DEF Calm

LEMMA CalmReadControl ==
  ASSUME Shape, Calm, NEW e \in Elements, ReadControl(e)
  PROVE  Calm' /\ (Spread => Spread')
<1>1. PICK i \in DOMAIN conn[e]["control"] :
        /\ conn[e]["control"][i].items # << >>
        /\ \/ OtherElement(e, Head(conn[e]["control"][i].items))
           \/ RouterStillThere(e, Head(conn[e]["control"][i].items))
           \/ RouterAvailable(e, Head(conn[e]["control"][i].items))
           \/ RouterRecovered(e, Head(conn[e]["control"][i].items))
        /\ Takes(e, "control", i, None)
  BY DEF ReadControl
<1>2. UNCHANGED <<up, inbox, routerVars, bounds>> /\ up[e]
  BY DEF ReadControl
<1>3. "control" \in Kinds /\ None \in Messages \cup {None}
  BY DEF Kinds
<1>4. NetworkOK /\ up' = up /\ routerUp' = routerUp /\ DOMAIN unavailableElements = Elements
  BY <1>2 DEF Shape, ClientsOK, routerVars
<1>5. TakesEffect(e, "control", i, None)
  BY <1>1, <1>3, <1>4, TakesIs
<1>6. PICK item \in Items : item = Head(conn[e]["control"][i].items) /\ News(item)
  <2>1. /\ Head(conn[e]["control"][i].items) \in Items
        /\ Head(conn[e]["control"][i].items) = conn[e]["control"][i].items[1]
        /\ conn[e]["control"][i].items \in Seq(Items)
    BY <1>1, <1>3, ItemRead
  <2>2. 1 \in DOMAIN conn[e]["control"][i].items
    BY <1>1, <2>1, Indexed
  <2> QED BY <1>3, <2>1, <2>2 DEF Calm, CalmNetwork
<1>7. /\ CalmNetwork'
      /\ \A f, id \in Elements : NewsWritten(f, id) =>
           NewsWritten(f, id)' \/ (f = e /\ item.type = "UNAVAILABLE" /\ item.id = id)
  <2>1. PICK k \in Kinds : k = "control"
    BY <1>3
  <2>2. i \in DOMAIN conn[e][k] /\ conn[e][k][i].items # << >> /\ TakesEffect(e, k, i, None)
    BY <1>1, <1>5, <2>1
  <2>3. /\ CalmNetwork'
        /\ \A f, id \in Elements : NewsWritten(f, id) =>
             \/ NewsWritten(f, id)'
             \/ /\ f = e /\ k = "control"
                /\ Head(conn[e][k][i].items).type = "UNAVAILABLE"
                /\ Head(conn[e][k][i].items).id = id
    BY <1>4, <2>2, CalmTakes
  <2> QED BY ONLY <1>6, <2>1, <2>3
<1>8. Router \notin unavailableElements[e]
  BY <1>2 DEF Calm, CalmElements
<1>9. \/ OtherElement(e, item) /\ item.type = "UNAVAILABLE"
      \/ RouterStillThere(e, item) /\ item.type = "AVAILABLE"
  BY <1>1, <1>6, <1>8, IdsAssumption DEF News, OtherElement, RouterStillThere, RouterAvailable, RouterRecovered
<1>10. /\ UNCHANGED <<link, server>>
       /\ \A f \in Elements : unavailableElements[f] \subseteq unavailableElements'[f]
       /\ \A f \in Elements : up[f] => Router \notin unavailableElements'[f]
       /\ item.type = "UNAVAILABLE" => item.id \in unavailableElements'[e]
  <2>1. \A f \in Elements : up[f] => Router \notin unavailableElements[f]
    BY DEF Calm, CalmElements
  <2>2. CASE OtherElement(e, item) /\ item.type = "UNAVAILABLE"
    BY <1>4, <2>1, <2>2 DEF OtherElement
  <2>3. CASE RouterStillThere(e, item) /\ item.type = "AVAILABLE"
    BY <2>1, <2>3 DEF RouterStillThere
  <2> QED BY <1>9, <2>2, <2>3
<1>11. CalmTable' /\ CalmElements' /\ CalmRouter' /\ CalmThreads'
  BY <1>2, <1>10 DEF routerVars, bounds, table, marks, queues, Calm, CalmTable, CalmElements, CalmRouter,
              CalmThreads, CalmThread
<1>12. ASSUME Spread, NEW id \in unavailableIds', NEW f \in Elements, up'[f], f # id,
              ~ (f = Proxy /\ id \in Internal)
       PROVE  Spreading(f, id)'
  <2>1. Spreading(f, id) /\ id \in Elements
    BY <1>2, <1>12 DEF Spread, routerVars, marks, Shape, RouterOK, TableOK
  <2> QED BY <1>2, <1>7, <1>10, <2>1 DEF Spreading, routerVars, marks
<1> QED BY <1>7, <1>11, <1>12 DEF Calm, Spread

LEMMA CalmNextStep ==
  ASSUME Shape, Calm, [Next]_vars
  PROVE  Calm' /\ (Spread => Spread')
<1>0. /\ \A k \in Faults : ~ Spend(k) /\ routerUp
      /\ Faults = {"start", "logout", "clear", "routercrash"}
  BY DEF Calm, CalmTable, CalmRouter, Spend, Faults
<1>1. CASE UNCHANGED vars
  <2> USE <1>1 DEF vars, clients, table, queues, marks, network, bounds
  <2>1. CalmTable' /\ CalmElements' /\ CalmRouter'
    BY DEF Calm, CalmTable, CalmElements, CalmRouter
  <2>2. CalmThreads'
    BY DEF Calm, CalmThreads, CalmThread
  <2>3. CalmNetwork'
    BY DEF Calm, CalmNetwork, News
  <2>4. Spread => Spread'
    BY DEF Spread, Spreading, NewsWritten
  <2> QED BY <2>1, <2>2, <2>3, <2>4 DEF Calm
<1>2. ASSUME NEW e \in Elements PROVE ~ Start(e) /\ ~ logoutFromRouter(e) /\ ~ ClearQueue(e) /\ ~ PopNull(e)
  <2>1. ~ PopNull(e)
    BY CalmThreadIs DEF PopNull
  <2>2. ~ Start(e) /\ ~ logoutFromRouter(e) /\ ~ ClearQueue(e)
    BY <1>0 DEF Start, logoutFromRouter, ClearQueue
  <2> QED BY <2>1, <2>2
<1>3. ~ RouterCrash /\ ~ RouterStart
  BY <1>0 DEF RouterCrash, RouterStart
<1>4. CASE Environment
  BY <1>2, <1>3, <1>4, CalmCrash, CalmElementStep, CalmLoopStep DEF Environment
<1>5. CASE \E e \in Elements :
             RouterThread(e) \/ PopNull(e) \/ retrieveMessages(e) \/ ReadData(e) \/ ReadControl(e)
  BY <1>2, <1>5, CalmThreadStep, CalmElementStep, CalmReadData, CalmReadControl
<1>6. CASE RouterLoop \/ NotifyRecovery
  BY <1>6, CalmLoopStep
<1> QED BY <1>1, <1>3, <1>4, <1>5, <1>6 DEF Next

LEMMA CalmInit ==
  ASSUME Steady, Init
  PROVE  Calm /\ Spread
<1>1. CalmTable /\ CalmRouter
  BY DEF Steady, Init, CalmTable, CalmRouter
<1>2. CalmElements
  BY DEF Init, CalmElements
<1>3. CalmThreads
  <2> SUFFICES ASSUME NEW e \in Elements
               PROVE  Len(server[e]) <= 1 /\ \A i \in DOMAIN server[e] : CalmThread(server[e][i], queue[e])
    BY DEF CalmThreads
  <2>1. CASE server[e] = << >>
    BY <2>1
  <2>2. CASE server[e] = <<Serving(<< >>)>>
    <3>1. Len(server[e]) = 1 /\ DOMAIN server[e] = {1} /\ server[e][1].in = << >> /\ server[e][1].pc = "idle"
      BY <2>2 DEF Serving
    <3>2. DOMAIN << >> = {}
      OBVIOUS
    <3>3. CalmThread(server[e][1], queue[e])
      BY <3>1, <3>2 DEF CalmThread
    <3> QED BY <3>1, <3>3
  <2> QED BY <2>1, <2>2 DEF Init
<1>4. CalmNetwork
  <2>1. \A e \in Elements, k \in Kinds : conn[e][k] = << >> /\ sock[e][k] = "none"
    BY DEF Init, NoSockets
  <2>2. Len(<< >>) = 0 /\ DOMAIN << >> = {}
    OBVIOUS
  <2> QED BY <2>1, <2>2 DEF CalmNetwork
<1>5. Spread
  BY DEF Init, Spread
<1> QED BY <1>1, <1>2, <1>3, <1>4, <1>5 DEF Calm

\* While nobody logs in or out and the router does not fail, an element that
\* runs keeps one link and one connection of each kind, the router takes none
\* that runs to be unavailable, and no thread finds the queue empty after
\* isQueueEmpty said it was not (RouterServerSocket::sendRequestedMessages).
THEOREM AlwaysCalm == ASSUME Steady PROVE MessagingSpec => []Calm
<1>1. Init => Calm
  BY CalmInit
<1>2. Shape /\ Calm /\ [Next]_vars => Calm'
  BY CalmNextStep
<1> QED BY <1>1, <1>2, AlwaysShape, PTL DEF MessagingSpec

\* Under the same assumption, for any number of elements, of failures among
\* them and of messages: once all is quiet, every element that can be told
\* knows who is unavailable (Router::markElementUnavailable, Router::run).
THEOREM UnavailabilityIsTold == ASSUME Steady PROVE MessagingSpec => []UnavailabilitySpreads
<1>1. Init => Spread
  BY CalmInit
<1>2. Shape /\ Calm /\ Spread /\ [Next]_vars => Spread'
  BY CalmNextStep
<1>3. Shape /\ Calm /\ Spread => UnavailabilitySpreads
  <2> SUFFICES ASSUME Shape, Spread, Quiet, NEW id \in unavailableIds, NEW e \in Elements, Told(e, id)
               PROVE  id \in unavailableElements[e]
    BY DEF UnavailabilitySpreads
  <2>1. Spreading(e, id)
    BY DEF Spread, Told
  <2>2. \A i \in DOMAIN conn[e]["control"] : conn[e]["control"][i].items = << >>
    BY DEF Quiet, Kinds
  <2>3. DOMAIN << >> = {}
    OBVIOUS
  <2> QED BY <2>1, <2>2, <2>3 DEF Spreading, NewsWritten, Quiet
<1> QED BY <1>1, <1>2, <1>3, AlwaysShape, AlwaysCalm, PTL DEF MessagingSpec

\* One link and one data connection for each element, so that no place of a
\* message has another beside it.
LEMMA CalmOneEach ==
  ASSUME Shape, Calm
  PROVE  OneEach
<1> SUFFICES ASSUME NEW p \in PlaceSet, NEW m \in Messages, Holds(p, m), p[1] \notin {"queued", "read"}
             PROVE  p[3] = 1
  BY DEF OneEach
<1>1. p[2] \in Elements /\ p[3] \in Nat /\ p[4] \in Nat
  BY PlaceIs
<1>2. /\ server[p[2]] \in Seq(ThreadStates) /\ Len(server[p[2]]) <= 1
      /\ conn[p[2]]["data"] \in Seq(Connections) /\ Len(conn[p[2]]["data"]) <= 1
  BY <1>1 DEF Shape, ServerOK, NetworkOK, Calm, CalmThreads, CalmNetwork, Kinds
<1>3. p[3] \in DOMAIN server[p[2]] \/ p[3] \in DOMAIN conn[p[2]]["data"]
  BY DEF Holds, Coming, Handled, Going, Collected
<1> QED BY <1>1, <1>2, <1>3

\* Under the same assumption: the messages of one element to another are read
\* in the order they were sent, by way of one connection, one thread, one queue
\* and one connection (RouterServerSocket::storeNewMessage and
\* sendRequestedMessages, ServerSocket::OnLine).
THEOREM MessagesAreReadInOrder == ASSUME Steady PROVE MessagingSpec => []InOrder
<1>1. Init => Ordered
  BY NothingAtFirst DEF Ordered
<1>2. Shape /\ Shape' /\ Calm /\ Calm' /\ Unique /\ Known /\ Ordered /\ [Next]_vars => Ordered'
  <2> SUFFICES ASSUME Shape, Shape', Calm, Calm', Unique, Known, Ordered, [Next]_vars
               PROVE  Ordered'
    OBVIOUS
  <2>1. OneEach
    BY CalmOneEach
  <2>2. Shape' /\ Calm' => OneEach'
    BY CalmOneEach, PTL
  <2> QED BY <2>1, <2>2, MovesStep
<1>3. Shape /\ Known /\ Ordered => InOrder
  <2> SUFFICES ASSUME Shape, Known, Ordered, NEW e \in Elements, NEW i \in DOMAIN inbox[e], NEW j \in DOMAIN inbox[e],
                      i < j, inbox[e][i].from = inbox[e][j].from
               PROVE  inbox[e][i].n < inbox[e][j].n
    BY DEF InOrder
  <2>1. inbox[e] \in Seq(Messages)
    BY DEF Shape, ClientsOK
  <2>2. i \in Nat /\ j \in Nat /\ inbox[e][i] \in Messages /\ inbox[e][j] \in Messages
    BY <2>1, Indexed
  <2>3. PICK p \in PlaceSet : p[1] = "read" /\ p[2] = e /\ p[3] = 0 /\ p[4] = i
    <3>1. <<"read", e, 0, i>> \in PlaceSet
      BY <2>2 DEF PlaceSet
    <3> QED BY <3>1
  <2>4. PICK q \in PlaceSet : q[1] = "read" /\ q[2] = e /\ q[3] = 0 /\ q[4] = j
    <3>1. <<"read", e, 0, j>> \in PlaceSet
      BY <2>2 DEF PlaceSet
    <3> QED BY <3>1
  <2>5. Holds(p, inbox[e][i]) /\ Holds(q, inbox[e][j])
    BY <2>3, <2>4 DEF Holds, IsRead
  <2>6. inbox[e][i].to = e /\ inbox[e][j].to = e
    BY <2>2, <2>3, <2>4, <2>5 DEF Known
  <2>7. Before(p, q)
    BY <2>3, <2>4 DEF Before
  <2> QED BY <2>2, <2>5, <2>6, <2>7 DEF Ordered
<1> QED BY <1>1, <1>2, <1>3, AlwaysShape, AlwaysCalm, AlwaysUnique, PTL DEF MessagingSpec

-----------------------------------------------------------------------------
(* When no element fails either, and all have logged in, counters are      *)
(* exact.                                                                  *)

Faultless ==
  /\ Steady /\ Budget["crash"] = 0
  /\ Started = Elements /\ IsFiniteSet(Elements)
  /\ None \notin Messages

\* Everybody runs, no message is parked, no thread ends, a thread that delivers
\* has an open socket, and a notification is about one message.
FitThread(t, socket) ==
  t.pc \notin {"park", "ended"} /\ (t.pc \in {"deliver", "pop"} => socket = "open")
FitElements ==
  /\ budget["crash"] = 0 /\ unavailableIds = {}
  /\ \A e \in Elements : up[e] /\ e \in hasQueue
FitThreads ==
  \A e \in Elements : \A i \in DOMAIN server[e] : FitThread(server[e][i], sock[e]["data"])
FitLine(cs) ==
  \A i \in DOMAIN cs : \A j \in DOMAIN cs[i].items : cs[i].items[j].type = "NOTIFY" => cs[i].items[j].n = 1
FitItems == \A e \in Elements : FitLine(conn[e]["data"])
Fit == FitElements /\ FitThreads /\ FitItems

\* The items of a kind on the one connection, the message being collected there,
\* and the threads about to notify e.
Indices(type, s) == {j \in DOMAIN s : s[j].type = type}
Count(type, cs) == IF cs = << >> THEN 0 ELSE Cardinality(Indices(type, cs[1].items))
Partials(cs) == IF cs = << >> THEN 0 ELSE IF cs[1].partial = None THEN 0 ELSE 1
Notifying(e) ==
  {f \in Elements : \E i \in DOMAIN server[f] : server[f][i].pc = "notify" /\ server[f][i].cmd.msg.to = e}

Owed(e) == unread[e] + Count("NOTIFY", conn[e]["data"]) + Cardinality(Notifying(e))
Stored(e) == Len(queue[e]) + Count("MESSAGE", conn[e]["data"]) + Partials(conn[e]["data"])
Balanced == \A e \in Elements : Owed(e) = Stored(e)

\* Sets are counted by mapping them one to one.
LEMMA SameCount ==
  ASSUME NEW S, IsFiniteSet(S), NEW T, NEW f \in [S -> T],
         \A x, y \in S : f[x] = f[y] => x = y, \A t \in T : \E x \in S : f[x] = t
  PROVE  IsFiniteSet(T) /\ Cardinality(T) = Cardinality(S) /\ Cardinality(S) \in Nat
<1>1. f \in Bijection(S, T)
  BY DEF Bijection, Injection, IsInjective, Surjection
<1>2. ExistsBijection(S, T)
  BY <1>1 DEF ExistsBijection
<1> QED BY <1>2, FS_Bijection, FS_CardinalityType

LEMMA IndicesType ==
  ASSUME NEW s \in Seq(Items), NEW type
  PROVE  IsFiniteSet(Indices(type, s)) /\ Cardinality(Indices(type, s)) \in Nat
<1>1. DOMAIN s = 1 .. Len(s) /\ Len(s) \in Nat
  BY LenProperties
<1>2. IsFiniteSet(1 .. Len(s))
  BY <1>1, FS_Interval
<1>3. Indices(type, s) \in SUBSET (1 .. Len(s))
  BY <1>1 DEF Indices
<1> QED BY <1>2, <1>3, FS_Subset, FS_CardinalityType

\* An item is written, ...
LEMMA IndicesAppend ==
  ASSUME NEW s \in Seq(Items), NEW x \in Items, NEW type
  PROVE  Cardinality(Indices(type, Append(s, x))) =
           IF x.type = type THEN Cardinality(Indices(type, s)) + 1 ELSE Cardinality(Indices(type, s))
<1>1. /\ Len(s) \in Nat /\ DOMAIN s = 1 .. Len(s) /\ DOMAIN Append(s, x) = 1 .. Len(s) + 1
      /\ Append(s, x)[Len(s) + 1] = x /\ \A i \in DOMAIN s : Append(s, x)[i] = s[i]
  BY Appended
<1>2. Indices(type, Append(s, x)) =
        IF x.type = type THEN Indices(type, s) \cup {Len(s) + 1} ELSE Indices(type, s)
  BY <1>1 DEF Indices
<1>3. Len(s) + 1 \notin Indices(type, s)
  BY <1>1 DEF Indices
<1> QED BY <1>2, <1>3, IndicesType, FS_AddElement

\* ... and taken.
LEMMA IndicesTail ==
  ASSUME NEW s \in Seq(Items), s # << >>, NEW type
  PROVE  Cardinality(Indices(type, Tail(s))) =
           IF Head(s).type = type THEN Cardinality(Indices(type, s)) - 1 ELSE Cardinality(Indices(type, s))
<1>1. /\ Tail(s) \in Seq(Items) /\ Head(s) = s[1]
      /\ Len(s) \in Nat /\ Len(s) >= 1 /\ DOMAIN s = 1 .. Len(s)
      /\ DOMAIN Tail(s) = 1 .. Len(s) - 1
      /\ \A i \in 1 .. Len(s) - 1 : Tail(s)[i] = s[i + 1]
  BY Taken
<1> DEFINE S == Indices(type, Tail(s))
           T == Indices(type, s) \ {1}
           f == [j \in S |-> j + 1]
<1>2. \A j \in S : j \in Nat /\ j + 1 \in T
  BY <1>1 DEF Indices
<1>3. \A t \in T : t - 1 \in S /\ t \in Nat
  BY <1>1 DEF Indices
<1>4. IsFiniteSet(S) /\ IsFiniteSet(Indices(type, s)) /\ Cardinality(S) \in Nat
  BY <1>1, IndicesType
<1>5. Cardinality(T) = Cardinality(S)
  <2> HIDE DEF S, T
  <2>1. f \in [S -> T]
    BY <1>2
  <2>2. \A x, y \in S : f[x] = f[y] => x = y
    BY <1>2
  <2>3. \A t \in T : \E x \in S : f[x] = t
    <3> SUFFICES ASSUME NEW t \in T PROVE f[t - 1] = t /\ t - 1 \in S
      OBVIOUS
    <3> QED BY <1>3
  <2> HIDE DEF f
  <2> QED BY <1>4, <2>1, <2>2, <2>3, SameCount
<1>6. 1 \in Indices(type, s) <=> Head(s).type = type
  BY <1>1 DEF Indices
<1> QED BY <1>4, <1>5, <1>6, FS_RemoveElement

\* Counts on the one connection of an element: none, a new one, and an item
\* written or taken.
LEMMA CountType ==
  ASSUME NEW cs \in Seq(Connections), NEW type
  PROVE  Count(type, cs) \in Nat /\ Partials(cs) \in Nat
<1>1. CASE cs = << >>
  BY <1>1 DEF Count, Partials
<1>2. CASE cs # << >>
  <2>1. cs[1] \in Connections
    BY <1>2, Indexed
  <2>2. cs[1].items \in Seq(Items)
    BY <2>1 DEF Connections
  <2> QED BY <1>2, <2>2, IndicesType DEF Count, Partials
<1> QED BY <1>1, <1>2

LEMMA CountNew ==
  ASSUME NEW type, NEW cs \in Seq(Connections), cs = Append(<< >>, NewConnection)
  PROVE  cs # << >> /\ Len(cs) = 1 /\ Count(type, cs) = 0 /\ Partials(cs) = 0
<1>1. cs[1] = NewConnection /\ cs # << >> /\ Len(cs) = 1
  OBVIOUS
<1>2. cs[1].items = << >> /\ cs[1].partial = None
  BY <1>1 DEF NewConnection
<1>3. Indices(type, << >>) = {}
  BY DEF Indices
<1> QED BY <1>1, <1>2, <1>3, FS_EmptySet DEF Count, Partials

LEMMA CountWritten ==
  ASSUME NEW cs \in Seq(Connections), cs # << >>, Len(cs) <= 1, NEW item \in Items, NEW type
  PROVE  /\ Count(type, Written(cs, item)) = IF item.type = type THEN Count(type, cs) + 1 ELSE Count(type, cs)
         /\ Partials(Written(cs, item)) = Partials(cs)
<1>1. Len(cs) = 1 /\ cs[1] \in Connections
  <2>1. PICK n \in Nat : n = Len(cs) /\ n >= 1 /\ n <= 1 /\ 1 \in DOMAIN cs
    BY Indexed
  <2>2. n = 1
    BY <2>1
  <2> QED BY <2>1, <2>2, Indexed
<1>2. cs[1].items \in Seq(Items)
  BY <1>1 DEF Connections
<1>3. /\ Written(cs, item) # << >>
      /\ Written(cs, item)[1] = [cs[1] EXCEPT !.items = Append(@, item)]
  <2>1. /\ Len(Written(cs, item)) = Len(cs)
        /\ Written(cs, item)[Len(cs)] = [cs[Len(cs)] EXCEPT !.items = Append(@, item)]
    BY WrittenIs
  <2>2. Len(Written(cs, item)) = 1
    BY <1>1, <2>1
  <2> QED BY <1>1, <2>1, <2>2
<1>4. Written(cs, item)[1].items = Append(cs[1].items, item) /\ Written(cs, item)[1].partial = cs[1].partial
  BY <1>1, <1>3 DEF Connections
<1> QED BY <1>2, <1>3, <1>4, IndicesAppend DEF Count, Partials

LEMMA CountTaken ==
  ASSUME NEW cs \in Seq(Connections), NEW cs2 \in Seq(Connections), cs # << >>, cs2 # << >>,
         cs[1].items # << >>, cs2[1].items = Tail(cs[1].items), NEW type
  PROVE  Count(type, cs2) = IF Head(cs[1].items).type = type THEN Count(type, cs) - 1 ELSE Count(type, cs)
<1>1. cs[1] \in Connections
  BY Indexed
<1>2. cs[1].items \in Seq(Items)
  BY <1>1 DEF Connections
<1> QED BY <1>2, IndicesTail DEF Count

\* What is written to the one connection of an element that runs.
LEMMA WrittenLine ==
  ASSUME Shape, Calm, Fit, NEW e \in Elements, NEW item, NEW silent, item \in Items \/ e \in silent,
         item.type = "NOTIFY" => item.n = 1, CalmWritten(e, "data", item, silent), NEW type
  PROVE  /\ FitLine(conn'[e]["data"]) /\ Partials(conn'[e]["data"]) = Partials(conn[e]["data"])
         /\ Count(type, conn'[e]["data"]) =
              IF e \notin silent /\ item.type = type THEN Count(type, conn[e]["data"]) + 1
              ELSE Count(type, conn[e]["data"])
<1>0. conn[e]["data"] \in Seq(Connections) /\ Len(conn[e]["data"]) <= 1 /\ FitLine(conn[e]["data"])
  BY DEF Shape, NetworkOK, Calm, CalmNetwork, Kinds, Fit, FitItems
<1>1. PICK cs \in Seq(Connections) :
        /\ cs # << >> /\ conn'[e]["data"] = IF e \in silent THEN cs ELSE Written(cs, item)
        /\ \/ cs = conn[e]["data"]
           \/ cs = Append(conn[e]["data"], NewConnection) /\ conn[e]["data"] = << >>
  BY DEF CalmWritten
<1>2. /\ Len(cs) <= 1 /\ FitLine(cs) /\ Partials(cs) = Partials(conn[e]["data"])
      /\ Count(type, cs) = Count(type, conn[e]["data"])
  <2>1. CASE cs = conn[e]["data"]
    BY <1>0, <2>1
  <2>2. CASE cs = Append(conn[e]["data"], NewConnection) /\ conn[e]["data"] = << >>
    <3>1. cs = Append(<< >>, NewConnection)
      BY <2>2
    <3>2. Len(cs) = 1 /\ Count(type, cs) = 0 /\ Partials(cs) = 0
      BY <3>1, CountNew
    <3>3. DOMAIN cs = {1} /\ cs[1].items = << >> /\ DOMAIN << >> = {}
      BY <3>1 DEF NewConnection
    <3> QED BY <2>2, <3>2, <3>3 DEF FitLine, Count, Partials
  <2> QED BY <1>1, <2>1, <2>2
<1>3. CASE e \in silent
  BY <1>1, <1>2, <1>3
<1>4. CASE e \notin silent
  <2>1. item \in Items /\ conn'[e]["data"] = Written(cs, item)
    BY <1>1, <1>4
  <2>2. FitLine(Written(cs, item))
    <3> SUFFICES ASSUME NEW i \in DOMAIN Written(cs, item), NEW j \in DOMAIN Written(cs, item)[i].items
                 PROVE  Written(cs, item)[i].items[j].type = "NOTIFY" => Written(cs, item)[i].items[j].n = 1
      BY DEF FitLine
    <3>1. i \in DOMAIN cs /\ (\/ j \in DOMAIN cs[i].items /\ Written(cs, item)[i].items[j] = cs[i].items[j]
                              \/ Written(cs, item)[i].items[j] = item)
      BY <1>1, <2>1, WrittenAt
    <3> QED BY <1>2, <3>1 DEF FitLine
  <2>3. /\ Count(type, Written(cs, item)) = IF item.type = type THEN Count(type, cs) + 1 ELSE Count(type, cs)
        /\ Partials(Written(cs, item)) = Partials(cs)
    BY <1>1, <1>2, <2>1, CountWritten
  <2> QED BY <1>2, <1>4, <2>1, <2>2, <2>3
<1> QED BY <1>3, <1>4

\* A thread goes on: who is about to notify whom.
LEMMA NotifyingBecomes ==
  ASSUME Shape, Calm, NEW e \in Elements, NEW i \in DOMAIN server[e], NEW pc, NEW cmd,
         BecomeEffect(e, i, pc, cmd), NEW t \in Elements
  PROVE  /\ e \in Notifying(t) <=> server[e][i].pc = "notify" /\ server[e][i].cmd.msg.to = t
         /\ Notifying(t)' = IF pc = "notify" /\ cmd.msg.to = t THEN Notifying(t) \cup {e} ELSE Notifying(t) \ {e}
<1>1. DOMAIN server[e] = {i}
  <2>1. server[e] \in Seq(ThreadStates) /\ Len(server[e]) <= 1
    BY DEF Shape, ServerOK, Calm, CalmThreads
  <2> QED BY <2>1
<1>2. /\ \A f \in Elements : f # e => server'[f] = server[f]
      /\ DOMAIN server'[e] = {i} /\ server'[e][i].pc = pc /\ server'[e][i].cmd = cmd
  BY <1>1 DEF BecomeEffect
<1>3. e \in Notifying(t) <=> server[e][i].pc = "notify" /\ server[e][i].cmd.msg.to = t
  BY <1>1 DEF Notifying
<1>4. e \in Notifying(t)' <=> pc = "notify" /\ cmd.msg.to = t
  BY <1>2 DEF Notifying
<1>5. \A f : f # e => (f \in Notifying(t)' <=> f \in Notifying(t))
  BY <1>2 DEF Notifying
<1> QED BY <1>3, <1>4, <1>5

LEMMA FitBecomes ==
  ASSUME Shape, Calm, Fit, NEW e \in Elements, NEW i \in DOMAIN server[e], NEW pc, NEW cmd,
         BecomeEffect(e, i, pc, cmd), pc \notin {"park", "ended"},
         pc \in {"deliver", "pop"} => sock'[e]["data"] = "open",
         \A f \in Elements : f # e => sock'[f]["data"] = sock[f]["data"]
  PROVE  FitThreads'
<1>1. DOMAIN server[e] = {i}
  <2>1. server[e] \in Seq(ThreadStates) /\ Len(server[e]) <= 1
    BY DEF Shape, ServerOK, Calm, CalmThreads
  <2> QED BY <2>1
<1>2. /\ \A f \in Elements : f # e => server'[f] = server[f]
      /\ DOMAIN server'[e] = {i} /\ server'[e][i].pc = pc
  BY <1>1 DEF BecomeEffect
<1> SUFFICES ASSUME NEW f \in Elements, NEW j \in DOMAIN server'[f]
             PROVE  FitThread(server'[f][j], sock'[f]["data"])
  BY DEF FitThreads
<1>3. CASE f = e
  BY <1>2, <1>3 DEF FitThread
<1>4. CASE f # e
  BY <1>2, <1>4 DEF Fit, FitThreads
<1> QED BY <1>3, <1>4

LEMMA FitElementsKept ==
  ASSUME Fit, MarkedDown, up' = up, hasQueue \subseteq hasQueue', budget'["crash"] = budget["crash"]
  PROVE  FitElements'
<1>1. PICK U \in SUBSET Elements : (\A e \in U : ~ up[e]) /\ unavailableIds' = unavailableIds \cup U
  BY DEF MarkedDown
<1>2. U = {}
  BY <1>1 DEF Fit, FitElements
<1> QED BY <1>1, <1>2 DEF Fit, FitElements

\* The numbers of both sides are numbers.
LEMMA BalanceTypes ==
  ASSUME Shape, IsFiniteSet(Elements), NEW e \in Elements
  PROVE  /\ unread[e] \in Int /\ Len(queue[e]) \in Nat /\ conn[e]["data"] \in Seq(Connections)
         /\ \A type : Count(type, conn[e]["data"]) \in Nat
         /\ Partials(conn[e]["data"]) \in Nat
         /\ IsFiniteSet(Notifying(e)) /\ Cardinality(Notifying(e)) \in Nat
<1>1. /\ unread[e] \in Int /\ queue[e] \in Seq(Messages) /\ conn[e]["data"] \in Seq(Connections)
  BY DEF Shape, ClientsOK, QueuesOK, NetworkOK, Kinds
<1>2. Notifying(e) \in SUBSET Elements
  BY DEF Notifying
<1>3. IsFiniteSet(Notifying(e)) /\ Cardinality(Notifying(e)) \in Nat
  BY <1>2, FS_Subset, FS_CardinalityType
<1>4. Len(queue[e]) \in Nat
  BY <1>1, LenProperties
<1> QED BY <1>1, <1>3, <1>4, CountType

\* An element about which nothing changes.
LEMMA BalanceKept ==
  ASSUME NEW e \in Elements, Owed(e) = Stored(e), unread'[e] = unread[e], conn'[e]["data"] = conn[e]["data"],
         Notifying(e)' = Notifying(e), queue'[e] = queue[e]
  PROVE  Owed(e)' = Stored(e)'
<1>1. Owed(e)' = Owed(e) /\ Stored(e)' = Stored(e)
  BY DEF Owed, Stored
<1> QED BY <1>1

\* A step of the router that changes no counter and no line.
LEMMA FitStep ==
  ASSUME Shape, Calm, Fit, Balanced, MarkedDown, UNCHANGED clients, hasQueue \subseteq hasQueue',
         budget'["crash"] = budget["crash"], FitThreads',
         \A t \in Elements : Notifying(t)' = Notifying(t) /\ queue'[t] = queue[t]
                             /\ conn'[t]["data"] = conn[t]["data"]
  PROVE  Fit' /\ Balanced'
<1>1. FitElements'
  BY FitElementsKept DEF clients
<1>2. FitItems'
  BY DEF Fit, FitItems
<1>3. \A t \in Elements : Owed(t) = Stored(t) /\ unread'[t] = unread[t]
  BY DEF Balanced, clients
<1>4. \A t \in Elements : Owed(t)' = Stored(t)'
  BY <1>3, BalanceKept
<1> QED BY <1>1, <1>2, <1>4 DEF Fit, Balanced

LEMMA FitStoreStep ==
  ASSUME Shape, Calm, Fit, Balanced, Started = Elements, IsFiniteSet(Elements), Shape',
         NEW e \in Elements, NEW i \in DOMAIN server[e],
         NewMessage(e, i) \/ ParkMessage(e, i) \/ PushMessage(e, i) \/ NotifyTarget(e, i)
  PROVE  Fit' /\ Balanced'
<1>1. /\ \A op : Reads(e, i, op) => server[e][i].pc = "idle" /\ server[e][i].in # << >>
      /\ At(e, i, "push") \/ At(e, i, "notify") =>
           Command(e, i) \in NewCommands /\ Command(e, i).msg.to \in Started
  BY CalmThreadIs
<1>2. UNCHANGED <<clients, bounds>> /\ budget'["crash"] = budget["crash"] /\ up' = up /\ unread' = unread
  BY DEF NewMessage, ParkMessage, PushMessage, NotifyTarget, others, clients, bounds
<1>3. ServerOK /\ {"idle", "push", "notify"} \subseteq Pcs /\ None \in Commands \cup {None} /\ "data" \in Kinds
  BY DEF Shape, Pcs, Kinds
<1>4. registered = Elements /\ unavailableIds = {} /\ \A t \in Elements : up[t] /\ t \in hasQueue
  BY DEF Calm, CalmTable, Fit, FitElements
<1>5. server[e][i].pc # "park"
  BY DEF Fit, FitThreads, FitThread
<1>6. CASE NewMessage(e, i)
  <2>1. Reads(e, i, "NEW") /\ queue' = queue /\ UNCHANGED <<marks, network>> /\ hasQueue \subseteq hasQueue'
    BY <1>6 DEF NewMessage, Queued
  <2>2. PICK cmd \in Commands : cmd = Command(e, i) /\ cmd.msg \in Messages /\ cmd.msg.from \in Elements /\ cmd.msg.to \in Elements
    <3>1. Command(e, i) \in Commands /\ Command(e, i).op = "NEW"
      BY <2>1, ThreadIs
    <3>2. Command(e, i).msg \in Messages
      BY <3>1, CommandIs
    <3> QED BY <3>1, <3>2, CommandIs
  <2>3. Become(e, i, "push", cmd)
    BY <1>4, <1>6, <2>2 DEF NewMessage
  <2>4. BecomeEffect(e, i, "push", cmd)
    BY <1>1, <1>3, <2>1, <2>3, BecomeIs
  <2>5. \A t \in Elements : Notifying(t)' = Notifying(t)
    <3> TAKE t \in Elements
    <3>1. server[e][i].pc # "notify"
      BY <1>1, <2>1
    <3>2. e \notin Notifying(t) /\ Notifying(t)' = Notifying(t) \ {e}
      BY <2>4, <3>1, NotifyingBecomes
    <3> QED BY <3>2
  <2>6. FitThreads'
    BY <2>1, <2>4, FitBecomes DEF network
  <2> QED BY <1>2, <2>1, <2>5, <2>6, FitStep, NothingMarked DEF network
<1>7. CASE ParkMessage(e, i)
  BY <1>5, <1>7 DEF ParkMessage, At
<1>8. CASE PushMessage(e, i)
  <2>1. /\ At(e, i, "push") /\ Push(Command(e, i).msg) /\ Become(e, i, "notify", Command(e, i))
        /\ UNCHANGED <<network, marks, hasQueue>>
    BY <1>8 DEF PushMessage
  <2>2. PICK cmd \in Commands : cmd = Command(e, i) /\ cmd.msg \in Messages /\ cmd.msg.to \in Elements
    BY <1>1, <2>1, CommandIs
  <2>3. BecomeEffect(e, i, "notify", cmd) /\ server[e][i].pc = "push"
    BY <1>3, <2>1, <2>2, BecomeIs DEF At
  <2>4. PICK to \in Elements : to = cmd.msg.to
    BY <2>2
  <2>5. queue \in [Elements -> Seq(Messages)]
    BY DEF Shape, QueuesOK
  <2>6. queue' = [queue EXCEPT ![to] = Append(@, cmd.msg)]
    BY <1>4, <2>1, <2>2, <2>4 DEF Push
  <2>7. /\ Len(queue'[to]) = Len(queue[to]) + 1
        /\ \A t \in Elements : t # to => queue'[t] = queue[t]
    BY <2>2, <2>5, <2>6, Appended
  <2>8. \A t \in Elements : e \notin Notifying(t) /\ Notifying(t)' = IF t = to THEN Notifying(t) \cup {e} ELSE Notifying(t)
    <3> TAKE t \in Elements
    <3>1. e \notin Notifying(t)
      BY <2>3, NotifyingBecomes
    <3>2. Notifying(t)' = IF cmd.msg.to = t THEN Notifying(t) \cup {e} ELSE Notifying(t) \ {e}
      BY <2>3, NotifyingBecomes
    <3> QED BY <2>4, <3>1, <3>2
  <2>9. FitThreads'
    BY <2>1, <2>3, FitBecomes DEF network
  <2>10. FitElements' /\ FitItems'
    BY <1>2, <2>1, FitElementsKept, NothingMarked DEF Fit, FitItems, network
  <2>11. ASSUME NEW t \in Elements PROVE Owed(t)' = Stored(t)'
    <3>1. Owed(t) = Stored(t) /\ conn'[t]["data"] = conn[t]["data"] /\ unread'[t] = unread[t]
      BY <1>2, <2>1 DEF Balanced, network
    <3>2. CASE t # to
      BY <2>7, <2>8, <3>1, <3>2, BalanceKept
    <3>3. CASE t = to
      <4>1. /\ unread[t] \in Int /\ Len(queue[t]) \in Nat /\ Count("NOTIFY", conn[t]["data"]) \in Nat
            /\ Count("MESSAGE", conn[t]["data"]) \in Nat /\ Partials(conn[t]["data"]) \in Nat
            /\ IsFiniteSet(Notifying(t)) /\ Cardinality(Notifying(t)) \in Nat
        BY BalanceTypes
      <4>2. Cardinality(Notifying(t)') = Cardinality(Notifying(t)) + 1
        BY <2>8, <3>3, <4>1, FS_AddElement
      <4>3. Owed(t)' = Owed(t) + 1
        BY <3>1, <4>1, <4>2 DEF Owed
      <4>4. Stored(t)' = Stored(t) + 1
        BY <2>7, <3>1, <3>3, <4>1 DEF Stored
      <4> QED BY <3>1, <4>3, <4>4
    <3> QED BY <3>2, <3>3
  <2> QED BY <2>9, <2>10, <2>11 DEF Fit, Balanced
<1>9. CASE NotifyTarget(e, i)
  <2>1. /\ At(e, i, "notify") /\ NotifyMessageArrival(Command(e, i).msg.to, 1) /\ Done(e, i)
        /\ queue' = queue /\ hasQueue' = hasQueue
    BY <1>9 DEF NotifyTarget, queues
  <2>2. PICK to \in Elements : to = Command(e, i).msg.to /\ to = server[e][i].cmd.msg.to
    <3>1. Command(e, i) = server[e][i].cmd /\ Command(e, i).msg.to \in Elements
      BY <1>1, <1>4, <2>1, ThreadIs DEF Calm, CalmTable
    <3> QED BY <3>1
  <2>3. BecomeEffect(e, i, "idle", None) /\ server[e][i].pc = "notify"
    BY <1>3, <2>1, BecomeIs DEF Done, At
  <2>4. PICK item \in Items : item = [type |-> "NOTIFY", n |-> 1] /\ item.type = "NOTIFY" /\ item.n = 1
    <3>1. [type |-> "NOTIFY", n |-> 1] \in Items
      BY DEF Items
    <3> QED BY <3>1
  <2>5. PICK broken : Write({to}, "data", broken, item, {})
    BY <1>4, <2>1, <2>2, <2>4 DEF NotifyMessageArrival
  <2>6. CalmWriteEffect({to}, "data", item, {})
    BY <1>3, <1>4, <2>5, CalmWriteIs
  <2>7. /\ \A t \in Elements : t # to => conn'[t]["data"] = conn[t]["data"] /\ sock'[t]["data"] = sock[t]["data"]
        /\ CalmWritten(to, "data", item, {})
    BY <1>3, <1>4, <2>6 DEF CalmWriteEffect
  <2>8. MarkedDown
    BY <1>2, <1>4, <2>1, <2>2, CalmArrival
  <2>9. FitElements'
    BY <1>2, <2>1, <2>8, FitElementsKept
  <2>10. /\ FitLine(conn'[to]["data"]) /\ Partials(conn'[to]["data"]) = Partials(conn[to]["data"])
         /\ Count("NOTIFY", conn'[to]["data"]) = Count("NOTIFY", conn[to]["data"]) + 1
         /\ Count("MESSAGE", conn'[to]["data"]) = Count("MESSAGE", conn[to]["data"])
    BY <2>4, <2>7, WrittenLine
  <2>11. FitItems'
    BY <2>7, <2>10 DEF Fit, FitItems
  <2>12. FitThreads'
    <3> SUFFICES ASSUME NEW f \in Elements, NEW j \in DOMAIN server'[f]
                 PROVE  FitThread(server'[f][j], sock'[f]["data"])
      BY DEF FitThreads
    <3>1. sock[f]["data"] = "open" => sock'[f]["data"] = "open"
      BY <2>7 DEF CalmWritten
    <3>2. CASE f = e /\ j = i
      BY <2>3, <3>2 DEF BecomeEffect, FitThread
    <3>3. CASE f # e \/ j # i
      <4>1. j \in DOMAIN server[f] /\ server'[f][j] = server[f][j]
        BY <2>3, <3>3 DEF BecomeEffect
      <4>2. FitThread(server[f][j], sock[f]["data"])
        BY <4>1 DEF Fit, FitThreads
      <4> QED BY <3>1, <4>1, <4>2 DEF FitThread
    <3> QED BY <3>2, <3>3
  <2>13. ASSUME NEW t \in Elements PROVE Owed(t)' = Stored(t)'
    <3>1. Owed(t) = Stored(t) /\ unread'[t] = unread[t] /\ queue'[t] = queue[t]
      BY <1>2, <2>1 DEF Balanced
    <3>2. (e \in Notifying(t) <=> to = t) /\ Notifying(t)' = Notifying(t) \ {e}
      BY <2>2, <2>3, NotifyingBecomes
    <3>3. CASE t # to
      <4>1. Notifying(t)' = Notifying(t) /\ conn'[t]["data"] = conn[t]["data"]
        BY <2>7, <3>2, <3>3
      <4> QED BY <3>1, <4>1, BalanceKept
    <3>4. CASE t = to
      <4>1. /\ unread[t] \in Int /\ Len(queue[t]) \in Nat /\ Count("NOTIFY", conn[t]["data"]) \in Nat
            /\ Count("MESSAGE", conn[t]["data"]) \in Nat /\ Partials(conn[t]["data"]) \in Nat
            /\ IsFiniteSet(Notifying(t)) /\ Cardinality(Notifying(t)) \in Nat
        BY BalanceTypes
      <4>2. Cardinality(Notifying(t)') = Cardinality(Notifying(t)) - 1
        <5>1. e \in Notifying(t) /\ Notifying(t)' = Notifying(t) \ {e} /\ IsFiniteSet(Notifying(t))
          BY <3>2, <3>4, <4>1
        <5>2. Cardinality(Notifying(t) \ {e}) = Cardinality(Notifying(t)) - 1
          BY ONLY <5>1, FS_RemoveElement
        <5> QED BY ONLY <5>1, <5>2
      <4>3. Owed(t)' = Owed(t)
        <5>1. Owed(t)' = unread[t] + (Count("NOTIFY", conn[t]["data"]) + 1) + (Cardinality(Notifying(t)) - 1)
          BY <2>10, <3>1, <3>4, <4>2 DEF Owed
        <5> QED BY <4>1, <5>1 DEF Owed
      <4>4. Stored(t)' = Stored(t)
        BY <2>10, <3>1, <3>4, <4>1 DEF Stored
      <4> QED BY <3>1, <4>3, <4>4
    <3> QED BY <3>3, <3>4
  <2> QED BY <2>9, <2>11, <2>12, <2>13 DEF Fit, Balanced
<1> QED BY <1>6, <1>7, <1>8, <1>9

LEMMA FitDeliverStep ==
  ASSUME Shape, Calm, Fit, Balanced, Started = Elements, IsFiniteSet(Elements),
         NEW e \in Elements, NEW i \in DOMAIN server[e],
         RequestUnreadMessages(e, i) \/ MoreMessages(e, i) \/ DeliverMessage(e, i) \/ NoMoreMessages(e, i)
  PROVE  Fit' /\ Balanced'
<1>1. \A op : Reads(e, i, op) => server[e][i].pc = "idle" /\ server[e][i].in # << >>
  BY CalmThreadIs
<1>2. UNCHANGED <<clients, bounds>> /\ budget'["crash"] = budget["crash"] /\ up' = up /\ unread' = unread
  BY DEF RequestUnreadMessages, MoreMessages, DeliverMessage, NoMoreMessages, others, clients, bounds
<1>3. ServerOK /\ {"idle", "deliver", "pop"} \subseteq Pcs /\ None \in Commands \cup {None} /\ "data" \in Kinds
  BY DEF Shape, Pcs, Kinds
<1>4. registered = Elements /\ unavailableIds = {} /\ \A t \in Elements : up[t] /\ t \in hasQueue
  BY DEF Calm, CalmTable, Fit, FitElements
<1>5. server[e][i].pc \in {"deliver", "pop"} => sock[e]["data"] = "open"
  BY DEF Fit, FitThreads, FitThread
\* No thread is about to notify or has just done so.
<1>6. ASSUME NEW pc \in {"idle", "deliver", "pop"}, BecomeEffect(e, i, pc, None), server[e][i].pc # "notify",
             NEW t \in Elements
      PROVE  Notifying(t)' = Notifying(t)
  <2>1. e \notin Notifying(t) /\ Notifying(t)' = Notifying(t) \ {e}
    BY <1>6, NotifyingBecomes
  <2> QED BY <2>1
<1>7. CASE RequestUnreadMessages(e, i)
  <2>1. Reads(e, i, "REQUEST") /\ queue' = queue /\ hasQueue \subseteq hasQueue'
        /\ server[e][i].pc = "idle" /\ server[e][i].in # << >>
    BY <1>1, <1>7 DEF RequestUnreadMessages, Queued
  <2>2. CASE Done(e, i) /\ UNCHANGED <<network, table, marks>>
    <3>1. BecomeEffect(e, i, "idle", None)
      BY <1>3, <2>1, <2>2, BecomeIs DEF Done
    <3>2. FitThreads'
      BY <2>2, <3>1, FitBecomes DEF network
    <3>3. \A t \in Elements : Notifying(t)' = Notifying(t)
      BY <1>6, <2>1, <3>1
    <3> QED BY <1>2, <2>1, <2>2, <3>2, <3>3, FitStep, NothingMarked DEF network
  <2>3. CASE /\ Write({e}, "data", {}, None, {e})
             /\ Mark(Failed({e}, "data", {}), {})
             /\ Done(e, i) \/ Become(e, i, "deliver", None)
    <3>1. {e} \in SUBSET registered /\ {e} \subseteq {e}
      BY <1>4
    <3>2. CalmWriteEffect({e}, "data", None, {e}) /\ \A f \in Failed({e}, "data", {}) : ~ up[f]
      BY <1>3, <2>3, <3>1, CalmWriteIs
    <3>3. /\ \A t \in Elements : t # e => conn'[t]["data"] = conn[t]["data"] /\ sock'[t]["data"] = sock[t]["data"]
          /\ CalmWritten(e, "data", None, {e})
      BY <1>3, <1>4, <3>2 DEF CalmWriteEffect
    <3>4. MarkedDown
      <4>1. Failed({e}, "data", {}) \in SUBSET Elements
        BY DEF Failed
      <4> QED BY <2>3, <3>2, <4>1, MarkIs
    <3>5. PICK pc \in {"idle", "deliver"} : BecomeEffect(e, i, pc, None)
      BY <1>3, <2>1, <2>3, BecomeIs DEF Done
    <3>6. FitThreads'
      BY <3>3, <3>5, FitBecomes DEF CalmWritten
    <3>7. /\ FitLine(conn'[e]["data"]) /\ Partials(conn'[e]["data"]) = Partials(conn[e]["data"])
          /\ \A type : Count(type, conn'[e]["data"]) = Count(type, conn[e]["data"])
      <4>1. PICK item : item \in Items /\ item.type = "END"
        <5>1. [type |-> "END"] \in Items
          BY ItemIs
        <5> QED BY <5>1
      <4>2. CalmWritten(e, "data", item, {e}) /\ e \in {e} /\ item.type # "NOTIFY"
        BY <3>3, <4>1 DEF CalmWritten
      <4> QED BY <4>1, <4>2, WrittenLine
    <3>8. FitElements' /\ FitItems'
      BY <1>2, <2>1, <3>3, <3>4, <3>7, FitElementsKept DEF Fit, FitItems
    <3>9. ASSUME NEW t \in Elements PROVE Owed(t)' = Stored(t)'
      <4>1. Owed(t) = Stored(t) /\ unread'[t] = unread[t] /\ queue'[t] = queue[t] /\ Notifying(t)' = Notifying(t)
        BY <1>2, <1>6, <2>1, <3>5 DEF Balanced
      <4>2. /\ Partials(conn'[t]["data"]) = Partials(conn[t]["data"])
            /\ \A type : Count(type, conn'[t]["data"]) = Count(type, conn[t]["data"])
        BY <3>3, <3>7
      <4>3. Owed(t)' = Owed(t) /\ Stored(t)' = Stored(t)
        BY <4>1, <4>2 DEF Owed, Stored
      <4> QED BY <4>1, <4>3
    <3> QED BY <3>6, <3>8, <3>9 DEF Fit, Balanced
  <2> QED BY <1>7, <2>2, <2>3 DEF RequestUnreadMessages
<1>8. CASE MoreMessages(e, i)
  <2>1. /\ At(e, i, "deliver") /\ UNCHANGED <<queues, marks, network>> /\ Become(e, i, "pop", None)
        /\ server[e][i].pc = "deliver"
    BY <1>8 DEF MoreMessages, At
  <2>2. BecomeEffect(e, i, "pop", None)
    BY <1>3, <2>1, BecomeIs
  <2>3. FitThreads'
    BY <1>5, <2>1, <2>2, FitBecomes DEF network
  <2>4. \A t \in Elements : Notifying(t)' = Notifying(t)
    BY <1>6, <2>1, <2>2
  <2> QED BY <1>2, <2>1, <2>3, <2>4, FitStep, NothingMarked DEF network, queues
\* An item is written to the open socket, and the thread goes on.
<1>9. ASSUME NEW item \in Items, item.type # "NOTIFY", WriteReturns(e, item), sock[e]["data"] = "open",
             NEW pc \in {"idle", "deliver"}, Become(e, i, pc, None), server[e][i].pc \in {"deliver", "pop"},
             UNCHANGED <<hasQueue, marks>>
      PROVE  /\ Fit' /\ \A t \in Elements : Notifying(t)' = Notifying(t)
             /\ \A t \in Elements : t # e => conn'[t]["data"] = conn[t]["data"]
             /\ Partials(conn'[e]["data"]) = Partials(conn[e]["data"])
             /\ \A type : Count(type, conn'[e]["data"]) =
                  IF item.type = type THEN Count(type, conn[e]["data"]) + 1 ELSE Count(type, conn[e]["data"])
  <2>1. BecomeEffect(e, i, pc, None)
    BY <1>3, <1>9, BecomeIs
  <2>2. FitThreads'
    BY <1>9, <2>1, FitBecomes DEF WriteReturns
  <2>3. \A t \in Elements : Notifying(t)' = Notifying(t)
    BY <1>6, <1>9, <2>1
  <2>4. conn \in [Elements -> [Kinds -> Seq(Connections)]] /\ conn[e]["data"] # << >>
        /\ conn[e]["data"] \in Seq(Connections)
    BY <1>3, <1>9 DEF Shape, NetworkOK
  <2>5. conn' = [conn EXCEPT ![e] = [conn[e] EXCEPT !["data"] = Written(conn[e]["data"], item)]] /\ sock' = sock
    BY <1>9 DEF WriteReturns
  <2>6. /\ conn'[e]["data"] = Written(conn[e]["data"], item)
        /\ \A t \in Elements : t # e => conn'[t]["data"] = conn[t]["data"]
    BY <1>3, <2>4, <2>5
  <2>7. CalmWritten(e, "data", item, {})
    BY <1>9, <2>4, <2>5, <2>6 DEF CalmWritten
  <2>8. /\ FitLine(conn'[e]["data"]) /\ Partials(conn'[e]["data"]) = Partials(conn[e]["data"])
        /\ \A type : Count(type, conn'[e]["data"]) =
             IF item.type = type THEN Count(type, conn[e]["data"]) + 1 ELSE Count(type, conn[e]["data"])
    BY <1>9, <2>7, WrittenLine
  <2>9. FitElements' /\ FitItems'
    BY <1>2, <1>9, <2>6, <2>8, FitElementsKept, NothingMarked DEF Fit, FitItems
  <2> QED BY <2>2, <2>3, <2>6, <2>8, <2>9 DEF Fit
<1>10. CASE DeliverMessage(e, i)
  <2>1. /\ server[e][i].pc = "pop" /\ queue[e] # << >> /\ queue' = [queue EXCEPT ![e] = Tail(@)]
        /\ UNCHANGED <<hasQueue, marks>>
    BY <1>10 DEF DeliverMessage, At
  <2>2. queue \in [Elements -> Seq(Messages)] /\ queue[e] \in Seq(Messages)
    BY DEF Shape, QueuesOK
  <2>3. /\ Head(queue[e]) \in Messages /\ Len(queue'[e]) = Len(queue[e]) - 1
        /\ \A t \in Elements : t # e => queue'[t] = queue[t]
    BY <2>1, <2>2, Taken
  <2>4. PICK item \in Items : item = [type |-> "MESSAGE", msg |-> Head(queue[e])] /\ item.type = "MESSAGE"
    <3>1. [type |-> "MESSAGE", msg |-> Head(queue[e])] \in Items
      BY <2>3, ItemIs
    <3> QED BY <3>1
  <2>5. WriteReturns(e, item) /\ Become(e, i, "deliver", None)
    BY <1>5, <1>10, <2>1, <2>4 DEF DeliverMessage, WriteThrows
  <2>6. /\ Fit' /\ \A t \in Elements : Notifying(t)' = Notifying(t)
        /\ \A t \in Elements : t # e => conn'[t]["data"] = conn[t]["data"]
        /\ Partials(conn'[e]["data"]) = Partials(conn[e]["data"])
        /\ Count("NOTIFY", conn'[e]["data"]) = Count("NOTIFY", conn[e]["data"])
        /\ Count("MESSAGE", conn'[e]["data"]) = Count("MESSAGE", conn[e]["data"]) + 1
    BY <1>5, <1>9, <2>1, <2>4, <2>5
  <2>7. ASSUME NEW t \in Elements PROVE Owed(t)' = Stored(t)'
    <3>1. Owed(t) = Stored(t) /\ unread'[t] = unread[t]
      BY <1>2 DEF Balanced
    <3>2. CASE t # e
      BY <2>3, <2>6, <3>1, <3>2, BalanceKept
    <3>3. CASE t = e
      <4>1. /\ Len(queue[t]) \in Nat /\ Count("MESSAGE", conn[t]["data"]) \in Nat /\ Partials(conn[t]["data"]) \in Nat
        BY BalanceTypes
      <4>2. Owed(t)' = Owed(t)
        BY <2>6, <3>1, <3>3 DEF Owed
      <4>3. Stored(t)' = (Len(queue[t]) - 1) + (Count("MESSAGE", conn[t]["data"]) + 1) + Partials(conn[t]["data"])
        BY <2>3, <2>6, <3>3 DEF Stored
      <4>4. Stored(t)' = Stored(t)
        BY <4>1, <4>3 DEF Stored
      <4> QED BY <3>1, <4>2, <4>4
    <3> QED BY <3>2, <3>3
  <2> QED BY <2>6, <2>7 DEF Balanced
<1>11. CASE NoMoreMessages(e, i)
  <2>1. server[e][i].pc = "deliver" /\ UNCHANGED <<queues, hasQueue, marks>> /\ queue' = queue
    BY <1>11 DEF NoMoreMessages, At, queues
  <2>2. PICK item \in Items : item = [type |-> "END"] /\ item.type = "END"
    BY ItemIs
  <2>3. WriteReturns(e, item) /\ Become(e, i, "idle", None)
    BY <1>5, <1>11, <2>1, <2>2 DEF NoMoreMessages, WriteThrows, Done
  <2>4. /\ Fit' /\ \A t \in Elements : Notifying(t)' = Notifying(t)
        /\ \A t \in Elements : t # e => conn'[t]["data"] = conn[t]["data"]
        /\ Partials(conn'[e]["data"]) = Partials(conn[e]["data"])
        /\ Count("NOTIFY", conn'[e]["data"]) = Count("NOTIFY", conn[e]["data"])
        /\ Count("MESSAGE", conn'[e]["data"]) = Count("MESSAGE", conn[e]["data"])
    BY <1>5, <1>9, <2>1, <2>2, <2>3
  <2>5. ASSUME NEW t \in Elements PROVE Owed(t)' = Stored(t)'
    <3>1. Owed(t) = Stored(t) /\ unread'[t] = unread[t]
      BY <1>2 DEF Balanced
    <3>2. Owed(t)' = Owed(t) /\ Stored(t)' = Stored(t)
      BY <2>1, <2>4, <3>1 DEF Owed, Stored
    <3> QED BY <3>1, <3>2
  <2> QED BY <2>4, <2>5 DEF Balanced
<1> QED BY <1>7, <1>8, <1>10, <1>11

LEMMA FitThreadStep ==
  ASSUME Shape, Calm, Fit, Balanced, Started = Elements, IsFiniteSet(Elements), Shape',
         NEW e \in Elements, RouterThread(e)
  PROVE  Fit' /\ Balanced'
<1>1. PICK i \in DOMAIN server[e] :
        \/ Login(e, i) \/ LoginQueue(e, i) \/ LoginNotify(e, i) \/ Logout(e, i)
        \/ PersistState(e, i) \/ ClearMessageQueue(e, i)
        \/ NewMessage(e, i) \/ ParkMessage(e, i) \/ PushMessage(e, i) \/ NotifyTarget(e, i)
        \/ RequestUnreadMessages(e, i) \/ MoreMessages(e, i) \/ DeliverMessage(e, i)
        \/ NoMoreMessages(e, i)
  BY DEF RouterThread
<1>2. /\ \A op : Reads(e, i, op) => op \in {"NEW", "REQUEST"}
      /\ ~ At(e, i, "joining") /\ ~ At(e, i, "leaving") /\ ~ At(e, i, "login") /\ ~ At(e, i, "pending")
  BY CalmThreadIs
<1>3. ~ (Login(e, i) \/ LoginQueue(e, i) \/ LoginNotify(e, i) \/ Logout(e, i) \/ PersistState(e, i) \/ ClearMessageQueue(e, i))
  BY <1>2 DEF Login, LoginQueue, LoginNotify, Logout, PersistState, ClearMessageQueue
<1> QED BY <1>1, <1>3, FitStoreStep, FitDeliverStep

\* A step that leaves the threads where they are.
ThreadsRest ==
  \A e \in Elements : /\ sock'[e]["data"] = sock[e]["data"] /\ DOMAIN server'[e] = DOMAIN server[e]
                      /\ \A i \in DOMAIN server[e] : /\ server'[e][i].pc = server[e][i].pc
                                                     /\ server'[e][i].cmd = server[e][i].cmd

LEMMA FitRests ==
  ASSUME ThreadsRest, Fit
  PROVE  FitThreads' /\ \A t \in Elements : Notifying(t)' = Notifying(t)
<1>1. FitThreads'
  BY DEF ThreadsRest, Fit, FitThreads, FitThread
<1>2. ASSUME NEW t \in Elements PROVE Notifying(t)' = Notifying(t)
  BY DEF ThreadsRest, Notifying
<1> QED BY <1>1, <1>2

\* Router::run
LEMMA FitLoopStep ==
  ASSUME Shape, Calm, Fit, Balanced, RouterLoop \/ NotifyRouterAvailable \/ NotifyRecovery
  PROVE  Fit' /\ Balanced'
<1>0. /\ loop \in [phase : {"sleep", "available", "unavailable", "recovered"}, pending : SUBSET Elements]
      /\ loop.phase # "recovered" /\ (loop.phase # "unavailable" => loop.pending = {})
      /\ \A e \in Elements : up[e]
  BY DEF Shape, RouterOK, Calm, CalmRouter, Fit, FitElements
<1>1. ASSUME NEW id \in Elements \cup {Router}, NEW type \in {"AVAILABLE", "UNAVAILABLE"},
             type = "AVAILABLE" <=> id = Router, NotifyElementAvailability(id, type),
             UNCHANGED <<clients, queues, server>>, budget'["crash"] = budget["crash"]
      PROVE  Fit' /\ Balanced'
  <2>1. up' = up /\ hasQueue' = hasQueue /\ queue' = queue /\ UNCHANGED clients
    BY <1>1 DEF clients, queues
  <2>2. MarkedDown /\ \A e \in Elements : conn'[e]["data"] = conn[e]["data"] /\ sock'[e]["data"] = sock[e]["data"]
    BY <1>0, <1>1, <2>1, CalmAvailability
  <2>3. ThreadsRest
    BY <1>1, <2>2 DEF ThreadsRest
  <2>4. FitThreads' /\ \A t \in Elements : Notifying(t)' = Notifying(t)
    BY <2>3, FitRests
  <2> QED BY <1>1, <2>1, <2>2, <2>4, FitStep
<1>2. CASE NotifyRouterAvailable
  <2>1. /\ NotifyElementAvailability(Router, "AVAILABLE") /\ Spend("periodic")
        /\ UNCHANGED <<clients, queues, server>>
    BY <1>2 DEF NotifyRouterAvailable
  <2>2. budget'["crash"] = budget["crash"]
    BY <2>1 DEF Spend, Shape, BoundsOK, Events
  <2> QED BY <1>1, <2>1, <2>2
<1>3. CASE NotifyRecovery
  BY <1>0, <1>3 DEF NotifyRecovery
<1>4. CASE NotifyPending
  <2>1. PICK id \in loop.pending :
          /\ NotifyElementAvailability(id,
               IF loop.phase = "available" THEN "AVAILABLE" ELSE "UNAVAILABLE")
          /\ UNCHANGED <<clients, queues, server, bounds>>
    BY <1>4 DEF NotifyPending
  <2>2. id \in Elements /\ id # Router /\ loop.phase = "unavailable"
    BY <1>0, <2>1, IdsAssumption
  <2>3. NotifyElementAvailability(id, "UNAVAILABLE")
    BY <2>1, <2>2
  <2> QED BY <1>1, <2>1, <2>2, <2>3 DEF bounds
<1>5. CASE TakeAvailable \/ TakeUnavailable \/ Sleep
  <2>1. UNCHANGED <<clients, queues, unavailableIds, network, server, bounds>>
    BY <1>5 DEF TakeAvailable, TakeUnavailable, Sleep, marks
  <2>2. ThreadsRest
    BY <2>1 DEF ThreadsRest, network
  <2>3. FitThreads' /\ \A t \in Elements : Notifying(t)' = Notifying(t)
    BY <2>2, FitRests
  <2>4. FitElements' /\ FitItems'
    BY <2>1 DEF Fit, FitElements, FitItems, clients, queues, network, bounds
  <2>5. \A t \in Elements : /\ Owed(t) = Stored(t) /\ unread'[t] = unread[t] /\ queue'[t] = queue[t]
                            /\ conn'[t]["data"] = conn[t]["data"]
    BY <2>1 DEF Balanced, clients, queues, network
  <2>6. \A t \in Elements : Owed(t)' = Stored(t)'
    BY <2>3, <2>5, BalanceKept
  <2> QED BY <2>3, <2>4, <2>6 DEF Fit, Balanced
<1> QED BY <1>2, <1>3, <1>4, <1>5 DEF RouterLoop

\* The elements write to the router and read the news, which changes no counter.
LEMMA FitElementStep ==
  ASSUME Shape, Calm, Fit, Balanced, NEW e \in Elements,
         (\E to \in Elements \ {e} : sendMessage(e, to)) \/ retrieveMessages(e)
  PROVE  Fit' /\ Balanced'
<1>1. link[e] = "open" /\ unread \in [Elements -> Int] /\ up[e] /\ ServerOK
  BY DEF Calm, CalmElements, sendMessage, retrieveMessages, Shape, ClientsOK
<1>2. /\ up' = up /\ UNCHANGED <<routerVars, network>> /\ queue' = queue
      /\ budget'["crash"] = budget["crash"]
  BY DEF sendMessage, retrieveMessages, bounds, Spend, Shape, BoundsOK, Events, routerVars, queues
<1>3. \E cmd \in Commands : cmd.op \in {"NEW", "REQUEST"} /\ Arrives(e, cmd, link[e])
        /\ Believes(e, unavailableElements[e], unread[e])
  <2>1. CASE retrieveMessages(e)
    <3>1. [op |-> "REQUEST"] \in Commands /\ [op |-> "REQUEST"].op = "REQUEST"
      BY CommandIs
    <3>2. Arrives(e, [op |-> "REQUEST"], link[e]) /\ Believes(e, unavailableElements[e], unread[e])
      BY <1>1, <2>1 DEF retrieveMessages, sendCommandToRouter, Vanishes, WriteFails, ConnectFails
    <3> QED BY <3>1, <3>2
  <2>2. ASSUME NEW to \in Elements \ {e}, sendMessage(e, to)
        PROVE  \E cmd \in Commands : cmd.op \in {"NEW", "REQUEST"} /\ Arrives(e, cmd, link[e])
                  /\ Believes(e, unavailableElements[e], unread[e])
    <3>1. [from |-> e, to |-> to, n |-> sent] \in Messages
      BY <2>2 DEF sendMessage, Spend, Messages, Shape, BoundsOK, Events
    <3>2. PICK cmd \in Commands : cmd = [op |-> "NEW", msg |-> [from |-> e, to |-> to, n |-> sent]] /\ cmd.op = "NEW"
      BY <3>1, CommandIs
    <3>3. Arrives(e, cmd, link[e]) /\ Believes(e, unavailableElements[e], unread[e])
      BY <1>1, <2>2, <3>2 DEF sendMessage, Vanishes, WriteFails, ConnectFails
    <3> QED BY <3>2, <3>3
  <2> QED BY <2>1, <2>2
<1>4. PICK cmd \in Commands : cmd.op \in {"NEW", "REQUEST"} /\ Arrives(e, cmd, link[e])
        /\ Believes(e, unavailableElements[e], unread[e])
  BY <1>3
<1>5. unread' = unread
  BY <1>1, <1>4 DEF Believes
<1>6. CalmThreads'
  BY <1>1, <1>2, <1>4, CalmArrives
<1>7. ArrivesEffect(e, cmd)
  BY <1>1, <1>4, ArrivesIs
<1>8. ThreadsRest
  <2>1. server[e] \in Seq(ThreadStates) /\ server[e] # << >> /\ Len(server'[e]) <= 1 /\ Len(server[e]) <= 1
    BY <1>1, <1>6 DEF ServerOK, CalmThreads, Calm
  <2>2. PICK n \in Nat : n = Len(server[e]) /\ n >= 1 /\ n <= 1 /\ DOMAIN server[e] = 1 .. n
    BY <2>1, Indexed
  <2>3. n = 1 /\ DOMAIN server[e] = {1}
    <3>1. n >= 1 /\ n <= 1
      BY <2>2
    <3>2. n = 1
      BY <3>1
    <3>3. 1 .. 1 = {1}
      OBVIOUS
    <3> QED BY <2>2, <3>2, <3>3
  <2>4. /\ DOMAIN server'[e] = DOMAIN server[e] /\ server'[e][1].pc = server[e][1].pc
        /\ server'[e][1].cmd = server[e][1].cmd /\ \A f \in Elements : f # e => server'[f] = server[f]
    BY <1>7, <2>1, <2>2, <2>3 DEF ArrivesEffect
  <2> QED BY <1>2, <2>3, <2>4 DEF ThreadsRest, network
<1>9. FitThreads' /\ \A t \in Elements : Notifying(t)' = Notifying(t)
  BY <1>8, FitRests
<1>10. FitElements' /\ FitItems'
  BY <1>2 DEF Fit, FitElements, FitItems, routerVars, queues, marks, network
<1>11. \A t \in Elements : /\ Owed(t) = Stored(t) /\ unread'[t] = unread[t] /\ queue'[t] = queue[t]
                           /\ conn'[t]["data"] = conn[t]["data"]
  BY <1>2, <1>5 DEF Balanced, network
<1>12. \A t \in Elements : Owed(t)' = Stored(t)'
  BY <1>9, <1>11, BalanceKept
<1> QED BY <1>9, <1>10, <1>12 DEF Fit, Balanced

LEMMA FitReadControl ==
  ASSUME Shape, Calm, Fit, Balanced, NEW e \in Elements, ReadControl(e)
  PROVE  Fit' /\ Balanced'
<1>1. PICK i \in DOMAIN conn[e]["control"] :
        /\ conn[e]["control"][i].items # << >>
        /\ \/ OtherElement(e, Head(conn[e]["control"][i].items))
           \/ RouterStillThere(e, Head(conn[e]["control"][i].items))
           \/ RouterAvailable(e, Head(conn[e]["control"][i].items))
           \/ RouterRecovered(e, Head(conn[e]["control"][i].items))
        /\ Takes(e, "control", i, None)
  BY DEF ReadControl
<1>2. UNCHANGED <<up, inbox, routerVars, bounds>> /\ up[e] /\ queue' = queue
  BY DEF ReadControl, routerVars, queues
<1>3. "control" \in Kinds /\ "data" \in Kinds /\ None \in Messages \cup {None}
  BY DEF Kinds
<1>4. NetworkOK /\ up' = up /\ routerUp' = routerUp
  BY <1>2 DEF Shape, routerVars
<1>5. TakesEffect(e, "control", i, None)
  BY <1>1, <1>3, <1>4, TakesIs
<1>6. PICK item \in Items : item = Head(conn[e]["control"][i].items) /\ News(item)
  <2>1. /\ Head(conn[e]["control"][i].items) \in Items
        /\ Head(conn[e]["control"][i].items) = conn[e]["control"][i].items[1]
        /\ conn[e]["control"][i].items \in Seq(Items)
    BY <1>1, <1>3, ItemRead
  <2>2. 1 \in DOMAIN conn[e]["control"][i].items
    BY <1>1, <2>1, Indexed
  <2> QED BY <1>3, <2>1, <2>2 DEF Calm, CalmNetwork
<1>7. Router \notin unavailableElements[e]
  BY <1>2 DEF Calm, CalmElements
<1>8. OtherElement(e, item) \/ RouterStillThere(e, item)
  BY <1>1, <1>6, <1>7, IdsAssumption DEF News, OtherElement, RouterStillThere, RouterAvailable, RouterRecovered
<1>9. unread' = unread /\ server' = server
  BY <1>8 DEF OtherElement, RouterStillThere
<1>10. \A t \in Elements : conn'[t]["data"] = conn[t]["data"] /\ sock'[t]["data"] = sock[t]["data"]
  BY <1>3, <1>5 DEF TakesEffect
<1>11. ThreadsRest
  BY <1>9, <1>10 DEF ThreadsRest
<1>12. FitThreads' /\ \A t \in Elements : Notifying(t)' = Notifying(t)
  BY <1>11, FitRests
<1>13. FitElements' /\ FitItems'
  BY <1>2, <1>10 DEF Fit, FitElements, FitItems, routerVars, queues, marks, bounds
<1>14. \A t \in Elements : Owed(t) = Stored(t) /\ unread'[t] = unread[t] /\ queue'[t] = queue[t]
  BY <1>2, <1>9 DEF Balanced
<1>15. \A t \in Elements : Owed(t)' = Stored(t)'
  BY <1>10, <1>12, <1>14, BalanceKept
<1> QED BY <1>12, <1>13, <1>15 DEF Fit, Balanced

\* What comes off one side of a balance comes off the other.
LEMMA Balances ==
  ASSUME NEW u \in Int, NEW n \in Nat, NEW c \in Nat, NEW q \in Nat, NEW m \in Nat, NEW p \in Nat,
         u + n + c = q + m + p
  PROVE  /\ (u + 1) + (n - 1) + c = q + m + p
         /\ (u - p) + n + c = q + (m - 1) + 1
         /\ (u - p) + n + c = q + m + 0
OBVIOUS

\* A notification is read, or a message that was collected.
LEMMA FitReadData ==
  ASSUME Shape, Calm, Fit, Balanced, IsFiniteSet(Elements), None \notin Messages, NEW e \in Elements, ReadData(e)
  PROVE  Fit' /\ Balanced'
<1>1. PICK i \in DOMAIN conn[e]["data"] :
        /\ conn[e]["data"][i].items # << >>
        /\ \/ newMessageInRouter(e, i, Head(conn[e]["data"][i].items))
           \/ StartMessage(e, i, Head(conn[e]["data"][i].items))
           \/ EndOfMessages(e, i, Head(conn[e]["data"][i].items))
  BY DEF ReadData
<1>2. UNCHANGED <<up, routerVars, server, bounds>> /\ queue' = queue
  BY DEF ReadData, routerVars, queues
<1>3. "data" \in Kinds /\ unread \in [Elements -> Int]
  BY DEF Kinds, Shape, ClientsOK
<1>4. PICK item \in Items : item = Head(conn[e]["data"][i].items) /\ conn[e]["data"][i].partial \in Messages \cup {None}
                            /\ item = conn[e]["data"][i].items[1] /\ conn[e]["data"][i].items \in Seq(Items)
  BY <1>1, <1>3, ItemRead
<1>5. PICK cs \in Seq(Connections) : cs = conn[e]["data"] /\ cs # << >> /\ Len(cs) <= 1
  <2>1. conn[e]["data"] \in Seq(Connections) /\ Len(conn[e]["data"]) <= 1
    BY <1>3 DEF Shape, NetworkOK, Calm, CalmNetwork
  <2> QED BY <1>1, <2>1, Indexed
<1>6. i = 1 /\ DOMAIN cs = {1}
  <2>1. PICK n \in Nat : n = Len(cs) /\ n >= 1 /\ n <= 1 /\ DOMAIN cs = 1 .. n
    BY <1>5, Indexed
  <2>2. n = 1
    BY <2>1
  <2> QED BY <1>1, <1>5, <2>1, <2>2
<1>7. cs[1].items # << >> /\ item = Head(cs[1].items) /\ cs[1].partial \in Messages \cup {None}
      /\ item = cs[1].items[1] /\ cs[1].items \in Seq(Items)
  BY <1>1, <1>4, <1>5, <1>6
<1>8. NetworkOK /\ up' = up /\ routerUp' = routerUp
  BY <1>2 DEF Shape, routerVars
\* What every item has in common.
<1>9. ASSUME NEW p \in Messages \cup {None}, Takes(e, "data", i, p)
      PROVE  /\ Fit' /\ \A t \in Elements : Notifying(t)' = Notifying(t)
             /\ \A t \in Elements : t # e => conn'[t]["data"] = conn[t]["data"]
             /\ \A type : Count(type, conn'[e]["data"]) = IF item.type = type THEN Count(type, cs) - 1 ELSE Count(type, cs)
             /\ Partials(conn'[e]["data"]) = IF p = None THEN 0 ELSE 1
  <2>1. TakesEffect(e, "data", i, p)
    BY <1>1, <1>3, <1>8, <1>9, TakesIs
  <2>2. PICK cs2 \in Seq(Connections) : cs2 = conn'[e]["data"]
    BY <1>3, <2>1 DEF TakesEffect, NetworkOK
  <2>3. /\ DOMAIN cs2 = {1} /\ cs2[1] = [items |-> Tail(cs[1].items), partial |-> p]
        /\ \A t \in Elements : t # e => conn'[t]["data"] = conn[t]["data"]
        /\ sock' = sock
    BY <1>3, <1>5, <1>6, <2>1, <2>2 DEF TakesEffect
  <2>4. cs2 # << >> /\ cs2[1].items = Tail(cs[1].items) /\ cs2[1].partial = p
    <3>1. 1 \in DOMAIN cs2
      BY <2>3
    <3>2. cs2 # << >>
      BY <3>1, Indexed
    <3> QED BY <2>3, <3>2
  <2>5. ThreadsRest
    BY <1>2, <2>3 DEF ThreadsRest
  <2>6. FitThreads' /\ \A t \in Elements : Notifying(t)' = Notifying(t)
    BY <2>5, FitRests
  <2>7. FitElements'
    BY <1>2 DEF Fit, FitElements, routerVars, queues, marks, bounds
  <2>8. FitLine(cs2)
    <3>1. FitLine(cs)
      BY <1>5 DEF Fit, FitItems
    <3> SUFFICES ASSUME NEW j \in DOMAIN Tail(cs[1].items)
                 PROVE  Tail(cs[1].items)[j].type = "NOTIFY" => Tail(cs[1].items)[j].n = 1
      BY <2>3, <2>4 DEF FitLine
    <3>2. j + 1 \in DOMAIN cs[1].items /\ cs[1].items[j + 1] = Tail(cs[1].items)[j]
      BY <1>7, TakenAt
    <3> QED BY <1>6, <3>1, <3>2 DEF FitLine
  <2>9. FitItems'
    BY <2>2, <2>3, <2>8 DEF Fit, FitItems
  <2>10. \A type : Count(type, cs2) = IF item.type = type THEN Count(type, cs) - 1 ELSE Count(type, cs)
    BY <1>5, <1>7, <2>4, CountTaken
  <2> QED BY <2>2, <2>3, <2>4, <2>6, <2>7, <2>9, <2>10 DEF Fit, Partials
<1>10. ASSUME NEW t \in Elements PROVE Owed(t) = Stored(t) /\ queue'[t] = queue[t]
  BY <1>2 DEF Balanced
<1>11. /\ unread[e] \in Int /\ Len(queue[e]) \in Nat /\ Count("NOTIFY", cs) \in Nat
       /\ Count("MESSAGE", cs) \in Nat /\ Partials(cs) \in Nat /\ Cardinality(Notifying(e)) \in Nat
  BY <1>5, BalanceTypes
<1>12. /\ Stored(e) = Len(queue[e]) + Count("MESSAGE", cs) + Partials(cs)
       /\ unread[e] + Count("NOTIFY", cs) + Cardinality(Notifying(e)) =
            Len(queue[e]) + Count("MESSAGE", cs) + Partials(cs)
  BY <1>5, <1>10 DEF Owed, Stored
<1>13. PICK u \in Int : u = unread[e]
  BY <1>11
<1>14. PICK nn \in Nat : nn = Count("NOTIFY", cs)
  BY <1>11
<1>15. PICK cc \in Nat : cc = Cardinality(Notifying(e))
  BY <1>11
<1>16. PICK q \in Nat : q = Len(queue[e])
  BY <1>11
<1>17. PICK m \in Nat : m = Count("MESSAGE", cs)
  BY <1>11
<1>18. PICK pp \in Nat : pp = Partials(cs)
  BY <1>11
<1>19. u + nn + cc = q + m + pp
  BY <1>12, <1>13, <1>14, <1>15, <1>16, <1>17, <1>18
<1>20. /\ (u + 1) + (nn - 1) + cc = q + m + pp
       /\ (u - pp) + nn + cc = q + (m - 1) + 1
       /\ (u - pp) + nn + cc = q + m + 0
  BY <1>19, Balances
\* The balance of the element that reads, from what its numbers become.
<1>21. ASSUME Fit', \A t \in Elements : Notifying(t)' = Notifying(t),
              \A t \in Elements : t # e => conn'[t]["data"] = conn[t]["data"] /\ unread'[t] = unread[t],
              Owed(e)' = Stored(e)'
       PROVE  Fit' /\ Balanced'
  <2>1. ASSUME NEW t \in Elements, t # e PROVE Owed(t)' = Stored(t)'
    BY <1>10, <1>21, <2>1, BalanceKept
  <2> QED BY <1>21, <2>1 DEF Balanced
<1>22. ASSUME newMessageRead(e, cs[1].partial)
       PROVE  unread'[e] = unread[e] - Partials(cs) /\ \A t \in Elements : t # e => unread'[t] = unread[t]
  BY <1>3, <1>5, <1>22 DEF newMessageRead, Partials
<1>23. CASE newMessageInRouter(e, i, item)
  <2>1. item.type = "NOTIFY" /\ unread' = [unread EXCEPT ![e] = @ + item.n] /\ Takes(e, "data", i, cs[1].partial)
    BY <1>5, <1>6, <1>23 DEF newMessageInRouter
  <2>2. item.n = 1
    <3>1. FitLine(cs) /\ 1 \in DOMAIN cs /\ 1 \in DOMAIN cs[1].items
      BY <1>5, <1>6, <1>7, Indexed DEF Fit, FitItems
    <3> QED BY <1>7, <2>1, <3>1 DEF FitLine
  <2>3. unread'[e] = unread[e] + 1 /\ \A t \in Elements : t # e => unread'[t] = unread[t]
    BY <1>3, <2>1, <2>2
  <2>4. /\ Fit' /\ \A t \in Elements : Notifying(t)' = Notifying(t)
        /\ \A t \in Elements : t # e => conn'[t]["data"] = conn[t]["data"]
        /\ Count("NOTIFY", conn'[e]["data"]) = Count("NOTIFY", cs) - 1
        /\ Count("MESSAGE", conn'[e]["data"]) = Count("MESSAGE", cs)
        /\ Partials(conn'[e]["data"]) = Partials(cs)
    BY <1>5, <1>7, <1>9, <2>1 DEF Partials
  <2>5. Owed(e)' = (unread[e] + 1) + (Count("NOTIFY", cs) - 1) + Cardinality(Notifying(e))
    BY <2>3, <2>4 DEF Owed
  <2>6. Stored(e)' = Len(queue[e]) + Count("MESSAGE", cs) + Partials(cs)
    BY <1>10, <2>4 DEF Stored
  <2>7. (unread[e] + 1) + (Count("NOTIFY", cs) - 1) + Cardinality(Notifying(e)) =
          Len(queue[e]) + Count("MESSAGE", cs) + Partials(cs)
    BY <1>13, <1>14, <1>15, <1>16, <1>17, <1>18, <1>20
  <2>8. Owed(e)' = Stored(e)'
    BY <2>5, <2>6, <2>7
  <2> QED BY <1>21, <2>3, <2>4, <2>8
<1>24. CASE StartMessage(e, i, item)
  <2>1. item.type = "MESSAGE" /\ newMessageRead(e, cs[1].partial) /\ Takes(e, "data", i, item.msg) /\ item.msg \in Messages
    BY <1>4, <1>5, <1>6, <1>24, ItemIs DEF StartMessage
  <2>2. /\ Fit' /\ \A t \in Elements : Notifying(t)' = Notifying(t)
        /\ \A t \in Elements : t # e => conn'[t]["data"] = conn[t]["data"]
        /\ Count("NOTIFY", conn'[e]["data"]) = Count("NOTIFY", cs)
        /\ Count("MESSAGE", conn'[e]["data"]) = Count("MESSAGE", cs) - 1
        /\ Partials(conn'[e]["data"]) = 1
    BY <1>9, <2>1
  <2>3. Owed(e)' = (unread[e] - Partials(cs)) + Count("NOTIFY", cs) + Cardinality(Notifying(e))
    BY <1>22, <2>1, <2>2 DEF Owed
  <2>4. Stored(e)' = Len(queue[e]) + (Count("MESSAGE", cs) - 1) + 1
    BY <1>10, <2>2 DEF Stored
  <2>5. Owed(e)' = Stored(e)'
    <3>1. (unread[e] - Partials(cs)) + Count("NOTIFY", cs) + Cardinality(Notifying(e)) =
            Len(queue[e]) + (Count("MESSAGE", cs) - 1) + 1
      BY <1>13, <1>14, <1>15, <1>16, <1>17, <1>18, <1>20
    <3> QED BY <2>3, <2>4, <3>1
  <2> QED BY <1>21, <1>22, <2>1, <2>2, <2>5
<1>25. CASE EndOfMessages(e, i, item)
  <2>1. item.type = "END" /\ newMessageRead(e, cs[1].partial) /\ Takes(e, "data", i, None)
    BY <1>4, <1>5, <1>6, <1>25 DEF EndOfMessages
  <2>2. /\ Fit' /\ \A t \in Elements : Notifying(t)' = Notifying(t)
        /\ \A t \in Elements : t # e => conn'[t]["data"] = conn[t]["data"]
        /\ Count("NOTIFY", conn'[e]["data"]) = Count("NOTIFY", cs)
        /\ Count("MESSAGE", conn'[e]["data"]) = Count("MESSAGE", cs)
        /\ Partials(conn'[e]["data"]) = 0
    BY <1>9, <2>1
  <2>3. Owed(e)' = (unread[e] - Partials(cs)) + Count("NOTIFY", cs) + Cardinality(Notifying(e))
    BY <1>22, <2>1, <2>2 DEF Owed
  <2>4. Stored(e)' = Len(queue[e]) + Count("MESSAGE", cs) + 0
    BY <1>10, <2>2 DEF Stored
  <2>5. Owed(e)' = Stored(e)'
    <3>1. (unread[e] - Partials(cs)) + Count("NOTIFY", cs) + Cardinality(Notifying(e)) =
            Len(queue[e]) + Count("MESSAGE", cs) + 0
      BY <1>13, <1>14, <1>15, <1>16, <1>17, <1>18, <1>20
    <3> QED BY <2>3, <2>4, <3>1
  <2> QED BY <1>21, <1>22, <2>1, <2>2, <2>5
<1> QED BY <1>1, <1>4, <1>23, <1>24, <1>25

LEMMA FitNextStep ==
  ASSUME Shape, Shape', Calm, Fit, Balanced, Faultless, [Next]_vars
  PROVE  Fit' /\ Balanced'
<1>0. /\ Started = Elements /\ IsFiniteSet(Elements) /\ None \notin Messages
      /\ \A k \in Faults : ~ Spend(k) /\ routerUp
      /\ Faults = {"start", "logout", "clear", "routercrash"} /\ ~ Spend("crash")
  BY DEF Faultless, Calm, CalmTable, CalmRouter, Spend, Faults, Fit, FitElements
<1>1. CASE UNCHANGED vars
  <2>1. ThreadsRest
    BY <1>1 DEF vars, network, ThreadsRest
  <2>2. FitThreads' /\ \A t \in Elements : Notifying(t)' = Notifying(t)
    BY <2>1, FitRests
  <2>3. FitElements' /\ FitItems'
    BY <1>1 DEF vars, clients, queues, marks, network, bounds, Fit, FitElements, FitItems
  <2>4. \A t \in Elements : /\ Owed(t) = Stored(t) /\ unread'[t] = unread[t] /\ queue'[t] = queue[t]
                            /\ conn'[t]["data"] = conn[t]["data"]
    BY <1>1 DEF vars, clients, queues, network, Balanced
  <2>5. \A t \in Elements : Owed(t)' = Stored(t)'
    BY <2>2, <2>4, BalanceKept
  <2> QED BY <2>2, <2>3, <2>5 DEF Fit, Balanced
<1>2. ASSUME NEW e \in Elements
      PROVE  ~ Start(e) /\ ~ Crash(e) /\ ~ logoutFromRouter(e) /\ ~ ClearQueue(e) /\ ~ PopNull(e)
  <2>1. ~ PopNull(e)
    BY CalmThreadIs DEF PopNull
  <2>2. ~ Start(e) /\ ~ Crash(e) /\ ~ logoutFromRouter(e) /\ ~ ClearQueue(e)
    BY <1>0 DEF Start, Crash, logoutFromRouter, ClearQueue
  <2> QED BY <2>1, <2>2
<1>3. ~ RouterCrash /\ ~ RouterStart
  BY <1>0 DEF RouterCrash, RouterStart
<1>4. CASE Environment
  BY <1>2, <1>3, <1>4, FitElementStep, FitLoopStep DEF Environment
<1>5. CASE \E e \in Elements :
             RouterThread(e) \/ PopNull(e) \/ retrieveMessages(e) \/ ReadData(e) \/ ReadControl(e)
  BY <1>0, <1>2, <1>5, FitThreadStep, FitElementStep, FitReadData, FitReadControl
<1>6. CASE RouterLoop \/ NotifyRecovery
  BY <1>6, FitLoopStep
<1> QED BY <1>1, <1>3, <1>4, <1>5, <1>6 DEF Next

LEMMA FitInit ==
  ASSUME Faultless, Init
  PROVE  Fit /\ Balanced
<1>1. /\ FitElements
      /\ \A e \in Elements : /\ server[e] = <<Serving(<< >>)>> /\ conn[e]["data"] = << >>
                             /\ queue[e] = << >> /\ unread[e] = 0
  BY DEF Faultless, Init, FitElements, Kinds
<1>2. \A e \in Elements : DOMAIN server[e] = {1} /\ server[e][1].pc = "idle"
  BY <1>1 DEF Serving
<1>3. FitThreads
  BY <1>2 DEF FitThreads, FitThread
<1>4. FitItems
  <2>1. DOMAIN << >> = {}
    OBVIOUS
  <2> QED BY <1>1, <2>1 DEF FitItems, FitLine
<1>5. ASSUME NEW e \in Elements PROVE Owed(e) = Stored(e)
  <2>1. Notifying(e) = {}
    BY <1>2 DEF Notifying
  <2>2. Cardinality(Notifying(e)) = 0 /\ Len(queue[e]) = 0
    BY <1>1, <2>1, FS_EmptySet
  <2>3. \A type : Count(type, conn[e]["data"]) = 0 /\ Partials(conn[e]["data"]) = 0
    BY <1>1 DEF Count, Partials
  <2>4. Owed(e) = 0 + 0 + 0 /\ Stored(e) = 0 + 0 + 0
    BY <1>1, <2>2, <2>3 DEF Owed, Stored
  <2> QED BY <2>4
<1> QED BY <1>1, <1>3, <1>4, <1>5 DEF Fit, Balanced

\* Two sets without a common element.
LEMMA DisjointCount ==
  ASSUME NEW S, IsFiniteSet(S), NEW T, IsFiniteSet(T), S \cap T = {}
  PROVE  IsFiniteSet(S \cup T) /\ Cardinality(S \cup T) = Cardinality(S) + Cardinality(T)
<1>1. Cardinality(S) \in Nat /\ Cardinality(T) \in Nat /\ Cardinality(S \cap T) = 0
  BY FS_CardinalityType, FS_EmptySet
<1>2. IsFiniteSet(S \cup T) /\ Cardinality(S \cup T) = Cardinality(S) + Cardinality(T) - Cardinality(S \cap T)
  BY FS_Union
<1> QED BY <1>1, <1>2

\* The places of the messages that wait for an element, one by one ...
LEMMA WaitingIs ==
  ASSUME Shape, Calm, NEW e \in Elements
  PROVE  Cardinality(Waiting(e)) = Stored(e)
<1>1. PICK cs \in Seq(Connections) : cs = conn[e]["data"] /\ Len(cs) <= 1
  BY DEF Shape, NetworkOK, Calm, CalmNetwork, Kinds
<1>2. cs # << >> => DOMAIN cs = {1} /\ cs[1].items \in Seq(Items)
  <2> SUFFICES ASSUME cs # << >> PROVE DOMAIN cs = {1} /\ cs[1].items \in Seq(Items)
    OBVIOUS
  <2>1. PICK n \in Nat : n = Len(cs) /\ n >= 1 /\ n <= 1 /\ DOMAIN cs = 1 .. n
    BY <1>1, Indexed
  <2>2. n = 1
    <3>1. n >= 1 /\ n <= 1
      BY <2>1
    <3> QED BY <3>1
  <2>3. DOMAIN cs = {1}
    BY <2>1, <2>2
  <2>4. cs[1] \in Connections
    BY <2>3, Indexed
  <2> QED BY <2>3, <2>4 DEF Connections
<1>3. IsFiniteSet(QueuedFor(e)) /\ Cardinality(QueuedFor(e)) = Len(queue[e]) /\ Len(queue[e]) \in Nat
  <2>1. queue[e] \in Seq(Messages)
    BY DEF Shape, QueuesOK
  <2>2. PICK n \in Nat : n = Len(queue[e]) /\ DOMAIN queue[e] = 1 .. n
    BY <2>1, LenProperties
  <2> DEFINE S == 1 .. n
             f == [j \in S |-> <<"queued", e, 0, j>>]
  <2>3. IsFiniteSet(S) /\ Cardinality(S) = n
    <3>1. IsFiniteSet(S) /\ Cardinality(S) = IF 1 > n THEN 0 ELSE n - 1 + 1
      BY FS_Interval
    <3> QED BY <3>1
  <2> HIDE DEF S
  <2>4. QueuedFor(e) = {<<"queued", e, 0, j>> : j \in S}
    BY <2>2 DEF QueuedFor, S
  <2>5. f \in [S -> QueuedFor(e)] /\ (\A x, y \in S : f[x] = f[y] => x = y)
        /\ \A t \in QueuedFor(e) : \E x \in S : f[x] = t
    BY <2>4
  <2> HIDE DEF f
  <2>6. IsFiniteSet(QueuedFor(e)) /\ Cardinality(QueuedFor(e)) = Cardinality(S)
    BY <2>3, <2>5, SameCount
  <2> QED BY <2>2, <2>3, <2>6
<1>4. IsFiniteSet(GoingTo(e)) /\ Cardinality(GoingTo(e)) = Count("MESSAGE", cs)
  <2>1. CASE cs = << >>
    <3>1. DOMAIN << >> = {}
      OBVIOUS
    <3>2. GoingTo(e) = {}
      BY <1>1, <2>1, <3>1 DEF GoingTo
    <3> QED BY <2>1, <3>2, FS_EmptySet DEF Count
  <2>2. CASE cs # << >>
    <3> DEFINE S == Indices("MESSAGE", cs[1].items)
               f == [j \in S |-> <<"going", e, 1, j>>]
    <3>1. GoingTo(e) = {<<"going", e, 1, j>> : j \in S}
      BY <1>1, <1>2, <2>2 DEF GoingTo, Indices
    <3>2. IsFiniteSet(S)
      BY <1>2, <2>2, IndicesType
    <3> HIDE DEF S
    <3>3. f \in [S -> GoingTo(e)] /\ (\A x, y \in S : f[x] = f[y] => x = y)
          /\ \A t \in GoingTo(e) : \E x \in S : f[x] = t
      BY <3>1
    <3> HIDE DEF f
    <3>4. IsFiniteSet(GoingTo(e)) /\ Cardinality(GoingTo(e)) = Cardinality(S)
      BY <3>2, <3>3, SameCount
    <3> QED BY <2>2, <3>4 DEF Count, S
  <2> QED BY <2>1, <2>2
<1>5. IsFiniteSet(CollectedBy(e)) /\ Cardinality(CollectedBy(e)) = Partials(cs)
  <2>1. CASE cs = << >>
    <3>1. DOMAIN << >> = {}
      OBVIOUS
    <3>2. CollectedBy(e) = {}
      BY <1>1, <2>1, <3>1 DEF CollectedBy
    <3> QED BY <2>1, <3>2, FS_EmptySet DEF Partials
  <2>2. CASE cs # << >> /\ cs[1].partial = None
    <3>1. CollectedBy(e) = {}
      BY <1>1, <1>2, <2>2 DEF CollectedBy
    <3> QED BY <2>2, <3>1, FS_EmptySet DEF Partials
  <2>3. CASE cs # << >> /\ cs[1].partial # None
    <3>1. CollectedBy(e) = {<<"partial", e, 1, 0>>}
      BY <1>1, <1>2, <2>3 DEF CollectedBy
    <3> QED BY <2>3, <3>1, FS_Singleton DEF Partials
  <2> QED BY <2>1, <2>2, <2>3
<1>6. QueuedFor(e) \cap GoingTo(e) = {} /\ (QueuedFor(e) \cup GoingTo(e)) \cap CollectedBy(e) = {}
  <2>1. \A p \in QueuedFor(e) : p[1] = "queued"
    BY DEF QueuedFor
  <2>2. \A p \in GoingTo(e) : p[1] = "going"
    BY DEF GoingTo
  <2>3. \A p \in CollectedBy(e) : p[1] = "partial"
    BY DEF CollectedBy
  <2> QED BY <2>1, <2>2, <2>3
<1>7. /\ IsFiniteSet(QueuedFor(e) \cup GoingTo(e))
      /\ Cardinality(QueuedFor(e) \cup GoingTo(e)) = Len(queue[e]) + Count("MESSAGE", cs)
  BY <1>3, <1>4, <1>6, DisjointCount
<1>8. Cardinality(Waiting(e)) = Len(queue[e]) + Count("MESSAGE", cs) + Partials(cs)
  BY <1>5, <1>6, <1>7, DisjointCount DEF Waiting
<1> QED BY <1>1, <1>8 DEF Stored

\* ... and the notifications.
LEMMA AnnouncedIs ==
  ASSUME Shape, Calm, Fit, IsFiniteSet(Elements), NEW e \in Elements
  PROVE  unread[e] + Cardinality(Announced(e)) = Owed(e)
<1>1. PICK cs \in Seq(Connections) : cs = conn[e]["data"] /\ Len(cs) <= 1 /\ FitLine(cs)
  BY DEF Shape, NetworkOK, Calm, CalmNetwork, Kinds, Fit, FitItems
<1>2. cs # << >> => DOMAIN cs = {1} /\ cs[1].items \in Seq(Items)
  <2> SUFFICES ASSUME cs # << >> PROVE DOMAIN cs = {1} /\ cs[1].items \in Seq(Items)
    OBVIOUS
  <2>1. PICK n \in Nat : n = Len(cs) /\ n >= 1 /\ n <= 1 /\ DOMAIN cs = 1 .. n
    BY <1>1, Indexed
  <2>2. n = 1
    <3>1. n >= 1 /\ n <= 1
      BY <2>1
    <3> QED BY <3>1
  <2>3. DOMAIN cs = {1}
    BY <2>1, <2>2
  <2>4. cs[1] \in Connections
    BY <2>3, Indexed
  <2> QED BY <2>3, <2>4 DEF Connections
<1>3. Announced(e) = NotYetRead(e) \cup NotYetWritten(e)
  BY DEF Announced
<1>4. IsFiniteSet(NotYetRead(e)) /\ Cardinality(NotYetRead(e)) = Count("NOTIFY", cs)
  <2>1. CASE cs = << >>
    <3>1. DOMAIN << >> = {}
      OBVIOUS
    <3>2. NotYetRead(e) = {}
      BY <1>1, <2>1, <3>1 DEF NotYetRead
    <3> QED BY <2>1, <3>2, FS_EmptySet DEF Count
  <2>2. CASE cs # << >>
    <3> DEFINE S == Indices("NOTIFY", cs[1].items)
               g == [j \in S |-> <<"item", 1, j, 1>>]
    <3>1. \A j \in S : cs[1].items[j].n = 1
      BY <1>1, <1>2, <2>2 DEF FitLine, Indices
    <3>2. 1 .. 1 = {1}
      OBVIOUS
    <3>3. NotYetRead(e) = UNION {{<<"item", 1, j, x>> : x \in 1 .. cs[1].items[j].n} : j \in S}
      BY <1>1, <1>2, <2>2 DEF Indices, NotYetRead
    <3>4. IsFiniteSet(S)
      BY <1>2, <2>2, IndicesType
    <3> HIDE DEF S
    <3>5. NotYetRead(e) = {<<"item", 1, j, 1>> : j \in S}
      BY <3>1, <3>2, <3>3
    <3>6. g \in [S -> NotYetRead(e)] /\ (\A x, y \in S : g[x] = g[y] => x = y) /\ \A t \in NotYetRead(e) : \E x \in S : g[x] = t
      BY <3>5
    <3> HIDE DEF g
    <3>7. IsFiniteSet(NotYetRead(e)) /\ Cardinality(NotYetRead(e)) = Cardinality(S)
      BY <3>4, <3>6, SameCount
    <3> QED BY <2>2, <3>7 DEF Count, S
  <2> QED BY <2>1, <2>2
<1>5. IsFiniteSet(NotYetWritten(e)) /\ Cardinality(NotYetWritten(e)) = Cardinality(Notifying(e))
  <2> DEFINE g == [f \in Notifying(e) |-> <<"thread", f, 1, 0>>]
  <2>1. \A f \in Elements : \A i \in DOMAIN server[f] : i = 1
    <3> SUFFICES ASSUME NEW f \in Elements, NEW i \in DOMAIN server[f] PROVE i = 1
      OBVIOUS
    <3>1. server[f] \in Seq(ThreadStates) /\ Len(server[f]) <= 1
      BY DEF Shape, ServerOK, Calm, CalmThreads
    <3>2. i \in Nat /\ i >= 1 /\ i <= Len(server[f]) /\ Len(server[f]) \in Nat
      BY <3>1, Indexed
    <3> QED BY <3>1, <3>2
  <2>2. NotYetWritten(e) = {<<"thread", f, 1, 0>> : f \in Notifying(e)}
    <3>1. ASSUME NEW t \in NotYetWritten(e) PROVE \E f \in Notifying(e) : t = <<"thread", f, 1, 0>>
      <4>1. PICK f \in Elements : \E i \in DOMAIN server[f] :
              server[f][i].pc = "notify" /\ server[f][i].cmd.msg.to = e /\ t = <<"thread", f, i, 0>>
        BY DEF NotYetWritten
      <4>2. t = <<"thread", f, 1, 0>> /\ f \in Notifying(e)
        BY <2>1, <4>1 DEF Notifying
      <4> QED BY <4>2
    <3>2. ASSUME NEW f \in Notifying(e) PROVE <<"thread", f, 1, 0>> \in NotYetWritten(e)
      <4>1. f \in Elements /\ \E i \in DOMAIN server[f] :
              server[f][i].pc = "notify" /\ server[f][i].cmd.msg.to = e
        BY DEF Notifying
      <4>2. 1 \in DOMAIN server[f] /\ server[f][1].pc = "notify" /\ server[f][1].cmd.msg.to = e
        BY <2>1, <4>1
      <4> QED BY <4>1, <4>2 DEF NotYetWritten
    <3> QED BY <3>1, <3>2
  <2>3. g \in [Notifying(e) -> NotYetWritten(e)] /\ (\A x, y \in Notifying(e) : g[x] = g[y] => x = y)
        /\ \A t \in NotYetWritten(e) : \E x \in Notifying(e) : g[x] = t
    BY <2>2
  <2> HIDE DEF g
  <2>4. IsFiniteSet(Notifying(e))
    BY BalanceTypes
  <2> QED BY <2>3, <2>4, SameCount
<1>6. NotYetRead(e) \cap NotYetWritten(e) = {}
  <2>1. \A p \in NotYetRead(e) : p[1] = "item"
    BY DEF NotYetRead
  <2>2. \A p \in NotYetWritten(e) : p[1] = "thread"
    BY DEF NotYetWritten
  <2> QED BY <2>1, <2>2
<1>7. Cardinality(Announced(e)) = Count("NOTIFY", cs) + Cardinality(Notifying(e))
  BY <1>3, <1>4, <1>5, <1>6, DisjointCount
<1>8. unread[e] \in Int /\ Count("NOTIFY", cs) \in Nat /\ Cardinality(Notifying(e)) \in Nat
  BY <1>1, BalanceTypes
<1> QED BY <1>1, <1>7, <1>8 DEF Owed

\* When all have logged in and nothing fails, for any number of elements and of
\* messages: the counter of an element, with the notifications it has not read
\* yet, is the number of messages that wait for it, although messages are read
\* while others arrive and may overtake their notification
\* (NetworkElement::newMessageInRouter, NetworkElement::newMessageRead).
THEOREM CountersStayExact == ASSUME Faultless PROVE MessagingSpec => []CountersAreExact
<1>1. Init => Fit /\ Balanced
  BY FitInit
<1>2. Shape /\ Shape' /\ Calm /\ Fit /\ Balanced /\ [Next]_vars => Fit' /\ Balanced'
  BY FitNextStep
<1>3. Shape /\ Calm /\ Fit /\ Balanced => CountersAreExact
  <2> SUFFICES ASSUME Shape, Calm, Fit, Balanced, NEW e \in Elements
               PROVE  unread[e] + Cardinality(Announced(e)) = Cardinality(Waiting(e))
    BY DEF CountersAreExact
  <2>1. IsFiniteSet(Elements) /\ Owed(e) = Stored(e)
    BY DEF Faultless, Balanced
  <2> QED BY <2>1, WaitingIs, AnnouncedIs
<1>4. MessagingSpec => []Calm
  BY AlwaysCalm DEF Faultless
<1> QED BY <1>1, <1>2, <1>3, <1>4, AlwaysShape, PTL DEF MessagingSpec
=============================================================================
