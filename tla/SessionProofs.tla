---------------------------- MODULE SessionProofs ----------------------------
(***************************************************************************)
(* For any queries, any number of loads, calls and breaks, and any limit   *)
(* of reconnects: one socket at a time, what is loaded is served, and no   *)
(* callback is left behind.                                                *)
(***************************************************************************)
EXTENDS Session, FiniteSetTheorems, SequenceTheorems, TLAPS

Kind == {"SUBSCRIBE", "UNSUBSCRIBE"}
Msg == [type : Kind, query : Query, id : Nat]
Handler == [id : Nat, socket : Socket, query : Query, stage : {"procedure", "reading"}]
Callback == [id : Nat, socket : Socket, query : Query]

\* The state has its type, and only finitely many queries are loaded.
Types ==
  /\ TypeOK
  /\ up \in [Socket -> Seq(Msg)]
  /\ handlers \subseteq Handler /\ callbacks \subseteq Callback
  /\ messages \in Nat
  /\ refused \in [Socket -> SUBSET Query]
  /\ IsFiniteSet({q \in Query : counter[q] > 0})

-----------------------------------------------------------------------------
(* Messages on their way.                                                  *)

\* The last message of query q in u has the given type.
Ends(u, q, type) ==
  \E i \in DOMAIN u :
    /\ u[i].type = type /\ u[i].query = q
    /\ \A j \in DOMAIN u : j > i /\ u[j].query = q => u[j].type = type
Never(u, q, type) == \A i \in DOMAIN u : u[i].query = q => u[i].type # type
Asks(u, q, n) ==
  \E i \in DOMAIN u : u[i].type = "SUBSCRIBE" /\ u[i].query = q /\ u[i].id = n

LEMMA JoinElements ==
  ASSUME NEW u \in Seq(Msg), NEW m \in Seq(Msg)
  PROVE  /\ u \o m \in Seq(Msg)
         /\ DOMAIN u = 1..Len(u) /\ DOMAIN m = 1..Len(m)
         /\ Len(u) \in Nat /\ Len(m) \in Nat
         /\ DOMAIN (u \o m) = 1..Len(u) + Len(m)
         /\ \A i \in 1..Len(u) : (u \o m)[i] = u[i]
         /\ \A i \in 1..Len(m) : (u \o m)[Len(u) + i] = m[i]
         /\ \A i \in 1..Len(u) + Len(m) :
              \/ i \in 1..Len(u)
              \/ i - Len(u) \in 1..Len(m) /\ (u \o m)[i] = m[i - Len(u)]
<1>1. /\ u \o m \in Seq(Msg) /\ Len(u \o m) = Len(u) + Len(m)
      /\ \A i \in 1..Len(u) + Len(m) : (u \o m)[i] = IF i <= Len(u) THEN u[i] ELSE m[i - Len(u)]
  BY ConcatProperties
<1>2. Len(u) \in Nat /\ Len(m) \in Nat
  OBVIOUS
<1>3. QED
  BY <1>1, <1>2

\* Messages of one type end what they are about, and leave the rest as it was.
LEMMA JoinEnds ==
  ASSUME NEW u \in Seq(Msg), NEW m \in Seq(Msg), NEW type \in Kind,
         \A i \in 1..Len(m) : m[i].type = type, NEW q \in Query
  PROVE  /\ (\E i \in 1..Len(m) : m[i].query = q) => Ends(u \o m, q, type)
         /\ Ends(u, q, type) => Ends(u \o m, q, type)
         /\ \A k \in Kind : (\A i \in 1..Len(m) : m[i].query # q) =>
              /\ Ends(u, q, k) => Ends(u \o m, q, k)
              /\ Never(u, q, k) => Never(u \o m, q, k)
         /\ \A k \in Kind \ {type} : Never(u, q, k) => Never(u \o m, q, k)
<1>1. ASSUME NEW i \in 1..Len(m), m[i].query = q PROVE Ends(u \o m, q, type)
  <2>1. Len(u) + i \in DOMAIN (u \o m) /\ (u \o m)[Len(u) + i] = m[i]
    BY JoinElements
  <2>2. ASSUME NEW j \in DOMAIN (u \o m), j > Len(u) + i PROVE (u \o m)[j].type = type
    BY <2>2, JoinElements
  <2>3. QED
    BY <1>1, <2>1, <2>2 DEF Ends
<1>2. ASSUME Ends(u, q, type) PROVE Ends(u \o m, q, type)
  <2>1. PICK i \in DOMAIN u :
          /\ u[i].type = type /\ u[i].query = q
          /\ \A j \in DOMAIN u : j > i /\ u[j].query = q => u[j].type = type
    BY <1>2 DEF Ends
  <2>2. i \in DOMAIN (u \o m) /\ (u \o m)[i] = u[i]
    BY JoinElements
  <2>3. ASSUME NEW j \in DOMAIN (u \o m), j > i, (u \o m)[j].query = q
        PROVE  (u \o m)[j].type = type
    BY <2>1, <2>3, JoinElements
  <2>4. QED
    BY <2>1, <2>2, <2>3 DEF Ends
<1>3. ASSUME NEW k \in Kind, \A i \in 1..Len(m) : m[i].query # q
      PROVE  /\ Ends(u, q, k) => Ends(u \o m, q, k)
             /\ Never(u, q, k) => Never(u \o m, q, k)
  <2>1. ASSUME NEW i \in DOMAIN u,
               u[i].type = k /\ u[i].query = q
               /\ \A j \in DOMAIN u : j > i /\ u[j].query = q => u[j].type = k
        PROVE  Ends(u \o m, q, k)
    <3>1. i \in DOMAIN (u \o m) /\ (u \o m)[i] = u[i]
      BY JoinElements
    <3>2. ASSUME NEW j \in DOMAIN (u \o m), j > i, (u \o m)[j].query = q
          PROVE  (u \o m)[j].type = k
      BY <1>3, <2>1, <3>2, JoinElements
    <3>3. QED
      BY <2>1, <3>1, <3>2 DEF Ends
  <2>2. Ends(u, q, k) => Ends(u \o m, q, k)
    BY <2>1 DEF Ends
  <2>3. Never(u, q, k) => Never(u \o m, q, k)
    BY <1>3, JoinElements DEF Never
  <2>4. QED
    BY <2>2, <2>3
<1>4. ASSUME NEW k \in Kind \ {type}, Never(u, q, k) PROVE Never(u \o m, q, k)
  BY <1>4, JoinElements DEF Never
<1>5. QED
  BY <1>1, <1>2, <1>3, <1>4

\* Taking the head off: what ends the rest, or the head, ended the whole.
LEMMA TailElements ==
  ASSUME NEW u \in Seq(Msg), u # <<>>
  PROVE  /\ Tail(u) \in Seq(Msg) /\ Len(u) \in Nat /\ 1 \in DOMAIN u
         /\ DOMAIN u = 1..Len(u) /\ DOMAIN Tail(u) = 1..Len(u) - 1
         /\ \A i \in 1..Len(u) - 1 : i + 1 \in DOMAIN u /\ Tail(u)[i] = u[i + 1]
         /\ \A i \in DOMAIN u : i = 1 \/ (i - 1 \in 1..Len(u) - 1 /\ Tail(u)[i - 1] = u[i])
         /\ Head(u) = u[1] /\ Head(u) \in Msg
OBVIOUS

LEMMA TailEnds ==
  ASSUME NEW u \in Seq(Msg), u # <<>>, NEW q \in Query, NEW k \in Kind
  PROVE  /\ Never(u, q, k) => Never(Tail(u), q, k)
         /\ Ends(u, q, k) =>
              \/ Ends(Tail(u), q, k)
              \/ /\ Head(u).type = k /\ Head(u).query = q
                 /\ \A l \in Kind \ {k} : Never(Tail(u), q, l)
<1>1. Never(u, q, k) => Never(Tail(u), q, k)
  BY TailElements DEF Never
<1>2. ASSUME NEW i \in DOMAIN u, u[i].type = k, u[i].query = q,
             \A j \in DOMAIN u : j > i /\ u[j].query = q => u[j].type = k
      PROVE  \/ Ends(Tail(u), q, k)
             \/ /\ Head(u).type = k /\ Head(u).query = q
                /\ \A l \in Kind \ {k} : Never(Tail(u), q, l)
  <2>1. CASE i = 1
    <3>1. ASSUME NEW j \in DOMAIN Tail(u), Tail(u)[j].query = q PROVE Tail(u)[j].type = k
      <4>1. j + 1 \in DOMAIN u /\ Tail(u)[j] = u[j + 1] /\ j + 1 > 1
        BY TailElements
      <4>2. QED
        BY <1>2, <2>1, <3>1, <4>1
    <3>2. QED
      BY <1>2, <2>1, <3>1, TailElements DEF Never
  <2>2. CASE i # 1
    <3>1. i - 1 \in DOMAIN Tail(u) /\ Tail(u)[i - 1] = u[i]
      BY <2>2, TailElements
    <3>2. ASSUME NEW j \in DOMAIN Tail(u), j > i - 1, Tail(u)[j].query = q
          PROVE  Tail(u)[j].type = k
      <4>1. j + 1 \in DOMAIN u /\ Tail(u)[j] = u[j + 1] /\ j + 1 > i
        BY <3>2, TailElements
      <4>2. QED
        BY <1>2, <3>2, <4>1
    <3>3. QED
      BY <1>2, <3>1, <3>2 DEF Ends
  <2>3. QED
    BY <2>1, <2>2
<1>3. QED
  BY <1>1, <1>2 DEF Ends

\* What is sent to each query that is loaded.
LEMMA ResubscribedElements ==
  ASSUME IsFiniteSet({q \in Query : counter[q] > 0})
  PROVE  /\ Resubscribed \in Seq({q \in Query : counter[q] > 0})
         /\ \A q \in Query : counter[q] > 0 => \E i \in 1..Len(Resubscribed) : Resubscribed[i] = q
<1> DEFINE S == {q \in Query : counter[q] > 0}
           n == Cardinality(S)
<1>1. n \in Nat /\ ExistsBijection(1..n, S)
  BY FS_CardinalityType
<1>2. \E f \in [1..n -> S] : IsInjective(f)
  BY <1>1 DEF ExistsBijection, Bijection, Injection, IsInjective
<1>3. Resubscribed = CHOOSE f \in [1..n -> S] : IsInjective(f)
  BY DEF Resubscribed, SetToSeq
<1>4. Resubscribed \in [1..n -> S] /\ IsInjective(Resubscribed)
  BY <1>2, <1>3
<1>5. Resubscribed \in Injection(1..n, S)
  BY <1>4 DEF Injection
<1>6. IsFiniteSet(1..n) /\ Cardinality(1..n) = n
  BY <1>1, FS_Interval
<1>7. Resubscribed \in Surjection(1..n, S)
  BY <1>5, <1>6, FS_Injection
<1>8. \A q \in S : \E i \in 1..n : Resubscribed[i] = q
  BY <1>7 DEF Surjection
<1> HIDE DEF S, n
<1>9. Resubscribed \in Seq(S) /\ Len(Resubscribed) = n
  BY <1>1, <1>4
<1>10. QED
  BY <1>8, <1>9 DEF S

-----------------------------------------------------------------------------
(* The state has its type.                                                 *)

LEMMA SentMessages ==
  ASSUME Types, NEW msgs \in Seq(Msg)
  PROVE  /\ Sent(msgs) \in [Socket -> Seq(Msg)]
         /\ \A s \in Socket :
              Sent(msgs)[s] = IF s = ws /\ Connected /\ link[ws] = "up" THEN up[s] \o msgs ELSE up[s]
<1>1. up \in [Socket -> Seq(Msg)] /\ ws \in Socket \cup {None}
  BY DEF Types, TypeOK
<1>2. ws \in Socket => up[ws] \o msgs \in Seq(Msg)
  BY <1>1, JoinElements
<1>3. Connected => ws \in Socket
  BY <1>1 DEF Connected
<1>4. QED
  BY <1>1, <1>2, <1>3 DEF Sent

LEMMA OneMessage ==
  ASSUME NEW m \in Msg
  PROVE  /\ <<m>> \in Seq(Msg) /\ Len(<<m>>) = 1 /\ 1 \in 1..Len(<<m>>)
         /\ \A i \in 1..Len(<<m>>) : <<m>>[i] = m
OBVIOUS

LEMMA QueueTypes ==
  ASSUME NEW u \in [Socket -> Seq(Msg)]
  PROVE  \A s \in Socket : \A i \in DOMAIN u[s] : u[s][i] \in Msg
OBVIOUS

LEMMA InitTypes == Init => Types
<1> SUFFICES ASSUME Init PROVE Types
  OBVIOUS
<1>1. {q \in Query : counter[q] > 0} = {}
  BY DEF Init
<1>2. IsFiniteSet({})
  BY FS_EmptySet
<1>3. up \in [Socket -> Seq(Msg)] /\ \A s \in Socket : DOMAIN up[s] = {}
  BY DEF Init
<1>4. TypeOK
  BY <1>3 DEF Init, TypeOK, None, SocketState
<1>5. refused \in [Socket -> SUBSET Query]
  BY DEF Init
<1>6. QED
  BY <1>1, <1>2, <1>3, <1>4, <1>5 DEF Types, Init

LEMMA StartTypes ==
  ASSUME intentionally \in BOOLEAN, awaiting \in Nat, StartConnect
  PROVE  intentionally' \in BOOLEAN /\ awaiting' \in Nat
<1>1. CASE UNCHANGED <<intentionally, awaiting, raced>>
  BY <1>1
<1>2. CASE intentionally' = FALSE /\ awaiting' = awaiting + 1
  <2>1. awaiting' \in Nat
    BY <1>2
  <2>2. intentionally' \in BOOLEAN
    BY <1>2, Zenon
  <2>3. QED
    BY <2>1, <2>2
<1>3. QED
  BY <1>1, <1>2 DEF StartConnect

\* The timers, and whether reconnectTimer names one of them.
Timed == timers \in Nat /\ held \in BOOLEAN /\ (held => timers > 0)

LEMMA TimedSteps ==
  ASSUME Timed, Schedule \/ Cleared \/ TimerFires \/ UNCHANGED <<timers, held>>
  PROVE  Timed'
<1>1. CASE UNCHANGED <<timers, held>>
  BY <1>1 DEF Timed
<1>2. CASE timers' = timers + 1 /\ held' = TRUE
  <2>1. timers' \in Nat /\ timers' > 0
    BY <1>2 DEF Timed
  <2>2. held' \in BOOLEAN
    BY <1>2, Zenon
  <2>3. QED
    BY <2>1, <2>2 DEF Timed
<1>3. CASE Cleared
  <2>1. held' \in BOOLEAN /\ ~held'
    BY <1>3, Zenon DEF Cleared
  <2>2. CASE held
    BY <1>3, <2>1, <2>2 DEF Cleared, Timed
  <2>3. CASE ~held
    BY <1>3, <2>1, <2>3 DEF Cleared, Timed
  <2>4. QED
    BY <2>2, <2>3
<1>4. CASE TimerFires
  <2>1. timers \in Nat /\ timers > 0 /\ timers' = timers - 1
    BY <1>4 DEF TimerFires, Timed
  <2>2. held' \in BOOLEAN /\ (held' => timers > 1)
    BY <1>4, Zenon DEF TimerFires
  <2>3. QED
    BY <2>1, <2>2 DEF Timed
<1>5. QED
  BY <1>1, <1>2, <1>3, <1>4 DEF Schedule

\* The steps of the wrapper that leave the messages and the server alone.
LEMMA QuietTypes ==
  ASSUME Types,
         \/ Connect \/ Disconnect \/ TimerFires \/ NewSocket \/ NoCredentials
         \/ \E s \in Socket : CloseEvent(s) \/ Refused(s) \/ Unexpected(s) \/ Lost(s)
  PROVE  Types' /\ UNCHANGED <<counter, up, conn, handlers, callbacks, subscriptions, messages,
                               refused, crossed>>
<1>a. /\ UNCHANGED <<counter, up, conn, handlers, callbacks, subscriptions, messages,
                     refused, crossed>>
  BY DEF Connect, Disconnect, TimerFires, NewSocket, NoCredentials, CloseEvent, Refused, Closed,
         Unexpected, Lost, counts, server, wires, wrapper
<1>b. /\ ws \in Socket \cup {None} /\ sock \in [Socket -> SocketState]
      /\ intentionally \in BOOLEAN /\ awaiting \in Nat /\ attempts \in Nat /\ Timed
      /\ link \in [Socket -> {"none", "up", "down"}]
  BY DEF Types, TypeOK, Timed
<1> DEFINE Local ==
      /\ ws \in Socket \cup {None} /\ sock \in [Socket -> SocketState]
      /\ intentionally \in BOOLEAN /\ awaiting \in Nat /\ attempts \in Nat /\ Timed
      /\ link \in [Socket -> {"none", "up", "down"}]
<1>1. ASSUME Connect PROVE Local'
  BY <1>b, <1>1, StartTypes, TimedSteps DEF Connect, wires
<1>2. ASSUME Disconnect PROVE Local'
  <2>1. Timed'
    BY <1>b, <1>2, TimedSteps DEF Disconnect
  <2>2. intentionally' \in BOOLEAN
    BY <1>2, Zenon DEF Disconnect
  <2>3. QED
    BY <1>b, <1>2, <2>1, <2>2 DEF Disconnect, SocketState
<1>3. ASSUME TimerFires PROVE Local'
  <2>1. Timed'
    BY <1>b, <1>3, TimedSteps
  <2>2. QED
    BY <1>b, <1>3, <2>1, StartTypes DEF TimerFires, wires
<1>4. ASSUME NewSocket PROVE Local'
  BY <1>b, <1>4, TimedSteps DEF NewSocket, wires, SocketState
<1>5. ASSUME NoCredentials PROVE Local'
  BY <1>b, <1>5, TimedSteps DEF NoCredentials, wires
<1>6. ASSUME NEW s \in Socket, CloseEvent(s) \/ Refused(s) PROVE Local'
  <2>1. Schedule
    BY <1>6 DEF CloseEvent, Refused, Closed
  <2>2. Timed'
    BY <1>b, <2>1, TimedSteps
  <2>3. attempts' \in Nat
    BY <1>b, <2>1 DEF Schedule
  <2>4. QED
    BY <1>b, <1>6, <2>2, <2>3 DEF CloseEvent, Refused, Closed, wires, SocketState
<1>7. ASSUME NEW s \in Socket, Unexpected(s) PROVE Local'
  <2>1. Schedule
    BY <1>7 DEF Unexpected
  <2>2. Timed'
    BY <1>b, <2>1, TimedSteps
  <2>3. attempts' \in Nat
    BY <1>b, <2>1 DEF Schedule
  <2>4. QED
    BY <1>b, <1>7, <2>2, <2>3 DEF Unexpected, wires, SocketState
<1>8. ASSUME NEW s \in Socket, Lost(s) PROVE Local'
  BY <1>b, <1>8, TimedSteps DEF Lost, wrapper
<1>9. Local'
  BY <1>1, <1>2, <1>3, <1>4, <1>5, <1>6, <1>7, <1>8
<1>10. QED
  BY <1>a, <1>9 DEF Types, TypeOK, Timed

\* A socket opens.
Asked(q, n) == Message("SUBSCRIBE", q, n)
Asking == [i \in DOMAIN Resubscribed |-> Asked(Resubscribed[i], messages + i)]
LEMMA AskingMessages ==
  ASSUME Types
  PROVE  /\ Asking \in Seq(Msg) /\ Len(Asking) = Len(Resubscribed) /\ Len(Asking) \in Nat
         /\ \A i \in 1..Len(Asking) : /\ Asking[i].type = "SUBSCRIBE"
                                      /\ Asking[i].id = messages + i
                                      /\ counter[Asking[i].query] > 0
         /\ \A q \in Query : counter[q] > 0 => \E i \in 1..Len(Asking) : Asking[i].query = q
<1> DEFINE n == Len(Resubscribed)
<1>1. /\ Resubscribed \in Seq({q \in Query : counter[q] > 0})
      /\ \A q \in Query : counter[q] > 0 => \E i \in 1..Len(Resubscribed) : Resubscribed[i] = q
      /\ messages \in Nat
  BY ResubscribedElements DEF Types
<1>2. /\ n \in Nat /\ DOMAIN Resubscribed = 1..n
      /\ \A i \in 1..n : Resubscribed[i] \in Query /\ counter[Resubscribed[i]] > 0
  BY <1>1
<1>3. \A i \in 1..n : Asked(Resubscribed[i], messages + i) \in Msg
  BY <1>1, <1>2 DEF Asked, Message, Msg, Kind
<1>4. Asking = [i \in 1..n |-> Asked(Resubscribed[i], messages + i)]
  BY <1>2 DEF Asking
<1> HIDE DEF n
<1>5. Asking \in [1..n -> Msg]
  BY <1>3, <1>4
<1>6. Asking \in Seq(Msg) /\ Len(Asking) = n
  BY <1>2, <1>5
<1>7. \A i \in 1..n : Asking[i] = Asked(Resubscribed[i], messages + i)
  BY <1>4
<1>8. ASSUME NEW i \in 1..n
      PROVE  /\ Asking[i].type = "SUBSCRIBE" /\ Asking[i].id = messages + i
             /\ Asking[i].query = Resubscribed[i]
  <2>1. Asking[i] = [type |-> "SUBSCRIBE", query |-> Resubscribed[i], id |-> messages + i]
    BY <1>7 DEF Asked, Message
  <2>2. QED
    BY <2>1
<1>9. n = Len(Resubscribed)
  BY DEF n
<1>10. QED
  BY <1>1, <1>2, <1>6, <1>8, <1>9

OpenUp(s) ==
  up' = IF ws = None \/ sock'[ws] # "open" \/ link'[ws] # "up" THEN up
        ELSE [up EXCEPT ![ws] = @ \o Asking]
LEMMA OpenTypes ==
  ASSUME Types, NEW s \in Socket, Open(s)
  PROVE  Types' /\ messages' = messages + Len(Asking)
         /\ \A t \in Socket :
              up'[t] = IF t = ws /\ Connected' /\ link'[ws] = "up" THEN up[t] \o Asking ELSE up[t]
<1>1. /\ messages' = messages + Len(Resubscribed)
      /\ OpenUp(s)
  BY DEF Open, OpenUp, Asking, Asked
<1>2. /\ ws \in Socket \cup {None} /\ up \in [Socket -> Seq(Msg)] /\ messages \in Nat /\ ws' = ws
      /\ Asking \in Seq(Msg) /\ Len(Asking) = Len(Resubscribed) /\ Len(Asking) \in Nat
  BY AskingMessages DEF Types, TypeOK, Open
<1>3. ws \in Socket => up[ws] \o Asking \in Seq(Msg)
  BY <1>2, JoinElements
<1>4. up' \in [Socket -> Seq(Msg)]
  BY <1>1, <1>2, <1>3 DEF OpenUp, None
<1>5. messages' \in Nat /\ messages' = messages + Len(Asking)
  BY <1>1, <1>2
<1>6. \A t \in Socket :
              up'[t] = IF t = ws /\ Connected' /\ link'[ws] = "up" THEN up[t] \o Asking ELSE up[t]
  BY <1>1, <1>2 DEF OpenUp, Connected, None, Socket
<1>7. /\ ws' \in Socket \cup {None} /\ sock' \in [Socket -> SocketState]
      /\ link' \in [Socket -> {"none", "up", "down"}]
      /\ conn' \in [Socket -> {"none", "open", "closed"}] /\ attempts' \in Nat
      /\ UNCHANGED <<intentionally, awaiting, timers, held, counter, handlers, callbacks,
                     subscriptions, refused>>
  BY DEF Types, TypeOK, Open, SocketState
<1>8. TypeOK'
  BY <1>4, <1>7, QueueTypes DEF Types, TypeOK, Msg, Kind
<1>9. QED
  BY <1>4, <1>5, <1>6, <1>7, <1>8 DEF Types

\* A page loads or leaves a query.
LEMMA LoadTypes ==
  ASSUME Types, NEW q \in Query, Load(q)
  PROVE  Types'
<1> DEFINE m == Message("SUBSCRIBE", q, messages + 1)
           L == {r \in Query : counter[r] > 0}
<1>1. m \in Msg /\ messages + 1 \in Nat
  BY DEF Types, Message, Msg, Kind
<1>2. <<m>> \in Seq(Msg)
  BY <1>1, OneMessage
<1>3. up' \in [Socket -> Seq(Msg)]
  BY <1>2, SentMessages DEF Load
<1>4. counter' \in [Query -> Nat]
  BY DEF Load, Types, TypeOK
<1>5. IsFiniteSet({r \in Query : counter'[r] > 0})
  <2>1. {r \in Query : counter'[r] > 0} = L \cup {q}
    BY DEF Load, Types, TypeOK
  <2>2. IsFiniteSet(L \cup {q})
    BY FS_AddElement DEF Types
  <2>3. QED
    BY <2>1, <2>2
<1>6. UNCHANGED <<wrapper, link, server, refused>> /\ messages' = messages + 1
  BY DEF Load
<1>7. TypeOK'
  BY <1>3, <1>4, <1>6, QueueTypes DEF Types, TypeOK, Msg, Kind, wrapper, server
<1>8. QED
  BY <1>1, <1>3, <1>5, <1>6, <1>7 DEF Types, server

LEMMA UnloadTypes ==
  ASSUME Types, NEW q \in Query, Unload(q)
  PROVE  Types'
<1> DEFINE m == Message("UNSUBSCRIBE", q, None)
           L == {r \in Query : counter[r] > 0}
<1>1. m \in Msg
  BY DEF Message, Msg, Kind, None
<1>2. <<m>> \in Seq(Msg)
  BY <1>1, OneMessage
<1>3. up' \in [Socket -> Seq(Msg)]
  BY <1>2, SentMessages DEF Unload, Types
<1>4. counter' \in [Query -> Nat]
  BY DEF Unload, Types, TypeOK
<1>5. IsFiniteSet({r \in Query : counter'[r] > 0})
  <2>1. {r \in Query : counter'[r] > 0} \subseteq L
    BY DEF Unload, Types, TypeOK
  <2>2. QED
    BY <2>1, FS_Subset DEF Types
<1>6. UNCHANGED <<wrapper, link, server, refused, messages>>
  BY DEF Unload
<1>7. TypeOK'
  BY <1>3, <1>4, <1>6, QueueTypes DEF Types, TypeOK, Msg, Kind, wrapper, server
<1>8. QED
  BY <1>3, <1>5, <1>6, <1>7 DEF Types, server

\* The steps of the server.
ServerStep ==
  \/ \E s \in Socket : Subscribe(s) \/ Unsubscribe(s) \/ ServerClose(s)
  \/ \E h \in handlers : Procedure(h) \/ ReadBack(h)

LEMMA DropTypes ==
  ASSUME Types, NEW s \in Socket, up[s] # <<>>, Drop(s)
  PROVE  /\ up' \in [Socket -> Seq(Msg)]
         /\ up'[s] = Tail(up[s]) /\ \A t \in Socket \ {s} : up'[t] = up[t]
         /\ Head(up[s]) \in Msg
<1>1. up[s] \in Seq(Msg)
  BY DEF Types
<1>2. QED
  BY <1>1, TailElements DEF Types, Drop

LEMMA RejectedTypes ==
  ASSUME Types, NEW h \in handlers, Rejected(h)
  PROVE  /\ handlers' = handlers \ {h} /\ UNCHANGED subscriptions
         /\ refused' \in [Socket -> SUBSET Query]
         /\ h.query \in refused'[h.socket]
         /\ \A s \in Socket : refused[s] \subseteq refused'[s]
<1>1. h.socket \in Socket /\ h.query \in Query /\ refused \in [Socket -> SUBSET Query]
  BY DEF Types, Handler
<1>2. refused[h.socket] \cup {h.query} \in SUBSET Query
  BY <1>1
<1>3. refused' = [refused EXCEPT ![h.socket] = refused[h.socket] \cup {h.query}]
  BY DEF Rejected
<1>4. refused' \in [Socket -> SUBSET Query]
  BY <1>1, <1>2, <1>3
<1>5. \A s \in Socket : refused'[s] = IF s = h.socket THEN refused[s] \cup {h.query} ELSE refused[s]
  BY <1>1, <1>3
<1>6. QED
  BY <1>1, <1>4, <1>5 DEF Rejected

LEMMA KeptTypes ==
  ASSUME subscriptions \in [Socket -> [Query -> Nat]],
         NEW s \in Socket, NEW q \in Query, NEW n \in Nat,
         subscriptions' = [subscriptions EXCEPT ![s][q] = n]
  PROVE  /\ subscriptions' \in [Socket -> [Query -> Nat]]
         /\ \A t \in Socket, r \in Query :
              subscriptions'[t][r] = IF t = s /\ r = q THEN n ELSE subscriptions[t][r]
<1>1. [subscriptions[s] EXCEPT ![q] = n] \in [Query -> Nat]
  OBVIOUS
<1>2. subscriptions' = [subscriptions EXCEPT ![s] = [subscriptions[s] EXCEPT ![q] = n]]
  OBVIOUS
<1>3. QED
  BY <1>1, <1>2

LEMMA ServerTypes ==
  ASSUME Types, ServerStep
  PROVE  Types' /\ UNCHANGED <<ws, sock, intentionally, awaiting, timers, held, attempts, counter, link,
                               messages, raced>>
<1>a. UNCHANGED <<ws, sock, intentionally, awaiting, timers, held, attempts, counter, link, messages,
                  raced>>
  BY DEF ServerStep, Subscribe, Unsubscribe, ServerClose, Procedure, ReadBack, wrapper, wires
<1> DEFINE Local ==
      /\ up \in [Socket -> Seq(Msg)]
      /\ conn \in [Socket -> {"none", "open", "closed"}]
      /\ handlers \subseteq Handler /\ callbacks \subseteq Callback
      /\ subscriptions \in [Socket -> [Query -> Nat]]
      /\ refused \in [Socket -> SUBSET Query]
<1>b. Local
  BY DEF Types, TypeOK
<1>1. ASSUME NEW s \in Socket, Subscribe(s) PROVE Local'
  <2>1. up' \in [Socket -> Seq(Msg)] /\ Head(up[s]) \in Msg
    BY <1>1, DropTypes DEF Subscribe
  <2>2. [id |-> Head(up[s]).id, socket |-> s, query |-> Head(up[s]).query, stage |-> "procedure"]
          \in Handler
    BY <2>1 DEF Msg, Handler
  <2>3. QED
    BY <1>1, <1>b, <2>1, <2>2 DEF Subscribe
<1>2. ASSUME NEW s \in Socket, Unsubscribe(s) PROVE Local'
  <2>1. up' \in [Socket -> Seq(Msg)] /\ Head(up[s]).query \in Query
    BY <1>2, DropTypes DEF Unsubscribe, Msg
  <2>2. QED
    BY <1>2, <1>b, <2>1 DEF Unsubscribe, None
<1>3. ASSUME NEW s \in Socket, ServerClose(s) PROVE Local'
  BY <1>3, <1>b DEF ServerClose
<1>4. ASSUME NEW h \in handlers, Procedure(h) PROVE Local'
  <2>0. UNCHANGED <<up, conn>>
    BY <1>4 DEF Procedure, wires
  <2>1. /\ h \in Handler /\ [h EXCEPT !.stage = "reading"] \in Handler
        /\ [id |-> h.id, socket |-> h.socket, query |-> h.query] \in Callback
    BY <1>b DEF Handler, Callback
  <2>2. CASE Rejected(h) /\ UNCHANGED callbacks
    BY <2>0, <2>2, <1>b, RejectedTypes
  <2>3. CASE ~(Rejected(h) /\ UNCHANGED callbacks)
    BY <1>4, <1>b, <2>0, <2>1, <2>3 DEF Procedure
  <2>4. QED
    BY <2>2, <2>3
<1>5. ASSUME NEW h \in handlers, ReadBack(h) PROVE Local'
  <2>0. UNCHANGED <<up, conn, callbacks>>
    BY <1>5 DEF ReadBack, wires
  <2>1. h.id \in Nat /\ h.socket \in Socket /\ h.query \in Query
    BY <1>b DEF Handler
  <2>2. CASE Rejected(h)
    BY <2>0, <2>2, <1>b, RejectedTypes
  <2>3. CASE ~Rejected(h)
    BY <1>5, <1>b, <2>0, <2>1, <2>3, KeptTypes DEF ReadBack
  <2>4. QED
    BY <2>2, <2>3
<1>6. Local'
  BY <1>1, <1>2, <1>3, <1>4, <1>5 DEF ServerStep
<1>7. TypeOK'
  BY <1>a, <1>6, QueueTypes DEF Types, TypeOK, Msg, Kind, Handler, Callback
<1>8. QED
  BY <1>a, <1>6, <1>7 DEF Types

Quiet ==
  \/ Connect \/ Disconnect \/ TimerFires \/ NewSocket \/ NoCredentials
  \/ \E s \in Socket : CloseEvent(s) \/ Refused(s) \/ Unexpected(s) \/ Lost(s)

LEMMA Steps ==
  ASSUME [Next]_vars
  PROVE  \/ Quiet \/ ServerStep \/ UNCHANGED vars
         \/ \E s \in Socket : Open(s)
         \/ \E q \in Query : Load(q) \/ Unload(q)
BY DEF Next, Quiet, ServerStep

LEMMA NextTypes ==
  ASSUME Types, [Next]_vars
  PROVE  Types'
<1>1. CASE Quiet
  BY <1>1, QuietTypes DEF Quiet
<1>2. CASE ServerStep
  BY <1>2, ServerTypes
<1>3. CASE UNCHANGED vars
  BY <1>3 DEF vars, Types, TypeOK, wrapper, wires, server, counts
<1>4. QED
  BY <1>1, <1>2, <1>3, Steps, OpenTypes, LoadTypes, UnloadTypes

-----------------------------------------------------------------------------
(* One socket.                                                             *)

\* One call of connect awaits at a time, and while it does no socket is live.
Alone ==
  ~raced =>
    /\ awaiting \in {0, 1}
    /\ \A s \in Socket : Live(s) => s = ws /\ ~intentionally
    /\ awaiting = 1 => ~intentionally /\ \A s \in Socket : ~Live(s)

LEMMA StartAlone ==
  ASSUME Types, Alone, StartConnect, UNCHANGED <<ws, sock>>
  PROVE  Alone'
<1>1. CASE ws # None /\ Live(ws)
  BY <1>1 DEF StartConnect, Alone, Live
<1>2. CASE ~(ws # None /\ Live(ws))
  <2>1. intentionally' = FALSE /\ awaiting' = awaiting + 1 /\ raced' = (raced \/ awaiting > 0)
    BY <1>2 DEF StartConnect
  <2>2. ASSUME ~raced' PROVE ~raced /\ awaiting = 0 /\ awaiting' = 1 /\ ~intentionally'
    <3>1. ~raced /\ ~(awaiting > 0) /\ ~intentionally'
      BY <2>1, <2>2, Zenon
    <3>2. QED
      BY <2>1, <3>1 DEF Types, TypeOK
  <2>3. ASSUME ~raced', NEW s \in Socket, Live(s) PROVE FALSE
    <3>1. s = ws
      BY <2>2, <2>3 DEF Alone
    <3>2. QED
      BY <1>2, <2>3, <3>1 DEF Socket, None
  <2>4. \A s \in Socket : Live(s)' <=> Live(s)
    BY DEF Live
  <2>5. QED
    BY <2>2, <2>3, <2>4 DEF Alone
<1>3. QED
  BY <1>1, <1>2

LEMMA NextAlone ==
  ASSUME Types, Alone, [Next]_vars
  PROVE  Alone'
<1>a. /\ ws \in Socket \cup {None} /\ sock \in [Socket -> SocketState] /\ awaiting \in Nat
      /\ \A s \in Socket : s # None
  BY DEF Types, TypeOK, Socket, None
<1>1. CASE Connect
  BY <1>1, StartAlone DEF Connect
<1>2. CASE TimerFires
  BY <1>2, StartAlone DEF TimerFires
<1>3. CASE Disconnect
  <2>1. raced' = (raced \/ awaiting > 0) /\ UNCHANGED awaiting
    BY <1>3 DEF Disconnect
  <2>2. ~raced' => ~raced /\ ~(awaiting > 0)
    BY <2>1, Zenon
  <2>3. ~raced => \A s \in Socket : ~Live(s)'
    BY <1>3, <1>a DEF Disconnect, Alone, Live
  <2>4. ~(awaiting > 0) => awaiting = 0
    BY <1>a
  <2>5. QED
    BY <2>1, <2>2, <2>3, <2>4 DEF Alone
<1>4. CASE NewSocket
  BY <1>4, <1>a DEF NewSocket, Alone, Live
<1>5. CASE NoCredentials
  BY <1>5, <1>a DEF NoCredentials, Alone, Live
<1>6. ASSUME NEW s \in Socket, CloseEvent(s) \/ Refused(s) PROVE Alone'
  BY <1>6, <1>a DEF CloseEvent, Refused, Closed, Alone, Live
<1>7. ASSUME NEW s \in Socket, Unexpected(s) PROVE Alone'
  BY <1>7, <1>a DEF Unexpected, Alone, Live
<1>8. ASSUME NEW s \in Socket, Lost(s) PROVE Alone'
  BY <1>8, <1>a DEF Lost, wrapper, Alone, Live
<1>9. ASSUME NEW s \in Socket, Open(s) PROVE Alone'
  BY <1>9, <1>a DEF Open, Alone, Live
<1>10. ASSUME NEW q \in Query, Load(q) \/ Unload(q) PROVE Alone'
  BY <1>10, <1>a DEF Load, Unload, wrapper, Alone, Live
<1>11. CASE ServerStep
  BY <1>11, ServerTypes DEF Alone, Live
<1>12. CASE UNCHANGED vars
  BY <1>12 DEF vars, wrapper, Alone, Live
<1>13. QED
  BY <1>1, <1>2, <1>3, <1>4, <1>5, <1>6, <1>7, <1>8, <1>9, <1>10, <1>11, <1>12, Steps DEF Quiet

\* After a disconnect that left no timer nothing is under way: connect and the
\* timers are what else sets intentionallyDisconnected back.
Dismissed ==
  ~raced /\ lastCall = "disconnect" => intentionally /\ awaiting = 0 /\ timers = 0

LEMMA NextDismissed ==
  ASSUME Types, Alone, Dismissed, [Next]_vars
  PROVE  Dismissed'
<1>a. awaiting \in Nat /\ Timed
  BY DEF Types, TypeOK, Timed
<1>1. CASE Connect
  BY <1>1 DEF Connect, Dismissed
<1>2. CASE TimerFires
  <2>1. timers > 0 /\ lastCall' = lastCall /\ (raced => raced')
    BY <1>2 DEF TimerFires, StartConnect, counts
  <2>2. ~raced' => ~raced
    BY <2>1, Zenon
  <2>3. timers # 0
    BY <1>a, <2>1 DEF Timed
  <2>4. QED
    BY <2>1, <2>2, <2>3 DEF Dismissed
<1>3. CASE Disconnect
  <2>1. /\ raced' = (raced \/ awaiting > 0) /\ awaiting' = awaiting /\ intentionally' = TRUE
        /\ Cleared /\ lastCall' = IF timers = 0 \/ (timers = 1 /\ held) THEN "disconnect" ELSE "half"
    BY <1>3 DEF Disconnect
  <2>2. ~raced' => ~(awaiting > 0)
    BY <2>1, Zenon
  <2>3. ~raced' => awaiting' = 0
    BY <1>a, <2>1, <2>2
  <2>4. lastCall' = "disconnect" => timers' = 0
    <3>1. CASE timers = 0
      BY <1>a, <2>1, <3>1 DEF Cleared, Timed
    <3>2. CASE timers = 1 /\ held
      BY <2>1, <3>2 DEF Cleared
    <3>3. CASE ~(timers = 0 \/ (timers = 1 /\ held))
      BY <2>1, <3>3
    <3>4. QED
      BY <3>1, <3>2, <3>3
  <2>5. intentionally'
    BY <2>1, Zenon
  <2>6. QED
    BY <2>3, <2>4, <2>5 DEF Dismissed
<1>4. CASE NewSocket \/ NoCredentials
  <2>1. awaiting > 0 /\ UNCHANGED <<intentionally, timers, lastCall, raced>>
    BY <1>4 DEF NewSocket, NoCredentials, counts
  <2>2. awaiting # 0
    BY <1>a, <2>1
  <2>3. QED
    BY <2>1, <2>2 DEF Dismissed
<1>5. ASSUME NEW s \in Socket, CloseEvent(s) \/ Refused(s) \/ Unexpected(s) PROVE Dismissed'
  <2>1. Schedule /\ UNCHANGED <<intentionally, awaiting, lastCall, raced>>
    BY <1>5 DEF CloseEvent, Refused, Unexpected, Closed
  <2>2. intentionally => UNCHANGED timers
    BY <2>1 DEF Schedule
  <2>3. QED
    BY <2>1, <2>2 DEF Dismissed
<1>6. CASE \/ ServerStep \/ UNCHANGED vars \/ \E s \in Socket : Open(s) \/ Lost(s)
           \/ \E q \in Query : Load(q) \/ Unload(q)
  <2>1. UNCHANGED <<intentionally, awaiting, timers, lastCall, raced>>
    BY <1>6 DEF ServerStep, Subscribe, Unsubscribe, ServerClose, Procedure, ReadBack, Open, Lost,
                Load, Unload, vars, wrapper, counts
  <2>2. QED
    BY <2>1 DEF Dismissed
<1>7. QED
  BY <1>1, <1>2, <1>3, <1>4, <1>5, <1>6, Steps DEF Quiet

-----------------------------------------------------------------------------
(* Sockets that have not opened.                                           *)

\* A socket that has not opened has nothing at either end.
Unopened ==
  \A s \in Socket :
    /\ sock[s] \in {"unused", "connecting"} => conn[s] = "none"
    /\ conn[s] = "none" =>
         /\ link[s] = "none" /\ up[s] = <<>>
         /\ \A h \in handlers : h.socket # s
         /\ \A c \in callbacks : c.socket # s

LEMMA QuietUnopened ==
  ASSUME Types, Unopened, Quiet
  PROVE  Unopened'
<1>a. /\ UNCHANGED <<up, conn, handlers, callbacks>>
      /\ ws \in Socket \cup {None} /\ sock \in [Socket -> SocketState]
      /\ link \in [Socket -> {"none", "up", "down"}]
  BY QuietTypes DEF Quiet, Types, TypeOK
<1> DEFINE Local ==
      \A s \in Socket : /\ sock'[s] \in {"unused", "connecting"} => sock[s] \in {"unused", "connecting"}
                        /\ link[s] = "none" => link'[s] = "none"
<1>1. ASSUME Connect \/ TimerFires \/ NoCredentials PROVE Local
  BY <1>1 DEF Connect, TimerFires, NoCredentials, wires
<1>2. ASSUME Disconnect PROVE Local
  BY <1>2, <1>a DEF Disconnect
<1>3. ASSUME NewSocket PROVE Local
  BY <1>3, <1>a DEF NewSocket, wires
<1>4. ASSUME NEW s \in Socket, CloseEvent(s) \/ Refused(s) PROVE Local
  BY <1>4, <1>a DEF CloseEvent, Refused, Closed, wires
<1>5. ASSUME NEW s \in Socket, Unexpected(s) PROVE Local
  BY <1>5, <1>a DEF Unexpected
<1>6. ASSUME NEW s \in Socket, Lost(s) PROVE Local
  BY <1>6, <1>a DEF Lost, wrapper
<1>7. Local
  BY <1>1, <1>2, <1>3, <1>4, <1>5, <1>6 DEF Quiet
<1>8. QED
  BY <1>a, <1>7 DEF Unopened

Accepted(h, g, c) ==
  /\ g.id = h.id /\ g.socket = h.socket /\ g.query = h.query /\ g.stage = "reading"
  /\ c.id = h.id /\ c.socket = h.socket /\ c.query = h.query
  /\ handlers' = (handlers \ {h}) \cup {g}
  /\ callbacks' = callbacks \cup {c}
  /\ UNCHANGED <<subscriptions, refused>>
LEMMA ProcedureCases ==
  ASSUME Types, NEW h \in handlers, Procedure(h)
  PROVE  /\ h.stage = "procedure" /\ h \in Handler /\ UNCHANGED <<up, conn, crossed>>
         /\ \/ \E g \in Handler, c \in Callback : Accepted(h, g, c)
            \/ Rejected(h) /\ UNCHANGED callbacks
<1>1. h \in Handler /\ h.stage = "procedure" /\ UNCHANGED <<up, conn, crossed>>
  BY DEF Types, Procedure, wires
<1>2. CASE Rejected(h) /\ UNCHANGED callbacks
  BY <1>1, <1>2
<1>3. CASE ~(Rejected(h) /\ UNCHANGED callbacks)
  <2> DEFINE g == [h EXCEPT !.stage = "reading"]
             c == [id |-> h.id, socket |-> h.socket, query |-> h.query]
  <2>1. /\ g \in Handler /\ g.id = h.id /\ g.socket = h.socket /\ g.query = h.query
        /\ g.stage = "reading"
        /\ c \in Callback /\ c.id = h.id /\ c.socket = h.socket /\ c.query = h.query
    BY <1>1 DEF Handler, Callback
  <2>2. /\ handlers' = (handlers \ {h}) \cup {g} /\ callbacks' = callbacks \cup {c}
        /\ UNCHANGED <<subscriptions, refused>>
    BY <1>3 DEF Procedure
  <2> HIDE DEF g, c
  <2>3. Accepted(h, g, c)
    BY <2>1, <2>2 DEF Accepted
  <2>4. QED
    BY <1>1, <2>1, <2>3
<1>4. QED
  BY <1>2, <1>3

LEMMA ServerUnopened ==
  ASSUME Types, Unopened, ServerStep
  PROVE  Unopened'
<1>a. UNCHANGED <<sock, link>> /\ conn \in [Socket -> {"none", "open", "closed"}]
      /\ handlers \subseteq Handler /\ up \in [Socket -> Seq(Msg)]
  BY ServerTypes DEF Types, TypeOK
<1>1. ASSUME NEW s \in Socket, Subscribe(s) PROVE Unopened'
  <2>1. \A t \in Socket \ {s} : up'[t] = up[t]
    BY <1>1, DropTypes DEF Subscribe
  <2>2. conn[s] = "open" /\ UNCHANGED <<conn, callbacks>>
        /\ \A h \in handlers' : h \in handlers \/ h.socket = s
    BY <1>1 DEF Subscribe
  <2>3. QED
    BY <1>a, <2>1, <2>2 DEF Unopened
<1>2. ASSUME NEW s \in Socket, Unsubscribe(s) PROVE Unopened'
  <2>1. \A t \in Socket \ {s} : up'[t] = up[t]
    BY <1>2, DropTypes DEF Unsubscribe
  <2>2. conn[s] = "open" /\ UNCHANGED <<conn, handlers>> /\ callbacks' \subseteq callbacks
    BY <1>2 DEF Unsubscribe
  <2>3. QED
    BY <1>a, <2>1, <2>2 DEF Unopened
<1>3. ASSUME NEW s \in Socket, ServerClose(s) PROVE Unopened'
  <2>1. /\ conn[s] = "open" /\ conn'[s] = "closed"
        /\ UNCHANGED handlers /\ callbacks' \subseteq callbacks
        /\ \A t \in Socket \ {s} : up'[t] = up[t] /\ conn'[t] = conn[t]
    BY <1>3, <1>a DEF ServerClose
  <2>2. QED
    BY <1>a, <2>1 DEF Unopened
<1>4. ASSUME NEW h \in handlers, Procedure(h) PROVE Unopened'
  <2>1. /\ UNCHANGED <<up, conn>>
        /\ \A g \in handlers' : g \in handlers \/ g.socket = h.socket
        /\ \A c \in callbacks' : c \in callbacks \/ c.socket = h.socket
    BY <1>4, ProcedureCases DEF Accepted, Rejected
  <2>2. QED
    BY <1>a, <2>1 DEF Unopened
<1>5. ASSUME NEW h \in handlers, ReadBack(h) PROVE Unopened'
  <2>1. UNCHANGED <<up, conn, callbacks>> /\ handlers' \subseteq handlers
    BY <1>5 DEF ReadBack, Rejected, wires
  <2>2. QED
    BY <1>a, <2>1 DEF Unopened
<1>6. QED
  BY <1>1, <1>2, <1>3, <1>4, <1>5 DEF ServerStep

\* A connection that carries messages has a server's end.
LEMMA SentUnopened ==
  ASSUME Unopened, UNCHANGED <<sock, link, conn, handlers, callbacks>>,
         \A t \in Socket : up'[t] = up[t] \/ link[t] = "up"
  PROVE  Unopened'
BY DEF Unopened

LEMMA NextUnopened ==
  ASSUME Types, Unopened, [Next]_vars
  PROVE  Unopened'
<1>1. ASSUME NEW s \in Socket, Open(s) PROVE Unopened'
  <2>1. \A t \in Socket : up'[t] = up[t] \/ link'[t] = "up"
    BY <1>1, OpenTypes DEF Open
  <2>2. /\ conn'[s] = "open" /\ link'[s] = "up" /\ sock'[s] = "open"
        /\ \A t \in Socket \ {s} : conn'[t] = conn[t] /\ link'[t] = link[t] /\ sock'[t] = sock[t]
        /\ UNCHANGED <<handlers, callbacks>>
    BY <1>1 DEF Open, Types, TypeOK
  <2>3. QED
    BY <2>1, <2>2 DEF Unopened
<1>2. ASSUME NEW q \in Query, Load(q) PROVE Unopened'
  <2>1. Message("SUBSCRIBE", q, messages + 1) \in Msg
    BY DEF Types, Message, Msg, Kind
  <2>2. \A t \in Socket : up'[t] = up[t] \/ link[t] = "up"
    BY <1>2, <2>1, OneMessage, SentMessages DEF Load
  <2>3. QED
    BY <1>2, <2>2, SentUnopened DEF Load, wrapper, server
<1>3. ASSUME NEW q \in Query, Unload(q) PROVE Unopened'
  <2>1. Message("UNSUBSCRIBE", q, None) \in Msg
    BY DEF Message, Msg, Kind, None
  <2>2. \A t \in Socket : up'[t] = up[t] \/ link[t] = "up"
    BY <1>3, <2>1, OneMessage, SentMessages DEF Unload
  <2>3. QED
    BY <1>3, <2>2, SentUnopened DEF Unload, wrapper, server
<1>4. CASE UNCHANGED vars
  BY <1>4 DEF vars, wrapper, wires, server, Unopened
<1>5. QED
  BY <1>1, <1>2, <1>3, <1>4, Steps, QuietUnopened, ServerUnopened

-----------------------------------------------------------------------------
(* Each SUBSCRIBE has a number of its own.                                 *)

Handles(s, q, n) == \E h \in handlers : h.socket = s /\ h.query = q /\ h.id = n
Holds(s, q, n) == \E c \in callbacks : c.socket = s /\ c.query = q /\ c.id = n
Keeps(s, q, n) == n # None /\ subscriptions[s][q] = n
Names(s, q, n) == Asks(up[s], q, n) \/ Handles(s, q, n) \/ Holds(s, q, n) \/ Keeps(s, q, n)

\* A number is in one place, unless a callback has it: from the message it goes
\* to its handler, and from there to the subscription.
Distinct(u) ==
  \A i, j \in DOMAIN u :
    u[i].type = "SUBSCRIBE" /\ u[j].type = "SUBSCRIBE" /\ u[i].id = u[j].id => i = j
Places ==
  /\ \A s \in Socket, q \in Query, n \in Nat :
       /\ Handles(s, q, n) => ~Asks(up[s], q, n) /\ ~Keeps(s, q, n)
       /\ Keeps(s, q, n) => ~Asks(up[s], q, n)
  /\ \A s \in Socket : Distinct(up[s])
  /\ \A g, h \in handlers : g.id = h.id => g = h
  /\ \A h \in handlers : h.stage = "reading" => Holds(h.socket, h.query, h.id)
Named ==
  /\ \A s \in Socket, q \in Query, n \in Nat : Names(s, q, n) => n \in 1..messages
  /\ \A s, t \in Socket, q, r \in Query, n \in Nat :
       Names(s, q, n) /\ Names(t, r, n) => s = t /\ q = r
Numbered == Named /\ Places

LEMMA SentNumbered ==
  ASSUME Types, Numbered, NEW ms \in Seq(Msg),
         messages' \in Nat, messages <= messages',
         \A i \in 1..Len(ms) : ms[i].type = "SUBSCRIBE" =>
            ms[i].id = messages + i /\ messages + i <= messages',
         \A t \in Socket : up'[t] = up[t] \/ (t = ws /\ up'[t] = up[t] \o ms),
         UNCHANGED <<handlers, callbacks, subscriptions>>
  PROVE  Numbered'
<1> DEFINE New(n) == n \in messages + 1..messages'
<1>0. messages \in Nat /\ up \in [Socket -> Seq(Msg)]
  BY DEF Types
<1>1. ASSUME NEW s \in Socket, NEW q \in Query, NEW n \in Nat, Asks(up[s], q, n)'
      PROVE  \/ Asks(up[s], q, n)
             \/ /\ s = ws /\ New(n) /\ n - messages \in 1..Len(ms)
                /\ ms[n - messages].query = q
  <2>1. CASE up'[s] = up[s]
    BY <1>1, <2>1 DEF Asks
  <2>2. CASE s = ws /\ up'[s] = up[s] \o ms
    <3>1. PICK i \in DOMAIN (up[s] \o ms) :
            /\ (up[s] \o ms)[i].type = "SUBSCRIBE" /\ (up[s] \o ms)[i].query = q
            /\ (up[s] \o ms)[i].id = n
      BY <1>1, <2>2 DEF Asks
    <3>2. CASE i \in 1..Len(up[s])
      BY <1>0, <3>1, <3>2, JoinElements DEF Asks
    <3>3. CASE i - Len(up[s]) \in 1..Len(ms) /\ (up[s] \o ms)[i] = ms[i - Len(up[s])]
      <4>1. n = messages + (i - Len(up[s])) /\ n <= messages'
        BY <3>1, <3>3
      <4>2. Len(up[s]) \in Nat /\ i \in Nat
        BY <1>0, JoinElements
      <4>3. n - messages = i - Len(up[s]) /\ n > messages
        BY <1>0, <3>3, <4>1, <4>2
      <4>4. QED
        BY <1>0, <2>2, <3>1, <3>3, <4>1, <4>3
    <3>4. QED
      BY <1>0, <3>2, <3>3, JoinElements
  <2>3. QED
    BY <2>1, <2>2
<1>2. \A s \in Socket, q \in Query, n \in Nat :
        /\ Handles(s, q, n)' <=> Handles(s, q, n)
        /\ Holds(s, q, n)' <=> Holds(s, q, n)
        /\ Keeps(s, q, n)' <=> Keeps(s, q, n)
  BY DEF Handles, Holds, Keeps
<1>3. \A s \in Socket, q \in Query, n \in Nat : Names(s, q, n) => n \in 1..messages /\ ~New(n)
  BY <1>0 DEF Numbered, Named
<1>4. ASSUME NEW s \in Socket, NEW q \in Query, NEW n \in Nat, Names(s, q, n)'
      PROVE  \/ Names(s, q, n)
             \/ s = ws /\ New(n) /\ ms[n - messages].query = q
  BY <1>1, <1>2, <1>4 DEF Names
<1> HIDE DEF New
<1>5. Named'
  <2>1. \A n : New(n) => n \in 1..messages'
    BY <1>0 DEF New
  <2>2. \A n : n \in 1..messages => n \in 1..messages'
    BY <1>0
  <2>3. QED
    BY <1>3, <1>4, <2>1, <2>2 DEF Numbered, Named
<1>6. ASSUME NEW s \in Socket PROVE Distinct(up'[s])
  <2>1. CASE up'[s] = up[s]
    BY <2>1 DEF Numbered, Places
  <2>2. CASE s = ws /\ up'[s] = up[s] \o ms
    <3> DEFINE u == up[s]
    <3>1. u \in Seq(Msg)
      BY <1>0
    <3>2. ASSUME NEW i \in 1..Len(u), u[i].type = "SUBSCRIBE" PROVE u[i].id <= messages
      <4>1. u[i] \in Msg /\ i \in DOMAIN u
        BY <3>1
      <4>2. Names(s, u[i].query, u[i].id) /\ u[i].query \in Query /\ u[i].id \in Nat
        BY <3>2, <4>1 DEF Names, Asks, Msg
      <4>3. QED
        BY <1>0, <4>2 DEF Numbered, Named
    <3>3. Distinct(u)
      BY DEF Numbered, Places
    <3>4. ASSUME NEW i \in DOMAIN (u \o ms), NEW j \in DOMAIN (u \o ms),
                 (u \o ms)[i].type = "SUBSCRIBE", (u \o ms)[j].type = "SUBSCRIBE",
                 (u \o ms)[i].id = (u \o ms)[j].id
          PROVE  i = j
      <4> HIDE DEF u
      <4>0. /\ \A k \in DOMAIN (u \o ms) : k \in Int
            /\ Len(u) \in Nat /\ Len(ms) \in Nat
            /\ \A k \in DOMAIN (u \o ms) :
                 \/ k \in DOMAIN u /\ k \in 1..Len(u) /\ (u \o ms)[k] = u[k]
                 \/ k - Len(u) \in 1..Len(ms) /\ (u \o ms)[k] = ms[k - Len(u)]
        BY <3>1, JoinElements
      <4>1. CASE i \in DOMAIN u /\ i \in 1..Len(u) /\ (u \o ms)[i] = u[i]
        <5>1. CASE j \in DOMAIN u /\ j \in 1..Len(u) /\ (u \o ms)[j] = u[j]
          BY <3>3, <3>4, <4>1, <5>1 DEF Distinct
        <5>2. CASE j - Len(u) \in 1..Len(ms) /\ (u \o ms)[j] = ms[j - Len(u)]
          BY <1>0, <3>2, <3>4, <4>1, <5>2
        <5>3. QED
          BY <4>0, <5>1, <5>2
      <4>2. CASE i - Len(u) \in 1..Len(ms) /\ (u \o ms)[i] = ms[i - Len(u)]
        <5>1. CASE j \in DOMAIN u /\ j \in 1..Len(u) /\ (u \o ms)[j] = u[j]
          BY <1>0, <3>2, <3>4, <4>2, <5>1
        <5>2. CASE j - Len(u) \in 1..Len(ms) /\ (u \o ms)[j] = ms[j - Len(u)]
          <6>1. messages + (i - Len(u)) = messages + (j - Len(u))
            BY <3>4, <4>2, <5>2
          <6>2. QED
            BY <1>0, <4>0, <6>1
        <5>3. QED
          BY <4>0, <5>1, <5>2
      <4>3. QED
        BY <4>0, <4>1, <4>2
    <3>5. QED
      BY <2>2, <3>4 DEF Distinct
  <2>3. QED
    BY <2>1, <2>2
<1>7. Places'
  <2>1. \A s \in Socket, q \in Query, n \in Nat :
          Asks(up[s], q, n)' => Asks(up[s], q, n) \/ New(n)
    BY <1>1
  <2>2. \A s \in Socket, q \in Query, n \in Nat :
          (Handles(s, q, n) \/ Keeps(s, q, n)) => ~New(n)
    BY <1>3 DEF Names
  <2>3. /\ \A g, h \in handlers' : g.id = h.id => g = h
        /\ \A h \in handlers' : h.stage = "reading" => Holds(h.socket, h.query, h.id)'
    BY DEF Numbered, Places, Holds
  <2>4. \A s \in Socket, q \in Query, n \in Nat :
       /\ Handles(s, q, n)' => ~Asks(up[s], q, n)' /\ ~Keeps(s, q, n)'
       /\ Keeps(s, q, n)' => ~Asks(up[s], q, n)'
    BY <1>2, <2>1, <2>2 DEF Numbered, Places
  <2>5. QED
    BY <1>6, <2>3, <2>4 DEF Places
<1>8. QED
  BY <1>5, <1>7 DEF Numbered

LEMMA TailAsks ==
  ASSUME NEW u \in Seq(Msg), u # <<>>, NEW q \in Query
  PROVE  /\ \A n : Asks(Tail(u), q, n) => Asks(u, q, n)
         /\ Head(u).type = "SUBSCRIBE" => Asks(u, Head(u).query, Head(u).id)
         /\ Distinct(u) => Distinct(Tail(u))
         /\ Distinct(u) /\ Head(u).type = "SUBSCRIBE" => ~Asks(Tail(u), q, Head(u).id)
<1>1. \A n : Asks(Tail(u), q, n) => Asks(u, q, n)
  BY TailElements DEF Asks
<1>2. Head(u).type = "SUBSCRIBE" => Asks(u, Head(u).query, Head(u).id)
  BY TailElements DEF Asks
<1>3. ASSUME Distinct(u), NEW i \in DOMAIN Tail(u), NEW j \in DOMAIN Tail(u),
             Tail(u)[i].type = "SUBSCRIBE", Tail(u)[j].type = "SUBSCRIBE",
             Tail(u)[i].id = Tail(u)[j].id
      PROVE  i = j
  <2>1. /\ i + 1 \in DOMAIN u /\ Tail(u)[i] = u[i + 1]
        /\ j + 1 \in DOMAIN u /\ Tail(u)[j] = u[j + 1]
        /\ i \in Int /\ j \in Int
    BY TailElements
  <2>2. i + 1 = j + 1
    BY <1>3, <2>1 DEF Distinct
  <2>3. QED
    BY <2>1, <2>2
<1>4. ASSUME Distinct(u), Head(u).type = "SUBSCRIBE", NEW i \in DOMAIN Tail(u),
             Tail(u)[i].type = "SUBSCRIBE", Tail(u)[i].id = Head(u).id
      PROVE  FALSE
  <2>1. /\ i + 1 \in DOMAIN u /\ Tail(u)[i] = u[i + 1] /\ i \in 1..Len(u) - 1
        /\ 1 \in DOMAIN u /\ Head(u) = u[1]
    BY TailElements
  <2>2. i + 1 = 1
    BY <1>4, <2>1 DEF Distinct
  <2>3. QED
    BY <2>1, <2>2
<1>5. QED
  BY <1>1, <1>2, <1>3, <1>4 DEF Distinct, Asks

\* What has a number is on the socket and for the query of its SUBSCRIBE.
LEMMA NumbersOf ==
  ASSUME Types, Numbered
  PROVE  /\ \A h \in handlers : /\ h.id \in Nat /\ h.id # None
                                /\ h.socket \in Socket /\ h.query \in Query
                                /\ Handles(h.socket, h.query, h.id)
         /\ \A c \in callbacks : /\ c.id \in Nat /\ c.id # None
                                 /\ c.socket \in Socket /\ c.query \in Query
                                 /\ Holds(c.socket, c.query, c.id)
         /\ \A h \in handlers, s \in Socket, q \in Query : subscriptions[s][q] # h.id
         /\ \A c \in callbacks, s \in Socket, q \in Query :
              subscriptions[s][q] = c.id => c.socket = s /\ c.query = q
<1>1. ASSUME NEW h \in handlers
      PROVE  /\ h.id \in Nat /\ h.id # None /\ h.socket \in Socket /\ h.query \in Query
             /\ Handles(h.socket, h.query, h.id)
  <2>1. h.id \in Nat /\ h.socket \in Socket /\ h.query \in Query
    BY DEF Types, Handler
  <2>2. Handles(h.socket, h.query, h.id)
    BY DEF Handles
  <2>3. h.id \in 1..messages
    BY <2>1, <2>2 DEF Names, Numbered, Named
  <2>4. QED
    BY <2>1, <2>2, <2>3 DEF None
<1>2. ASSUME NEW c \in callbacks
      PROVE  /\ c.id \in Nat /\ c.id # None /\ c.socket \in Socket /\ c.query \in Query
             /\ Holds(c.socket, c.query, c.id)
  <2>1. c.id \in Nat /\ c.socket \in Socket /\ c.query \in Query
    BY DEF Types, Callback
  <2>2. Holds(c.socket, c.query, c.id)
    BY DEF Holds
  <2>3. c.id \in 1..messages
    BY <2>1, <2>2 DEF Names, Numbered, Named
  <2>4. QED
    BY <2>1, <2>2, <2>3 DEF None
<1>3. ASSUME NEW h \in handlers, NEW s \in Socket, NEW q \in Query, subscriptions[s][q] = h.id
      PROVE  FALSE
  <2>1. Keeps(s, q, h.id)
    BY <1>1, <1>3 DEF Keeps
  <2>2. s = h.socket /\ q = h.query
    BY <1>1, <2>1 DEF Names, Numbered, Named
  <2>3. QED
    BY <1>1, <2>1, <2>2 DEF Numbered, Places
<1>4. ASSUME NEW c \in callbacks, NEW s \in Socket, NEW q \in Query, subscriptions[s][q] = c.id
      PROVE  c.socket = s /\ c.query = q
  <2>1. Keeps(s, q, c.id)
    BY <1>2, <1>4 DEF Keeps
  <2>2. QED
    BY <1>2, <2>1 DEF Names, Numbered, Named
<1>5. QED
  BY <1>1, <1>2, <1>3, <1>4

\* A step after which nothing has a number that it did not have before.
LEMMA NamedStays ==
  ASSUME Named, UNCHANGED messages,
         \A s \in Socket, q \in Query, n \in Nat : Names(s, q, n)' => Names(s, q, n)
  PROVE  Named'
BY DEF Named

LEMMA SubscribeNumbered ==
  ASSUME Types, Numbered, NEW s \in Socket, Subscribe(s)
  PROVE  Numbered'
<1> DEFINE m == Head(up[s])
           h0 == [id |-> m.id, socket |-> s, query |-> m.query, stage |-> "procedure"]
<1>1. /\ up[s] \in Seq(Msg) /\ up[s] # <<>> /\ m \in Msg /\ m.type = "SUBSCRIBE"
      /\ up'[s] = Tail(up[s]) /\ \A t \in Socket \ {s} : up'[t] = up[t]
      /\ handlers' = handlers \cup {h0}
      /\ UNCHANGED <<callbacks, subscriptions, messages>>
  BY DropTypes DEF Subscribe, Types
<1>2. /\ h0.id = m.id /\ h0.socket = s /\ h0.query = m.query /\ h0.stage = "procedure"
      /\ m.id \in Nat /\ m.query \in Query
  BY <1>1 DEF Msg
<1> HIDE DEF m, h0
<1>3. /\ \A t \in Socket, q \in Query, n \in Nat : Asks(up'[t], q, n) => Asks(up[t], q, n)
      /\ Asks(up[s], m.query, m.id) /\ ~Asks(up'[s], m.query, m.id)
      /\ \A t \in Socket : Distinct(up'[t])
  <2>1. Distinct(up[s]) /\ \A t \in Socket : Distinct(up[t])
    BY DEF Numbered, Places
  <2>2. QED
    BY <1>1, <1>2, <2>1, TailAsks DEF m
<1>4. /\ \A t \in Socket, q \in Query, n \in Nat :
           Handles(t, q, n)' <=> Handles(t, q, n) \/ (t = s /\ q = m.query /\ n = m.id)
      /\ \A t \in Socket, q \in Query, n \in Nat :
           /\ Holds(t, q, n)' <=> Holds(t, q, n)
           /\ Keeps(t, q, n)' <=> Keeps(t, q, n)
  BY <1>1, <1>2 DEF Handles, Holds, Keeps
<1>5. \A t \in Socket, q \in Query, n \in Nat : Names(t, q, n)' => Names(t, q, n)
  BY <1>3, <1>4 DEF Names
<1>6. Named'
  BY <1>1, <1>5, NamedStays DEF Numbered
<1>7. \A g \in handlers : g.id # m.id
  <2>1. SUFFICES ASSUME NEW g \in handlers, g.id = m.id PROVE FALSE
    OBVIOUS
  <2>2. Handles(g.socket, g.query, m.id) /\ g.socket \in Socket /\ g.query \in Query
    BY <2>1, NumbersOf
  <2>3. g.socket = s /\ g.query = m.query
    BY <1>2, <1>3, <2>2 DEF Names, Numbered, Named
  <2>4. QED
    BY <1>2, <1>3, <2>2, <2>3 DEF Numbered, Places
<1>8. \A g, h \in handlers' : g.id = h.id => g = h
  BY <1>1, <1>2, <1>7 DEF Numbered, Places
<1>9. \A h \in handlers' : h.stage = "reading" => Holds(h.socket, h.query, h.id)'
  BY <1>1, <1>2 DEF Numbered, Places, Holds
<1>10. ~Keeps(s, m.query, m.id)
  BY <1>2, <1>3 DEF Numbered, Places
<1>11. \A t \in Socket, q \in Query, n \in Nat :
         /\ Handles(t, q, n)' => ~Asks(up[t], q, n)' /\ ~Keeps(t, q, n)'
         /\ Keeps(t, q, n)' => ~Asks(up[t], q, n)'
  BY <1>3, <1>4, <1>10 DEF Numbered, Places
<1>12. QED
  BY <1>3, <1>6, <1>8, <1>9, <1>11 DEF Numbered, Places

\* A step that takes messages and subscriptions away, and callbacks that no
\* handler is reading for.
LEMMA LessNumbered ==
  ASSUME Types, Numbered, UNCHANGED <<handlers, messages>>, callbacks' \subseteq callbacks,
         \A s \in Socket, q \in Query, n \in Nat : Asks(up'[s], q, n) => Asks(up[s], q, n),
         \A s \in Socket : Distinct(up'[s]),
         \A s \in Socket, q \in Query : subscriptions'[s][q] \in {None, subscriptions[s][q]},
         \A c \in callbacks : (\A s \in Socket, q \in Query : subscriptions[s][q] # c.id) => c \in callbacks'
  PROVE  Numbered'
<1>1. /\ \A t \in Socket, q \in Query, n \in Nat :
           /\ Handles(t, q, n)' <=> Handles(t, q, n)
           /\ Holds(t, q, n)' => Holds(t, q, n)
           /\ Keeps(t, q, n)' => Keeps(t, q, n)
  BY DEF Handles, Holds, Keeps
<1>2. \A t \in Socket, q \in Query, n \in Nat : Names(t, q, n)' => Names(t, q, n)
  BY <1>1 DEF Names
<1>3. Named'
  BY <1>2, NamedStays DEF Numbered
<1>4. ASSUME NEW h \in handlers, h.stage = "reading" PROVE Holds(h.socket, h.query, h.id)'
  <2>1. PICK c \in callbacks : c.socket = h.socket /\ c.query = h.query /\ c.id = h.id
    BY <1>4 DEF Numbered, Places, Holds
  <2>2. \A s \in Socket, q \in Query : subscriptions[s][q] # c.id
    BY <2>1, NumbersOf
  <2>3. QED
    BY <2>1, <2>2 DEF Holds
<1>5. \A t \in Socket, q \in Query, n \in Nat :
        /\ Handles(t, q, n)' => ~Asks(up[t], q, n)' /\ ~Keeps(t, q, n)'
        /\ Keeps(t, q, n)' => ~Asks(up[t], q, n)'
  BY <1>1 DEF Numbered, Places
<1>6. QED
  BY <1>3, <1>4, <1>5 DEF Numbered, Places

LEMMA ProcedureNumbered ==
  ASSUME Types, Numbered, NEW h \in handlers, Procedure(h)
  PROVE  Numbered'
<1>a. UNCHANGED <<up, messages>>
  BY DEF Procedure, wires
<1>b. /\ \A g, k \in handlers : g.id = k.id => g = k
      /\ \A g \in handlers : g.stage = "reading" => Holds(g.socket, g.query, g.id)
  BY DEF Numbered, Places
<1>1. ASSUME NEW g \in Handler, NEW c \in Callback, Accepted(h, g, c) PROVE Numbered'
  <2>1. \A t \in Socket, q \in Query, n \in Nat :
          /\ Handles(t, q, n)' <=> Handles(t, q, n)
          /\ Holds(t, q, n) => Holds(t, q, n)'
          /\ Holds(t, q, n)' => Holds(t, q, n) \/ Handles(t, q, n)
          /\ Keeps(t, q, n)' <=> Keeps(t, q, n)
          /\ Asks(up[t], q, n)' <=> Asks(up[t], q, n)
    BY <1>a, <1>1 DEF Accepted, Handles, Holds, Keeps, Asks
  <2>2. \A t \in Socket, q \in Query, n \in Nat : Names(t, q, n)' => Names(t, q, n)
    BY <2>1 DEF Names
  <2>3. Named'
    BY <1>a, <2>2, NamedStays DEF Numbered
  <2>4. \A k, l \in handlers' : k.id = l.id => k = l
    BY <1>1, <1>b DEF Accepted
  <2>5. ASSUME NEW k \in handlers', k.stage = "reading" PROVE Holds(k.socket, k.query, k.id)'
    <3>1. CASE k = g
      BY <1>1, <3>1 DEF Accepted, Holds
    <3>2. CASE k # g
      BY <1>1, <1>b, <2>5, <3>2 DEF Accepted, Holds
    <3>3. QED
      BY <3>1, <3>2
  <2>6. QED
    BY <1>a, <2>1, <2>3, <2>4, <2>5 DEF Numbered, Places
<1>2. CASE Rejected(h) /\ UNCHANGED callbacks
  <2>0. handlers' = handlers \ {h} /\ UNCHANGED subscriptions
    BY <1>2 DEF Rejected
  <2>1. \A t \in Socket, q \in Query, n \in Nat :
          /\ Handles(t, q, n)' => Handles(t, q, n)
          /\ Holds(t, q, n)' <=> Holds(t, q, n)
          /\ Keeps(t, q, n)' <=> Keeps(t, q, n)
          /\ Asks(up[t], q, n)' <=> Asks(up[t], q, n)
    BY <1>a, <1>2, <2>0 DEF Handles, Holds, Keeps, Asks
  <2>2. \A t \in Socket, q \in Query, n \in Nat : Names(t, q, n)' => Names(t, q, n)
    BY <2>1 DEF Names
  <2>3. Named'
    BY <1>a, <2>2, NamedStays DEF Numbered
  <2>4. \A k \in handlers' : k.stage = "reading" => Holds(k.socket, k.query, k.id)'
    BY <1>2, <1>b, <2>0 DEF Holds
  <2>5. QED
    BY <1>a, <1>b, <2>0, <2>1, <2>3, <2>4 DEF Numbered, Places
<1>3. QED
  BY <1>1, <1>2, ProcedureCases

LEMMA ReadBackNumbered ==
  ASSUME Types, Numbered, NEW h \in handlers, ReadBack(h)
  PROVE  Numbered'
<1>a. UNCHANGED <<up, messages, callbacks>> /\ handlers' = handlers \ {h}
  BY DEF ReadBack, Rejected, wires
<1>b. /\ \A g, k \in handlers : g.id = k.id => g = k
      /\ \A g \in handlers : g.stage = "reading" => Holds(g.socket, g.query, g.id)
  BY DEF Numbered, Places
<1>c. /\ h.id \in Nat /\ h.id # None /\ h.socket \in Socket /\ h.query \in Query
      /\ Handles(h.socket, h.query, h.id)
  BY NumbersOf
<1>1. \A t \in Socket, q \in Query, n \in Nat :
        /\ Handles(t, q, n)' => Handles(t, q, n) /\ n # h.id
        /\ Holds(t, q, n)' <=> Holds(t, q, n)
        /\ Asks(up[t], q, n)' <=> Asks(up[t], q, n)
  BY <1>a, <1>b DEF Handles, Holds, Asks
<1>2. \A t \in Socket, q \in Query, n \in Nat :
        Keeps(t, q, n)' => Keeps(t, q, n) \/ (t = h.socket /\ q = h.query /\ n = h.id)
  <2>1. CASE UNCHANGED subscriptions
    BY <2>1 DEF Keeps
  <2>2. CASE subscriptions' = [subscriptions EXCEPT ![h.socket][h.query] = h.id]
    <3>1. \A t \in Socket, r \in Query :
            subscriptions'[t][r] = IF t = h.socket /\ r = h.query THEN h.id ELSE subscriptions[t][r]
      BY <1>c, <2>2, KeptTypes DEF Types, TypeOK
    <3>2. QED
      BY <3>1 DEF Keeps
  <2>3. QED
    BY <2>1, <2>2 DEF ReadBack, Rejected
<1>3. \A t \in Socket, q \in Query, n \in Nat : Names(t, q, n)' => Names(t, q, n)
  BY <1>1, <1>2, <1>c DEF Names
<1>4. Named'
  BY <1>a, <1>3, NamedStays DEF Numbered
<1>5. \A k \in handlers' : k.stage = "reading" => Holds(k.socket, k.query, k.id)'
  BY <1>a, <1>b DEF Holds
<1>6. ~Asks(up[h.socket], h.query, h.id)
  BY <1>c DEF Numbered, Places
<1>7. \A t \in Socket, q \in Query, n \in Nat :
        /\ Handles(t, q, n)' => ~Asks(up[t], q, n)' /\ ~Keeps(t, q, n)'
        /\ Keeps(t, q, n)' => ~Asks(up[t], q, n)'
  BY <1>1, <1>2, <1>6 DEF Numbered, Places
<1>8. QED
  BY <1>a, <1>b, <1>4, <1>5, <1>7 DEF Numbered, Places

LEMMA NextNumbered ==
  ASSUME Types, Numbered, [Next]_vars
  PROVE  Numbered'
<1>a. messages \in Nat /\ up \in [Socket -> Seq(Msg)]
  BY DEF Types
<1>b. \A s \in Socket : Distinct(up[s])
  BY DEF Numbered, Places
<1>1. ASSUME NEW s \in Socket, Unsubscribe(s) PROVE Numbered'
  <2> DEFINE q0 == Head(up[s]).query
  <2>1. /\ up[s] \in Seq(Msg) /\ up[s] # <<>> /\ q0 \in Query
        /\ up'[s] = Tail(up[s]) /\ \A t \in Socket \ {s} : up'[t] = up[t]
    BY <1>1, <1>a, DropTypes DEF Unsubscribe, Msg
  <2>2. /\ UNCHANGED <<handlers, messages>>
        /\ callbacks' = {c \in callbacks : c.id # subscriptions[s][q0]}
        /\ subscriptions' = [subscriptions EXCEPT ![s][q0] = None]
    BY <1>1 DEF Unsubscribe
  <2>3. \A t \in Socket, r \in Query :
          subscriptions'[t][r] = IF t = s /\ r = q0 THEN None ELSE subscriptions[t][r]
    BY <2>1, <2>2, KeptTypes DEF Types, TypeOK, None
  <2>4. /\ \A t \in Socket, q \in Query, n \in Nat : Asks(up'[t], q, n) => Asks(up[t], q, n)
        /\ \A t \in Socket : Distinct(up'[t])
    BY <1>b, <2>1, TailAsks
  <2>5. QED
    BY <2>1, <2>2, <2>3, <2>4, LessNumbered
<1>2. ASSUME NEW s \in Socket, ServerClose(s) PROVE Numbered'
  <2>1. /\ UNCHANGED <<handlers, messages, subscriptions>>
        /\ callbacks' = {c \in callbacks : c.id \notin KeptBy(s)}
        /\ up'[s] = <<>> /\ \A t \in Socket \ {s} : up'[t] = up[t]
    BY <1>2, <1>a DEF ServerClose
  <2>2. /\ \A t \in Socket, q \in Query, n \in Nat : Asks(up'[t], q, n) => Asks(up[t], q, n)
        /\ \A t \in Socket : Distinct(up'[t])
    BY <1>b, <2>1 DEF Asks, Distinct
  <2>3. QED
    BY <2>1, <2>2, LessNumbered DEF KeptBy
<1>3. CASE ServerStep
  BY <1>1, <1>2, <1>3, SubscribeNumbered, ProcedureNumbered, ReadBackNumbered DEF ServerStep
<1>4. ASSUME NEW s \in Socket, Open(s) PROVE Numbered'
  <2>1. /\ messages' = messages + Len(Asking)
        /\ \A t \in Socket : up'[t] = up[t] \/ (t = ws /\ up'[t] = up[t] \o Asking)
        /\ UNCHANGED <<handlers, callbacks, subscriptions>>
    BY <1>4, OpenTypes DEF Open
  <2>2. /\ Asking \in Seq(Msg) /\ Len(Asking) \in Nat
        /\ \A i \in 1..Len(Asking) : Asking[i].id = messages + i
    BY AskingMessages
  <2>3. /\ messages' \in Nat /\ messages <= messages'
        /\ \A i \in 1..Len(Asking) : messages + i <= messages'
    BY <1>a, <2>1, <2>2
  <2> HIDE DEF Asking
  <2>4. QED
    BY <2>1, <2>2, <2>3, SentNumbered
<1>5. ASSUME NEW q \in Query, Load(q) PROVE Numbered'
  <2> DEFINE m == Message("SUBSCRIBE", q, messages + 1)
  <2>1. m \in Msg /\ m.type = "SUBSCRIBE" /\ m.id = messages + 1
    BY <1>a DEF Message, Msg, Kind
  <2> HIDE DEF m
  <2>2. /\ <<m>> \in Seq(Msg) /\ Len(<<m>>) = 1 /\ \A i \in 1..Len(<<m>>) : <<m>>[i] = m /\ i = 1
    BY <2>1
  <2>3. /\ up' = Sent(<<m>>) /\ messages' = messages + 1
        /\ UNCHANGED <<handlers, callbacks, subscriptions>>
    BY <1>5 DEF Load, server, m
  <2>4. \A t \in Socket : up'[t] = up[t] \/ (t = ws /\ up'[t] = up[t] \o <<m>>)
    BY <2>2, <2>3, SentMessages
  <2>5. messages' \in Nat /\ messages <= messages' /\ messages + 1 <= messages'
    BY <1>a, <2>3
  <2>6. \A i \in 1..Len(<<m>>) : <<m>>[i].type = "SUBSCRIBE" =>
            <<m>>[i].id = messages + i /\ messages + i <= messages'
    BY <2>1, <2>2, <2>5
  <2>7. QED
    BY <2>2, <2>3, <2>4, <2>5, <2>6, SentNumbered
<1>6. ASSUME NEW q \in Query, Unload(q) PROVE Numbered'
  <2> DEFINE m == Message("UNSUBSCRIBE", q, None)
  <2>1. m \in Msg /\ m.type # "SUBSCRIBE"
    BY <1>a DEF Message, Msg, Kind, None
  <2> HIDE DEF m
  <2>2. <<m>> \in Seq(Msg) /\ \A i \in 1..Len(<<m>>) : <<m>>[i] = m
    BY <2>1
  <2>3. /\ up' = Sent(<<m>>) \/ up' = up
        /\ UNCHANGED <<handlers, callbacks, subscriptions, messages>>
    BY <1>6 DEF Unload, server, m
  <2>4. \A t \in Socket : up'[t] = up[t] \/ (t = ws /\ up'[t] = up[t] \o <<m>>)
    BY <2>2, <2>3, SentMessages
  <2>5. \A i \in 1..Len(<<m>>) : <<m>>[i].type # "SUBSCRIBE"
    BY <2>1, <2>2
  <2>6. messages' \in Nat /\ messages <= messages'
    BY <1>a, <2>3
  <2>7. QED
    BY <2>2, <2>3, <2>4, <2>5, <2>6, SentNumbered
<1>7. ASSUME UNCHANGED <<up, handlers, callbacks, subscriptions, messages>> PROVE Numbered'
  BY <1>7 DEF Numbered, Named, Places, Names, Asks, Handles, Holds, Keeps, Distinct
<1>8. CASE Quiet
  BY <1>7, <1>8, QuietTypes DEF Quiet
<1>9. CASE UNCHANGED vars
  BY <1>7, <1>9 DEF vars, wires, server
<1>10. QED
  BY <1>3, <1>4, <1>5, <1>6, <1>8, <1>9, Steps

-----------------------------------------------------------------------------
(* Callbacks, handlers and subscriptions, until messages cross.            *)

\* A query has one handler or one subscription on a connection, and a callback is
\* that of either.
Tidy ==
  ~crossed =>
    /\ \A h \in handlers :
         /\ conn[h.socket] = "open" /\ subscriptions[h.socket][h.query] = None
         /\ \A g \in handlers : g.socket = h.socket /\ g.query = h.query => g = h
         /\ \A c \in callbacks : c.socket = h.socket /\ c.query = h.query =>
              c.id = h.id /\ h.stage = "reading"
    /\ \A c \in callbacks :
         /\ conn[c.socket] = "open"
         /\ Handling(c.socket, c.query) \/ subscriptions[c.socket][c.query] = c.id

LEMMA ServerTidy ==
  ASSUME Types, Numbered, Tidy, ServerStep
  PROVE  Tidy'
<1> SUFFICES ASSUME ~crossed' PROVE Tidy'
  BY DEF Tidy
<1>a. /\ subscriptions \in [Socket -> [Query -> Nat]]
      /\ conn \in [Socket -> {"none", "open", "closed"}]
  BY DEF Types, TypeOK
<1>b. /\ \A h \in handlers : h.socket \in Socket /\ h.query \in Query /\ h.id # None
      /\ \A c \in callbacks : c.socket \in Socket /\ c.query \in Query /\ c.id # None
  BY NumbersOf
<1>1. ASSUME NEW s \in Socket, Subscribe(s) PROVE Tidy'
  <2> DEFINE m == Head(up[s])
             h0 == [id |-> m.id, socket |-> s, query |-> m.query, stage |-> "procedure"]
  <2>1. /\ handlers' = handlers \cup {h0} /\ UNCHANGED <<conn, callbacks, subscriptions>>
        /\ h0.socket = s /\ h0.query = m.query /\ conn[s] = "open"
        /\ crossed' = (crossed \/ Handling(s, m.query) \/ subscriptions[s][m.query] # None)
    BY <1>1 DEF Subscribe
  <2>2. ~crossed /\ ~Handling(s, m.query) /\ subscriptions[s][m.query] = None
    BY <2>1, Zenon
  <2> HIDE DEF m, h0
  <2>3. \A g \in handlers : ~(g.socket = s /\ g.query = m.query)
    BY <2>2 DEF Handling
  <2>4. \A c \in callbacks : ~(c.socket = s /\ c.query = m.query)
    BY <1>b, <2>2 DEF Tidy
  <2>5. \A t, q : Handling(t, q) => Handling(t, q)'
    BY <2>1 DEF Handling
  <2>6. ASSUME NEW h \in handlers'
        PROVE  /\ conn'[h.socket] = "open" /\ subscriptions'[h.socket][h.query] = None
               /\ \A g \in handlers' : g.socket = h.socket /\ g.query = h.query => g = h
               /\ \A c \in callbacks' : c.socket = h.socket /\ c.query = h.query =>
                    c.id = h.id /\ h.stage = "reading"
    <3>1. CASE h = h0
      BY <2>1, <2>2, <2>3, <2>4, <3>1
    <3>2. CASE h \in handlers
      BY <2>1, <2>2, <2>3, <3>2 DEF Tidy
    <3>3. QED
      BY <2>1, <3>1, <3>2
  <2>7. QED
    BY <2>1, <2>2, <2>5, <2>6 DEF Tidy
<1>2. ASSUME NEW s \in Socket, Unsubscribe(s) PROVE Tidy'
  <2> DEFINE q0 == Head(up[s]).query
  <2>1. /\ UNCHANGED <<conn, handlers>>
        /\ callbacks' = {c \in callbacks : c.id # subscriptions[s][q0]}
        /\ subscriptions' = [subscriptions EXCEPT ![s][q0] = None]
        /\ crossed' = (crossed \/ Handling(s, q0))
    BY <1>2 DEF Unsubscribe
  <2>2. q0 \in Query
    BY <1>2, DropTypes DEF Unsubscribe, Msg
  <2>3. ~crossed /\ ~Handling(s, q0)
    BY <2>1, Zenon
  <2> HIDE DEF q0
  <2>4. \A t \in Socket, r \in Query :
          subscriptions'[t][r] = IF t = s /\ r = q0 THEN None ELSE subscriptions[t][r]
    BY <1>a, <2>1, <2>2, KeptTypes DEF None
  <2>5. \A c \in callbacks' : c \in callbacks /\ ~(c.socket = s /\ c.query = q0)
    BY <2>1, <2>3 DEF Tidy
  <2>6. \A t, q : Handling(t, q)' <=> Handling(t, q)
    BY <2>1 DEF Handling
  <2>7. QED
    BY <1>b, <2>1, <2>3, <2>4, <2>5, <2>6 DEF Tidy
<1>3. ASSUME NEW s \in Socket, ServerClose(s) PROVE Tidy'
  <2>1. /\ UNCHANGED <<handlers, subscriptions>>
        /\ callbacks' = {c \in callbacks : c.id \notin KeptBy(s)}
        /\ \A t \in Socket \ {s} : conn'[t] = conn[t]
        /\ crossed' = (crossed \/ \E q \in Query : Handling(s, q))
    BY <1>3, <1>a DEF ServerClose
  <2>2. ~crossed /\ \A q \in Query : ~Handling(s, q)
    BY <2>1, Zenon
  <2>3. \A h \in handlers : h.socket # s
    BY <1>b, <2>2 DEF Handling
  <2>4. \A c \in callbacks' : c \in callbacks /\ c.socket # s
    BY <1>b, <2>1, <2>2 DEF Tidy, KeptBy
  <2>5. \A t, q : Handling(t, q)' <=> Handling(t, q)
    BY <2>1 DEF Handling
  <2>6. QED
    BY <1>b, <2>1, <2>2, <2>3, <2>4, <2>5 DEF Tidy
<1>4. ASSUME NEW h \in handlers, Procedure(h) PROVE Tidy'
  <2>1. UNCHANGED <<conn, crossed>> /\ h.stage = "procedure" /\ ~crossed
    BY <1>4, ProcedureCases
  <2>2. /\ \A g \in handlers : g.socket = h.socket /\ g.query = h.query => g = h
        /\ \A c \in callbacks : ~(c.socket = h.socket /\ c.query = h.query)
        /\ conn[h.socket] = "open" /\ subscriptions[h.socket][h.query] = None
    BY <2>1 DEF Tidy
  <2>3. ASSUME NEW g \in Handler, NEW c \in Callback, Accepted(h, g, c) PROVE Tidy'
    <3>1. \A t, q : Handling(t, q)' <=> Handling(t, q)
      BY <2>3 DEF Accepted, Handling
    <3>2. Handling(h.socket, h.query)
      BY DEF Handling
    <3>3. ASSUME NEW k \in handlers'
          PROVE  /\ conn'[k.socket] = "open" /\ subscriptions'[k.socket][k.query] = None
                 /\ \A l \in handlers' : l.socket = k.socket /\ l.query = k.query => l = k
                 /\ \A d \in callbacks' : d.socket = k.socket /\ d.query = k.query =>
                      d.id = k.id /\ k.stage = "reading"
      <4>1. CASE k = g
        BY <2>1, <2>2, <2>3, <4>1 DEF Accepted
      <4>2. CASE k \in handlers \ {h}
        BY <2>1, <2>2, <2>3, <4>2 DEF Accepted, Tidy
      <4>3. QED
        BY <2>3, <4>1, <4>2 DEF Accepted
    <3>4. ASSUME NEW d \in callbacks'
          PROVE  /\ conn'[d.socket] = "open"
                 /\ Handling(d.socket, d.query)' \/ subscriptions'[d.socket][d.query] = d.id
      BY <2>1, <2>2, <2>3, <3>1, <3>2 DEF Accepted, Tidy
    <3>5. QED
      BY <3>3, <3>4 DEF Tidy
  <2>4. CASE Rejected(h) /\ UNCHANGED callbacks
    <3>1. handlers' = handlers \ {h} /\ UNCHANGED <<subscriptions, callbacks>>
      BY <2>4 DEF Rejected
    <3>2. \A c \in callbacks : Handling(c.socket, c.query) => Handling(c.socket, c.query)'
      BY <2>2, <3>1 DEF Handling
    <3>3. QED
      BY <2>1, <3>1, <3>2 DEF Tidy
  <2>5. QED
    BY <1>4, <2>3, <2>4, ProcedureCases
<1>5. ASSUME NEW h \in handlers, ReadBack(h) PROVE Tidy'
  <2>1. CASE Rejected(h) /\ crossed' = TRUE
    BY <2>1
  <2>2. CASE ~(Rejected(h) /\ crossed' = TRUE)
    <3>1. /\ UNCHANGED <<conn, callbacks, crossed>> /\ handlers' = handlers \ {h}
          /\ subscriptions' = [subscriptions EXCEPT ![h.socket][h.query] = h.id]
      BY <1>5, <2>2 DEF ReadBack
    <3>2. h.socket \in Socket /\ h.query \in Query /\ h.id \in Nat /\ ~crossed
      BY <3>1 DEF Types, Handler
    <3>3. \A t \in Socket, r \in Query :
            subscriptions'[t][r] = IF t = h.socket /\ r = h.query THEN h.id ELSE subscriptions[t][r]
      BY <1>a, <3>1, <3>2, KeptTypes
    <3>4. /\ \A g \in handlers' : ~(g.socket = h.socket /\ g.query = h.query)
          /\ \A c \in callbacks : c.socket = h.socket /\ c.query = h.query => c.id = h.id
      BY <3>1, <3>2 DEF Tidy
    <3>5. \A c \in callbacks : ~(c.socket = h.socket /\ c.query = h.query) =>
            (Handling(c.socket, c.query) => Handling(c.socket, c.query)')
      BY <3>1 DEF Handling
    <3>6. QED
      BY <1>b, <3>1, <3>2, <3>3, <3>4, <3>5 DEF Tidy
  <2>3. QED
    BY <2>1, <2>2
<1>6. QED
  BY <1>1, <1>2, <1>3, <1>4, <1>5 DEF ServerStep

LEMMA NextTidy ==
  ASSUME Types, Numbered, Tidy, [Next]_vars
  PROVE  Tidy'
<1>1. ASSUME UNCHANGED <<handlers, callbacks, subscriptions, crossed>>,
             \A s \in Socket : conn[s] = "open" => conn'[s] = "open"
      PROVE  Tidy'
  <2>1. /\ \A h \in handlers : h.socket \in Socket
        /\ \A c \in callbacks : c.socket \in Socket
    BY NumbersOf
  <2>2. \A t, q : Handling(t, q)' <=> Handling(t, q)
    BY <1>1 DEF Handling
  <2>3. QED
    BY <1>1, <2>1, <2>2 DEF Tidy
<1>2. CASE Quiet
  BY <1>1, <1>2, QuietTypes DEF Quiet
<1>3. ASSUME NEW s \in Socket, Open(s) PROVE Tidy'
  BY <1>1, <1>3 DEF Open, Types, TypeOK
<1>4. ASSUME NEW q \in Query, Load(q) \/ Unload(q) PROVE Tidy'
  BY <1>1, <1>4 DEF Load, Unload, server
<1>5. CASE UNCHANGED vars
  BY <1>1, <1>5 DEF vars, server
<1>6. QED
  BY <1>2, <1>3, <1>4, <1>5, Steps, ServerTidy

-----------------------------------------------------------------------------
(* What is loaded is asked for and served.                                 *)

Wired == Connected /\ link[ws] = "up"

\* The messages on their way and what the server has agree with the page: the last
\* message says whether the query is loaded, and where there is none the server
\* has what the page wants.
Loaded(q) ==
  counter[q] > 0 =>
    \/ Ends(up[ws], q, "SUBSCRIBE")
    \/ /\ Never(up[ws], q, "UNSUBSCRIBE")
       /\ Handling(ws, q) \/ HeldFor(ws, q) \/ q \in refused[ws]
Left(q) ==
  ~crossed /\ counter[q] = 0 =>
    \/ Ends(up[ws], q, "UNSUBSCRIBE")
    \/ Never(up[ws], q, "SUBSCRIBE") /\ ~Handling(ws, q) /\ ~HeldFor(ws, q)
Followed == Wired => \A q \in Query : Loaded(q) /\ Left(q)

LEMMA WiredSocket ==
  ASSUME Types, Wired
  PROVE  ws \in Socket /\ up[ws] \in Seq(Msg)
BY DEF Types, TypeOK, Wired, Connected

\* As long as nothing is sent and the server stays as it is.
LEMMA StillFollowed ==
  ASSUME Followed, Wired' => Wired /\ ws' = ws,
         UNCHANGED <<counter, up, handlers, callbacks, refused, crossed>>
  PROVE  Followed'
<1>1. ws' = ws => \A q \in Query : /\ Handling(ws, q)' <=> Handling(ws, q)
                                   /\ HeldFor(ws, q)' <=> HeldFor(ws, q)
  BY DEF Handling, HeldFor
<1>2. QED
  BY <1>1 DEF Followed, Loaded, Left

LEMMA QuietFollowed ==
  ASSUME Types, Followed, Quiet
  PROVE  Followed'
<1>a. /\ ws \in Socket \cup {None} /\ sock \in [Socket -> SocketState]
      /\ link \in [Socket -> {"none", "up", "down"}]
      /\ \A s \in Socket : s # None
  BY DEF Types, TypeOK, Socket, None
<1>b. UNCHANGED <<counter, up, handlers, callbacks, refused, crossed>>
  BY QuietTypes DEF Quiet
<1> DEFINE Local == Wired' => Wired /\ ws' = ws
<1>1. ASSUME Connect \/ TimerFires \/ NoCredentials PROVE Local
  BY <1>1 DEF Connect, TimerFires, NoCredentials, wires, Wired, Connected
<1>2. ASSUME Disconnect PROVE Local
  BY <1>2 DEF Disconnect, Wired, Connected
<1>3. ASSUME NewSocket PROVE Local
  BY <1>3, <1>a DEF NewSocket, Wired, Connected
<1>4. ASSUME NEW s \in Socket, CloseEvent(s) \/ Refused(s) PROVE Local
  BY <1>4, <1>a DEF CloseEvent, Refused, Closed, wires, Wired, Connected
<1>5. ASSUME NEW s \in Socket, Unexpected(s) PROVE Local
  BY <1>5 DEF Unexpected, Wired, Connected
<1>6. ASSUME NEW s \in Socket, Lost(s) PROVE Local
  BY <1>6, <1>a DEF Lost, wrapper, Wired, Connected
<1>7. Local
  BY <1>1, <1>2, <1>3, <1>4, <1>5, <1>6 DEF Quiet
<1>8. QED
  BY <1>b, <1>7, StillFollowed

\* A connection that opens asks for what is loaded, whichever socket it is.
LEMMA OpenFollowed ==
  ASSUME Types, Unopened, Followed, NEW s \in Socket, Open(s)
  PROVE  Followed'
<1> SUFFICES ASSUME Wired' PROVE \A q \in Query : Loaded(q)' /\ Left(q)'
  BY DEF Followed
<1>1. /\ UNCHANGED <<ws, counter, handlers, callbacks, refused, crossed>>
      /\ sock[s] = "connecting"
      /\ \A t \in Socket \ {s} : sock'[t] = sock[t] /\ link'[t] = link[t]
  BY DEF Open, Types, TypeOK
<1>2. ws \in Socket /\ up[ws] \in Seq(Msg)
  BY <1>1 DEF Types, TypeOK, Wired, Connected
<1>3. up'[ws] = up[ws] \o Asking
  BY <1>1, <1>2, OpenTypes DEF Wired
<1>4. /\ Asking \in Seq(Msg)
      /\ \A i \in 1..Len(Asking) : Asking[i].type = "SUBSCRIBE" /\ counter[Asking[i].query] > 0
      /\ \A q \in Query : counter[q] > 0 => \E i \in 1..Len(Asking) : Asking[i].query = q
  BY AskingMessages
<1>5. \A q \in Query : /\ Handling(ws, q)' <=> Handling(ws, q)
                       /\ HeldFor(ws, q)' <=> HeldFor(ws, q)
  BY <1>1 DEF Handling, HeldFor
<1> HIDE DEF Asking
<1>6. ASSUME NEW q \in Query, counter[q] > 0 PROVE Ends(up'[ws], q, "SUBSCRIBE")
  BY <1>2, <1>3, <1>4, <1>6, JoinEnds DEF Kind
<1>7. ASSUME NEW q \in Query, counter[q] = 0, ~crossed
      PROVE  \/ Ends(up'[ws], q, "UNSUBSCRIBE")
             \/ Never(up'[ws], q, "SUBSCRIBE") /\ ~Handling(ws, q) /\ ~HeldFor(ws, q)
  <2>1. \A i \in 1..Len(Asking) : Asking[i].query # q
    BY <1>4, <1>7
  <2>2. /\ Ends(up[ws], q, "UNSUBSCRIBE") => Ends(up'[ws], q, "UNSUBSCRIBE")
        /\ Never(up[ws], q, "SUBSCRIBE") => Never(up'[ws], q, "SUBSCRIBE")
    BY <1>2, <1>3, <1>4, <2>1, JoinEnds DEF Kind
  <2>3. CASE s = ws
    <3>1. /\ up[ws] = <<>> /\ ~Handling(ws, q) /\ ~HeldFor(ws, q)
      BY <1>1, <2>3 DEF Unopened, Handling, HeldFor
    <3>2. Never(up[ws], q, "SUBSCRIBE")
      BY <3>1 DEF Never
    <3>3. QED
      BY <2>2, <3>1, <3>2
  <2>4. CASE s # ws
    <3>1. Wired
      BY <1>1, <1>2, <2>4 DEF Wired, Connected
    <3>2. QED
      BY <1>7, <2>2, <3>1 DEF Followed, Left
  <2>5. QED
    BY <2>3, <2>4
<1>8. QED
  BY <1>1, <1>5, <1>6, <1>7 DEF Loaded, Left

\* One message is sent, about a query that is then loaded, or left.
LEMMA SentFollowed ==
  ASSUME Types, Followed, NEW m \in Msg, up' = Sent(<<m>>),
         UNCHANGED <<ws, sock, link, handlers, callbacks, refused, crossed>>,
         \A q \in Query : q # m.query => counter'[q] = counter[q],
         m.type = "SUBSCRIBE" => counter'[m.query] # 0,
         m.type = "UNSUBSCRIBE" => counter'[m.query] = 0,
         counter' \in [Query -> Nat]
  PROVE  Followed'
<1> SUFFICES ASSUME Wired' PROVE \A q \in Query : Loaded(q)' /\ Left(q)'
  BY DEF Followed
<1>1. Wired /\ ws \in Socket /\ up[ws] \in Seq(Msg)
  BY WiredSocket DEF Wired, Connected
<1>2. /\ <<m>> \in Seq(Msg) /\ Len(<<m>>) = 1 /\ 1 \in 1..Len(<<m>>)
      /\ \A i \in 1..Len(<<m>>) : <<m>>[i] = m
  BY OneMessage
<1>3. up'[ws] = up[ws] \o <<m>>
  BY <1>1, <1>2, SentMessages DEF Wired
<1>4. \A q \in Query : /\ Handling(ws, q)' <=> Handling(ws, q)
                       /\ HeldFor(ws, q)' <=> HeldFor(ws, q)
  BY DEF Handling, HeldFor
<1>5. m.type \in Kind /\ m.query \in Query
  BY DEF Msg
<1>6. Ends(up'[ws], m.query, m.type)
  BY <1>1, <1>2, <1>3, <1>5, JoinEnds
<1>7. ASSUME NEW q \in Query, q # m.query PROVE Loaded(q)' /\ Left(q)'
  <2>0. /\ \A i \in 1..Len(<<m>>) : <<m>>[i].query # q
        /\ \A i \in 1..Len(<<m>>) : <<m>>[i].type = m.type
    BY <1>2, <1>7
  <2>1. \A k \in Kind : /\ Ends(up[ws], q, k) => Ends(up'[ws], q, k)
                        /\ Never(up[ws], q, k) => Never(up'[ws], q, k)
    BY <1>1, <1>2, <1>3, <1>5, <2>0, JoinEnds
  <2>2. Loaded(q) /\ Left(q)
    BY <1>1 DEF Followed
  <2>3. QED
    BY <1>4, <1>7, <2>1, <2>2 DEF Loaded, Left, Kind
<1>8. ASSUME NEW q \in Query, q = m.query PROVE Loaded(q)' /\ Left(q)'
  <2>1. counter'[q] \in Nat
    OBVIOUS
  <2>2. CASE m.type = "SUBSCRIBE"
    BY <1>6, <1>8, <2>1, <2>2 DEF Loaded, Left
  <2>3. CASE m.type = "UNSUBSCRIBE"
    BY <1>6, <1>8, <2>1, <2>3 DEF Loaded, Left
  <2>4. QED
    BY <1>5, <2>2, <2>3 DEF Kind
<1>9. QED
  BY <1>7, <1>8

LEMMA LoadFollowed ==
  ASSUME Types, Followed, NEW q \in Query, Load(q)
  PROVE  Followed'
<1> DEFINE m == Message("SUBSCRIBE", q, messages + 1)
<1>1. m \in Msg /\ m.type = "SUBSCRIBE" /\ m.query = q
  BY DEF Types, Message, Msg, Kind
<1>2. up' = Sent(<<m>>) /\ UNCHANGED <<ws, sock, link, handlers, callbacks, refused, crossed>>
  BY DEF Load, wrapper, server
<1>3. counter' \in [Query -> Nat] /\ counter'[q] # 0 /\ \A r \in Query : r # q => counter'[r] = counter[r]
  BY DEF Load, Types, TypeOK
<1> HIDE DEF m
<1>4. QED
  BY <1>1, <1>2, <1>3, SentFollowed

LEMMA UnloadFollowed ==
  ASSUME Types, Followed, NEW q \in Query, Unload(q)
  PROVE  Followed'
<1> DEFINE m == Message("UNSUBSCRIBE", q, None)
<1>1. m \in Msg /\ m.type = "UNSUBSCRIBE" /\ m.query = q
  BY DEF Message, Msg, Kind, None
<1>2. UNCHANGED <<ws, sock, link, handlers, callbacks, refused, crossed>>
  BY DEF Unload, wrapper, server
<1>3. /\ counter' \in [Query -> Nat] /\ counter \in [Query -> Nat]
      /\ counter'[q] = counter[q] - 1 /\ counter[q] > 0
      /\ \A r \in Query : r # q => counter'[r] = counter[r]
  BY DEF Unload, Types, TypeOK
<1>4. CASE Leaves(q)
  <2>1. up' = Sent(<<m>>) /\ counter'[q] = 0
    BY <1>3, <1>4 DEF Unload, Leaves
  <2> HIDE DEF m
  <2>2. QED
    BY <1>1, <1>2, <1>3, <2>1, SentFollowed
<1>5. CASE ~Leaves(q)
  <2>1. UNCHANGED up /\ counter'[q] > 0
    BY <1>3, <1>5 DEF Unload, Leaves
  <2>2. \A r \in Query : counter'[r] > 0 => counter[r] > 0
    BY <1>3
  <2>3. \A r \in Query : counter'[r] = 0 => counter[r] = 0
    BY <1>3, <2>1
  <2>4. \A r \in Query : /\ Handling(ws, r)' <=> Handling(ws, r)
                         /\ HeldFor(ws, r)' <=> HeldFor(ws, r)
    BY <1>2 DEF Handling, HeldFor
  <2>5. Wired' <=> Wired
    BY <1>2 DEF Wired, Connected
  <2>6. QED
    BY <1>2, <2>1, <2>2, <2>3, <2>4, <2>5 DEF Followed, Loaded, Left
<1>6. QED
  BY <1>4, <1>5

LEMMA ServerFollowed ==
  ASSUME Types, Numbered, Tidy, Followed, ServerStep
  PROVE  Followed'
<1> SUFFICES ASSUME Wired' PROVE \A q \in Query : Loaded(q)' /\ Left(q)'
  BY DEF Followed
<1>a. UNCHANGED <<ws, sock, link, counter>>
  BY ServerTypes
<1>b. /\ Wired /\ ws \in Socket /\ up[ws] \in Seq(Msg)
      /\ \A q \in Query : Loaded(q) /\ Left(q)
  BY <1>a, WiredSocket DEF Wired, Connected, Followed
<1>c. ~crossed' => ~crossed
  <2>1. ASSUME NEW s \in Socket, Subscribe(s) PROVE ~crossed' => ~crossed
    BY <2>1, Zenon DEF Subscribe
  <2>2. ASSUME NEW s \in Socket, Unsubscribe(s) PROVE ~crossed' => ~crossed
    BY <2>2, Zenon DEF Unsubscribe
  <2>3. ASSUME NEW s \in Socket, ServerClose(s) PROVE ~crossed' => ~crossed
    BY <2>3, Zenon DEF ServerClose
  <2>4. ASSUME NEW h \in handlers, Procedure(h) PROVE ~crossed' => ~crossed
    BY <2>4, ProcedureCases
  <2>5. ASSUME NEW h \in handlers, ReadBack(h) PROVE ~crossed' => ~crossed
    <3>1. crossed' = TRUE \/ crossed' = crossed
      BY <2>5 DEF ReadBack
    <3>2. QED
      BY <3>1
  <2>6. QED
    BY <2>1, <2>2, <2>3, <2>4, <2>5 DEF ServerStep
<1>1. ASSUME NEW s \in Socket, Subscribe(s), NEW q \in Query PROVE Loaded(q)' /\ Left(q)'
  <2> DEFINE u == up[s]
             m == Head(u)
             h0 == [id |-> m.id, socket |-> s, query |-> m.query, stage |-> "procedure"]
  <2>1. /\ u \in Seq(Msg) /\ u # <<>> /\ m.type = "SUBSCRIBE" /\ m.query \in Query
        /\ up'[s] = Tail(u) /\ \A t \in Socket \ {s} : up'[t] = up[t]
        /\ handlers' = handlers \cup {h0} /\ h0.socket = s /\ h0.query = m.query
        /\ UNCHANGED <<callbacks, refused>>
    BY <1>1, DropTypes DEF Subscribe, Types, Msg
  <2> HIDE DEF h0
  <2>2. \A t, r : /\ Handling(t, r)' <=> Handling(t, r) \/ (t = s /\ r = m.query)
                  /\ HeldFor(t, r)' <=> HeldFor(t, r)
    BY <2>1 DEF Handling, HeldFor
  <2>3. CASE s = ws
    <3>1. /\ \A k \in Kind : Never(u, q, k) => Never(Tail(u), q, k)
          /\ Ends(u, q, "UNSUBSCRIBE") => Ends(Tail(u), q, "UNSUBSCRIBE")
          /\ Ends(u, q, "SUBSCRIBE") =>
               Ends(Tail(u), q, "SUBSCRIBE") \/ (m.query = q /\ Never(Tail(u), q, "UNSUBSCRIBE"))
      BY <2>1, TailEnds DEF Kind
    <3>2. Never(u, q, "SUBSCRIBE") => m.query # q
      BY <2>1, TailElements DEF Never
    <3>3. Loaded(q)'
      BY <1>a, <1>b, <2>1, <2>2, <2>3, <3>1 DEF Loaded, Kind
    <3>4. Left(q)'
      BY <1>a, <1>b, <1>c, <2>1, <2>2, <2>3, <3>1, <3>2 DEF Left, Kind
    <3>5. QED
      BY <3>3, <3>4
  <2>4. CASE s # ws
    BY <1>a, <1>b, <1>c, <2>1, <2>2, <2>4 DEF Loaded, Left
  <2>5. QED
    BY <2>3, <2>4
<1>2. ASSUME NEW s \in Socket, Unsubscribe(s), NEW q \in Query PROVE Loaded(q)' /\ Left(q)'
  <2>0. /\ up[s] \in Seq(Msg) /\ up[s] # <<>> /\ Head(up[s]).type = "UNSUBSCRIBE"
        /\ Head(up[s]).query \in Query
        /\ up'[s] = Tail(up[s]) /\ \A t \in Socket \ {s} : up'[t] = up[t]
        /\ UNCHANGED <<handlers, refused>>
        /\ callbacks' = {c \in callbacks : c.id # subscriptions[s][Head(up[s]).query]}
        /\ crossed' = (crossed \/ Handling(s, Head(up[s]).query))
    BY <1>2, DropTypes DEF Unsubscribe, Types, Msg
  <2>a. PICK u \in Seq(Msg), q0 \in Query : u = up[s] /\ q0 = Head(u).query
    BY <2>0
  <2>1. /\ u # <<>> /\ Head(u).type = "UNSUBSCRIBE"
        /\ up'[s] = Tail(u) /\ \A t \in Socket \ {s} : up'[t] = up[t]
        /\ UNCHANGED <<handlers, refused>>
        /\ callbacks' = {c \in callbacks : c.id # subscriptions[s][q0]}
        /\ crossed' = (crossed \/ Handling(s, q0))
    BY <2>0, <2>a, Zenon
  <2>2. \A t, r : /\ Handling(t, r)' <=> Handling(t, r)
                  /\ HeldFor(t, r)' => HeldFor(t, r)
    BY <2>1 DEF Handling, HeldFor
  <2>3. \A t, r : HeldFor(t, r) => HeldFor(t, r)' \/ (t = s /\ r = q0)
    BY <2>1, NumbersOf DEF HeldFor
  <2>4. CASE s = ws
    <3>1. /\ \A k \in Kind : Never(u, q, k) => Never(Tail(u), q, k)
          /\ Ends(u, q, "SUBSCRIBE") => Ends(Tail(u), q, "SUBSCRIBE")
          /\ Ends(u, q, "UNSUBSCRIBE") =>
               Ends(Tail(u), q, "UNSUBSCRIBE") \/ (q0 = q /\ Never(Tail(u), q, "SUBSCRIBE"))
      BY <2>1, <2>a, TailEnds DEF Kind
    <3>2. Never(u, q, "UNSUBSCRIBE") => q0 # q
      BY <2>1, <2>a, TailElements DEF Never
    <3>3. ASSUME ~crossed' PROVE ~Handling(s, q0)' /\ ~HeldFor(s, q0)'
      <4>1. ~crossed /\ ~Handling(s, q0)
        BY <2>1, <3>3, Zenon
      <4>2. ASSUME NEW c \in callbacks', c.socket = s, c.query = q0 PROVE FALSE
        <5>1. c \in callbacks /\ c.id # subscriptions[s][q0]
          BY <2>1, <4>2
        <5>2. Handling(c.socket, c.query) \/ subscriptions[c.socket][c.query] = c.id
          BY <4>1, <5>1 DEF Tidy
        <5>3. QED
          BY <4>1, <4>2, <5>1, <5>2
      <4>3. ~Handling(s, q0)'
        BY <2>2, <4>1
      <4>4. QED
        BY <4>2, <4>3 DEF HeldFor
    <3>4. Loaded(q)'
      BY <1>a, <1>b, <2>1, <2>a, <2>2, <2>3, <2>4, <3>1, <3>2 DEF Loaded, Kind
    <3>5. Left(q)'
      BY <1>a, <1>b, <1>c, <2>1, <2>a, <2>2, <2>4, <3>1, <3>3 DEF Left, Kind
    <3>6. QED
      BY <3>4, <3>5
  <2>5. CASE s # ws
    BY <1>a, <1>b, <1>c, <2>1, <2>2, <2>3, <2>5 DEF Loaded, Left
  <2>6. QED
    BY <2>4, <2>5
<1>3. ASSUME NEW s \in Socket, ServerClose(s), NEW q \in Query PROVE Loaded(q)' /\ Left(q)'
  <2>1. /\ UNCHANGED <<handlers, refused>> /\ link[s] = "down"
        /\ callbacks' = {c \in callbacks : c.id \notin KeptBy(s)}
        /\ \A t \in Socket \ {s} : up'[t] = up[t]
    BY <1>3 DEF ServerClose, Types
  <2>2. s # ws /\ up'[ws] = up[ws]
    BY <1>b, <2>1 DEF Wired
  <2>3. \A r : /\ Handling(ws, r)' <=> Handling(ws, r)
               /\ HeldFor(ws, r)' <=> HeldFor(ws, r)
    BY <1>a, <2>1, <2>2, NumbersOf DEF Handling, HeldFor, KeptBy
  <2>4. QED
    BY <1>a, <1>b, <1>c, <2>1, <2>2, <2>3 DEF Loaded, Left
<1>4. ASSUME NEW h \in handlers, Procedure(h), NEW q \in Query PROVE Loaded(q)' /\ Left(q)'
  <2>0. UNCHANGED up
    BY <1>4, ProcedureCases
  <2>1. ASSUME NEW g \in Handler, NEW c \in Callback, Accepted(h, g, c)
        PROVE  Loaded(q)' /\ Left(q)'
    <3>1. \A t, r : /\ Handling(t, r)' <=> Handling(t, r)
                    /\ HeldFor(t, r) => HeldFor(t, r)'
                    /\ HeldFor(t, r)' => HeldFor(t, r) \/ Handling(t, r)
      BY <2>1 DEF Accepted, Handling, HeldFor
    <3>2. QED
      BY <1>a, <1>b, <1>c, <2>0, <2>1, <3>1 DEF Accepted, Loaded, Left
  <2>2. CASE Rejected(h) /\ UNCHANGED callbacks
    <3>1. \A t, r : /\ Handling(t, r)' => Handling(t, r)
                    /\ Handling(t, r) => Handling(t, r)' \/ (t = h.socket /\ r = h.query)
                    /\ HeldFor(t, r)' <=> HeldFor(t, r)
      BY <2>2 DEF Rejected, Handling, HeldFor
    <3>2. h.query \in refused'[h.socket] /\ \A t \in Socket : refused[t] \subseteq refused'[t]
      BY <2>2, RejectedTypes
    <3>3. QED
      BY <1>a, <1>b, <1>c, <2>0, <3>1, <3>2 DEF Loaded, Left
  <2>3. QED
    BY <1>4, <2>1, <2>2, ProcedureCases
<1>5. ASSUME NEW h \in handlers, ReadBack(h), NEW q \in Query PROVE Loaded(q)' /\ Left(q)'
  <2>1. UNCHANGED <<up, callbacks>> /\ handlers' = handlers \ {h} /\ h.stage = "reading"
    BY <1>5 DEF ReadBack, Rejected, wires
  <2>2. HeldFor(h.socket, h.query)
    BY <2>1 DEF Numbered, Places, Holds, HeldFor
  <2>3. \A t, r : /\ Handling(t, r)' => Handling(t, r)
                  /\ Handling(t, r) => Handling(t, r)' \/ HeldFor(t, r)'
                  /\ HeldFor(t, r)' <=> HeldFor(t, r)
    BY <2>1, <2>2 DEF Handling, HeldFor
  <2>4. \A t \in Socket : refused[t] \subseteq refused'[t]
    BY <1>5, RejectedTypes DEF ReadBack
  <2>5. QED
    BY <1>a, <1>b, <1>c, <2>1, <2>3, <2>4 DEF Loaded, Left
<1>6. QED
  BY <1>1, <1>2, <1>3, <1>4, <1>5 DEF ServerStep

LEMMA NextFollowed ==
  ASSUME Types, Unopened, Numbered, Tidy, Followed, [Next]_vars
  PROVE  Followed'
<1>1. CASE UNCHANGED vars
  <2>1. Wired' => Wired /\ ws' = ws
    BY <1>1 DEF vars, wrapper, wires, Wired, Connected
  <2>2. QED
    BY <1>1, <2>1, StillFollowed DEF vars, wires, server
<1>2. QED
  BY <1>1, Steps, QuietFollowed, OpenFollowed, LoadFollowed, UnloadFollowed, ServerFollowed

-----------------------------------------------------------------------------
(* The theorems.                                                           *)

IInv == Types /\ Alone /\ Dismissed /\ Unopened /\ Numbered /\ Tidy /\ Followed

LEMMA InitIInv == Init => IInv
<1> SUFFICES ASSUME Init PROVE IInv
  OBVIOUS
<1>1. Types
  BY InitTypes
<1>2. Alone /\ Dismissed
  BY DEF Init, Alone, Dismissed, Live
<1>3. Unopened
  BY DEF Init, Unopened
<1>4. /\ \A s \in Socket, q \in Query, n \in Nat :
           ~Asks(up[s], q, n) /\ ~Handles(s, q, n) /\ ~Holds(s, q, n) /\ ~Keeps(s, q, n)
      /\ \A s \in Socket : Distinct(up[s])
  BY DEF Init, Asks, Handles, Holds, Keeps, Distinct
<1>5. Numbered
  BY <1>4 DEF Init, Numbered, Named, Places, Names
<1>6. Tidy
  BY DEF Init, Tidy
<1>7. Followed
  BY DEF Init, Followed, Wired, Connected
<1>8. QED
  BY <1>1, <1>2, <1>3, <1>5, <1>6, <1>7 DEF IInv

LEMMA AlwaysIInv == Spec => []IInv
<1>1. IInv /\ [Next]_vars => IInv'
  BY NextTypes, NextAlone, NextDismissed, NextUnopened, NextNumbered, NextTidy, NextFollowed DEF IInv
<1>2. QED
  BY <1>1, InitIInv, PTL DEF Spec

\* Every reachable state of a session has its type.
THEOREM TypeCorrect == Spec => []TypeOK
<1>1. IInv => TypeOK
  BY DEF IInv, Types
<1>2. QED
  BY <1>1, AlwaysIInv, PTL

\* However connects, timers, refusals and breaks interleave, a client has one
\* socket at a time as long as connect and disconnect are not called during
\* connect's await (WebSocketClient.connect), and once it has disconnected none,
\* if there was no timer but the one in reconnectTimer (WebSocketClient.disconnect).
THEOREM AlwaysOneSocket == Spec => []OneSocket
<1>1. IInv => OneSocket
  BY DEF IInv, Types, Alone, Dismissed, OneSocket
<1>2. QED
  BY <1>1, AlwaysIInv, PTL

\* For any queries, loads, unloads and connections: on a connection that carries
\* messages each loaded query is served, being asked for, or was rejected
\* (InnerClient's load, unload and resubscribe; handleCustomQuery).
THEOREM LoadedAlwaysServed == Spec => []LoadedIsServed
<1>1. ASSUME IInv, NEW q \in Query, Wired, counter[q] > 0
      PROVE  \/ \E i \in DOMAIN up[ws] : up[ws][i].query = q
             \/ Handling(ws, q) \/ HeldFor(ws, q) \/ q \in refused[ws]
  BY <1>1 DEF IInv, Followed, Loaded, Ends
<1>2. IInv => LoadedIsServed
  BY <1>1 DEF LoadedIsServed, Wired
<1>3. QED
  BY <1>2, AlwaysIInv, PTL

\* The engine is left with no callback of a closed connection or of a query that
\* nobody has loaded, unless messages crossed a SUBSCRIBE or its read threw
\* (web-socket.ts: the UNSUBSCRIBE and the close event).
THEOREM NeverLeavesCallback == Spec => []NoCallbackIsLeft
<1>1. ASSUME IInv, ~crossed, NEW c \in callbacks
      PROVE  /\ conn[c.socket] = "open"
             /\ Handling(c.socket, c.query) \/ subscriptions[c.socket][c.query] = c.id
  BY <1>1 DEF IInv, Tidy
<1>2. ASSUME IInv, ~crossed, NEW c \in callbacks,
             Connected /\ c.socket = ws /\ link[ws] = "up" /\ up[ws] = <<>>
      PROVE  counter[c.query] > 0
  <2>1. c.query \in Query /\ counter[c.query] \in Nat
    BY <1>2 DEF IInv, Types, TypeOK, Callback
  <2>2. Left(c.query) /\ HeldFor(ws, c.query) /\ ~Ends(up[ws], c.query, "UNSUBSCRIBE")
    BY <1>2, <2>1 DEF IInv, Followed, Wired, HeldFor, Ends
  <2>3. counter[c.query] # 0
    BY <1>2, <2>2 DEF Left
  <2>4. QED
    BY <2>1, <2>3
<1>3. IInv => NoCallbackIsLeft
  BY <1>1, <1>2 DEF NoCallbackIsLeft
<1>4. QED
  BY <1>3, AlwaysIInv, PTL
=============================================================================
