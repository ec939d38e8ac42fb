---------------------------- MODULE PgWireProofs ----------------------------
(***************************************************************************)
(* Proofs about PgWire, for any number of queries, rows and notices.       *)
(***************************************************************************)
EXTENDS PgWire, SequenceTheorems, TLAPS

-----------------------------------------------------------------------------
(* Types *)

Typed ==
    /\ client \in Client
    /\ server \in Server
    /\ up \in Seq(Requests)
    /\ down \in Seq(Replies)
    /\ peer \in {"open", "gone"}

\* Queries are counted from the first, and one that has ended has an outcome.
Numbered ==
    /\ client.req \in 0..MaxRequests
    /\ client.phase \in {"new", "auth", "sasl", "saslFinal", "authOk", "drain"}
          => client.req = 0
    /\ client.phase = "idle" /\ client.req > 0 => client.outcome # "none"

\* A message to the server belongs to a request, of[i], that the server has not
\* come to the end of; the next Sync ends it.
Belongs(of) ==
    /\ of \in [1..Len(up) -> Nat]
    /\ \A i \in 1..Len(up) :
          /\ server.req <= of[i] /\ of[i] <= client.req + 1
          /\ up[i] = Msg("Sync") => of[i] <= client.req
    /\ \A i, j \in 1..Len(up) : i < j =>
          of[i] <= of[j] /\ (up[i] = Msg("Sync") => of[i] < of[j])

\* The server is never ahead of the client.
Queued ==
    /\ server.req \in Nat /\ 1 <= server.req /\ server.req <= client.req + 1
    /\ \E of : Belongs(of)

-----------------------------------------------------------------------------
(* Messages *)

\* The request that query() sends, and what is left of it.
Request1 == <<Msg("Parse"), Msg("Bind"), Msg("Describe"), Msg("Execute"), Msg("Sync")>>
Request2 == <<Msg("Bind"), Msg("Describe"), Msg("Execute"), Msg("Sync")>>
Request3 == <<Msg("Describe"), Msg("Execute"), Msg("Sync")>>
Request4 == <<Msg("Execute"), Msg("Sync")>>
Request5 == <<Msg("Sync")>>

\* Messages are told apart by their tags.
LEMMA MsgFacts ==
    ASSUME NEW t
    PROVE  /\ Msg(t).tag = t
           /\ \A u : Msg(t) = Msg(u) <=> t = u
  BY DEF Msg

\* A reply has the parts its tag announces.
LEMMA ReplyFacts ==
    ASSUME NEW d \in Replies
    PROVE  /\ d.tag \in {"1", "2", "T", "n", "E", "Z", "S", "K", "N", "R", "D", "C"}
           /\ d.tag = "D" => d = DataRow(d.req, d.row, d.len)
                             /\ d.req \in Nat /\ d.row \in Nat /\ d.len \in FieldLengths
           /\ d.tag = "C" => d.count \in Nat
  BY DEF Replies, DataRow

\* The replies the server makes are replies.
LEMMA ReplyTypes ==
    /\ \A t \in {"1", "2", "T", "n", "E", "Z", "S", "K", "N"} : Msg(t) \in Replies
    /\ \A t \in {"Ok", "CleartextPassword", "MD5Password", "SASL", "SASLContinue",
                 "SASLFinal"} : Auth(t) \in Replies
    /\ \A r, k \in Nat : \A l \in FieldLengths : DataRow(r, k, l) \in Replies
    /\ \A n \in Nat : CommandComplete(n) \in Replies
  BY DEF Replies, Msg, Auth, DataRow, CommandComplete

\* So are the requests of the client.
LEMMA RequestTypes ==
    /\ \A t \in {"Startup", "p", "Parse", "Bind", "Describe", "Execute", "Sync", "X"} :
          Msg(t) \in Requests
    /\ Request1 \in Seq(Requests)
  <1>1. \A t \in {"Startup", "p", "Parse", "Bind", "Describe", "Execute", "Sync", "X"} :
            Msg(t) \in Requests
    BY DEF Requests, Msg
  <1> QED BY <1>1 DEF Request1

\* What is left of a request when the server has taken a message of it.
LEMMA RequestFacts ==
    /\ Head(Request1) = Msg("Parse")    /\ Tail(Request1) = Request2
    /\ Head(Request2) = Msg("Bind")     /\ Tail(Request2) = Request3
    /\ Head(Request3) = Msg("Describe") /\ Tail(Request3) = Request4
    /\ Head(Request4) = Msg("Execute")  /\ Tail(Request4) = Request5
    /\ Head(Request5) = Msg("Sync")     /\ Tail(Request5) = <<>>
  BY DEF Request1, Request2, Request3, Request4, Request5

\* A parsed row is a row.
LEMMA ParsedFacts ==
    ASSUME NEW r \in Nat, NEW k \in Nat, NEW l \in FieldLengths
    PROVE  _parseDataRow(DataRow(r, k, l)) \in Row /\ ResultRow(r, k, l) \in Row
  BY WireAssumption DEF DataRow, _parseDataRow, ResultRow, Row, NULL
-----------------------------------------------------------------------------
(* Every variable keeps its type *)

\* What the client sends.
LEMMA SentFacts ==
    ASSUME Typed, NEW ms \in Seq(Requests)
    PROVE  Sent(ms) \in Seq(Requests)
  BY ConcatProperties DEF Sent, Typed

\* What the client receives.
LEMMA ReceivedFacts ==
    ASSUME Typed, Received
    PROVE  /\ m \in Replies /\ Tail(down) \in Seq(Replies)
           /\ Len(down) \in Nat \ {0} /\ m = down[1]
           /\ Len(Tail(down)) = Len(down) - 1
           /\ \A i \in 1..(Len(down) - 1) : Tail(down)[i] = down[i + 1]
  BY HeadTailProperties, EmptySeq, LenProperties DEF Typed, Received, m

\* The client's steps keep the types.
LEMMA ClientTyped ==
    ASSUME Typed, ClientStep \/ query \/ QuerySendThrows \/ close
    PROVE  Typed'
  <1>1. /\ client \in Client /\ server \in Server /\ up \in Seq(Requests)
        /\ down \in Seq(Replies) /\ peer \in {"open", "gone"}
    BY DEF Typed
  <1>2. CASE Connect
    <2>1. <<Msg("Startup")>> \in Seq(Requests)
      BY RequestTypes
    <2> QED BY <1>1, <1>2, <2>1, SentFacts DEF Connect, Typed, Client, Phases
  <1>3. CASE _authenticate
    <2>1. PICK t \in AuthTransitions : /\ client' = [client EXCEPT !.phase = t.to]
                                       /\ up' = Sent(t.reply)
      BY <1>3 DEF _authenticate
    <2>2. t.to \in Phases /\ t.reply \in {<<>>, <<Msg("p")>>}
      BY DEF AuthTransitions, Phases
    <2>3. t.reply \in Seq(Requests)
      <3>1. Msg("p") \in Requests
        BY RequestTypes
      <3>2. <<Msg("p")>> \in Seq(Requests) /\ <<>> \in Seq(Requests)
        BY <3>1
      <3> QED BY <2>2, <3>2
    <2>4. Tail(down) \in Seq(Replies)
      BY <1>3, ReceivedFacts DEF _authenticate
    <2>5. client' \in Client
      BY <1>1, <2>1, <2>2 DEF Client
    <2> QED BY <1>1, <1>3, <2>1, <2>3, <2>4, <2>5, SentFacts DEF _authenticate, Typed
  <1>4. CASE ConstructorThrows
    BY <1>1, <1>4 DEF ConstructorThrows, Typed, Client, Phases
  <1>5. CASE _drainToReady
    <2>1. Tail(down) \in Seq(Replies)
      BY <1>5, ReceivedFacts DEF _drainToReady
    <2> QED BY <1>1, <1>5, <2>1 DEF _drainToReady, Typed, Client, Phases
  <1>6. CASE QueryReads
    <2>1. m \in Replies /\ Tail(down) \in Seq(Replies)
      BY <1>6, ReceivedFacts DEF QueryReads
    <2>2. /\ m.tag = "D" => _parseDataRow(m) \in Row
          /\ m.tag = "C" => m.count \in Nat
      BY <2>1, ReplyFacts, ParsedFacts
    <2>3. m.tag = "D" => Append(client.rows, _parseDataRow(m)) \in Seq(Row)
      BY <1>1, <2>2, AppendProperties DEF Client
    <2>4. \/ client' = client
          \/ client' = [client EXCEPT !.columns = TRUE]
          \/ m.tag = "D" /\ client' = [client EXCEPT !.rows =
                                           Append(client.rows, _parseDataRow(m))]
          \/ m.tag = "C" /\ client' = [client EXCEPT !.count = m.count]
          \/ client' = [client EXCEPT !.phase = "drainError"]
      BY <1>1, <1>6 DEF QueryReads, Client
    <2>5. client' \in Client
      BY <1>1, <2>2, <2>3, <2>4 DEF Client, Phases
    <2> QED BY <1>1, <1>6, <2>1, <2>5 DEF QueryReads, Typed
  <1>7. CASE QueryReturns \/ QueryParseThrows \/ QueryDrains
    <2>1. Tail(down) \in Seq(Replies)
      BY <1>7, ReceivedFacts DEF QueryReturns, QueryParseThrows, QueryDrains
    <2> QED BY <1>1, <1>7, <2>1 DEF QueryReturns, QueryParseThrows, QueryDrains, Ends,
                                    Typed, Client, Phases
  <1>8. CASE QueryLosesConnection \/ QuerySendThrows
    <2>1. CASE QueryLosesConnection
      BY <1>1, <2>1 DEF QueryLosesConnection, Ends, Typed, Client, Phases
    <2>2. CASE QuerySendThrows
      <3>1. client.req \in Nat /\ client.req + 1 \in Nat
        BY <1>1 DEF Client
      <3>2. client' = [client EXCEPT !.req = client.req + 1, !.outcome = "threw"]
        BY <1>1, <2>2 DEF QuerySendThrows, Client
      <3>3. client' \in Client
        BY <1>1, <3>1, <3>2 DEF Client
      <3> QED BY <1>1, <2>2, <3>3 DEF QuerySendThrows, Typed
    <2> QED BY <1>8, <2>1, <2>2
  <1>9. CASE query
    <2>1. <<>> \in Seq(Row)
      BY EmptySeq
    <2>2. up' = Sent(Request1)
      BY <1>9 DEF query, Request1
    <2> QED BY <1>1, <1>9, <2>1, <2>2, SentFacts, RequestTypes
            DEF query, Typed, Client, Phases
  <1>10. CASE close
    <2>1. <<Msg("X")>> \in Seq(Requests)
      BY RequestTypes
    <2> QED BY <1>1, <1>10, <2>1, SentFacts DEF close, Typed, Client, Phases
  <1> QED BY <1>2, <1>3, <1>4, <1>5, <1>6, <1>7, <1>8, <1>9, <1>10 DEF ClientStep

\* The replies that carry rows whose values have these lengths, and the rows.
DataOf(lens) == [i \in 1..Len(lens) |-> DataRow(server.req, i, lens[i])]
RowsOf(lens) == [i \in 1..Len(lens) |-> ResultRow(server.req, i, lens[i])]

\* Execute has sent such rows and a last reply, and left the server in phase ph.
Executed(n, lens, ph, last) ==
    /\ n \in Nat /\ lens \in Seq(FieldLengths)
    /\ InServer("noRows") => lens = <<>>
    /\ \/ ph = "ready" /\ last = CommandComplete(n)
       \/ ph = "skip" /\ last = Msg("E")
    /\ DataOf(lens) \in Seq(Replies) /\ Len(DataOf(lens)) = Len(lens)
    /\ RowsOf(lens) \in Seq(Row) /\ Len(RowsOf(lens)) = Len(lens)
    /\ down' = (down \o DataOf(lens)) \o <<last>>
    /\ server' = [server EXCEPT !.phase = ph, !.count = n,
           !.nulls = server.nulls \/ \E i \in 1..Len(lens) : lens[i] = NULL,
           !.rows = RowsOf(lens)]

\* Execute ends with the number of rows or with an error.
LEMMA ExecuteFacts ==
    ASSUME Typed, ServerExecutes
    PROVE  \E n, lens, ph, last : Executed(n, lens, ph, last)
  <1>1. PICK z \in 0..MaxRows :
          \E lens \in IF InServer("rows") THEN [1..z -> FieldLengths] ELSE {<<>>} :
             \/ Produces(lens, "ready", z, CommandComplete(z))
             \/ Produces(lens, "skip", 0, Msg("E"))
    BY DEF ServerExecutes
  <1>2. PICK lens \in IF InServer("rows") THEN [1..z -> FieldLengths] ELSE {<<>>} :
             \/ Produces(lens, "ready", z, CommandComplete(z))
             \/ Produces(lens, "skip", 0, Msg("E"))
    BY <1>1
  <1>3. lens \in Seq(FieldLengths)
    <2>1. z \in Nat
      BY WireAssumption
    <2>2. CASE InServer("rows")
      BY <1>2, <2>1, <2>2, SeqDef
    <2>3. CASE ~InServer("rows")
      BY <1>2, <2>3, EmptySeq
    <2> QED BY <2>2, <2>3
  <1>4. InServer("noRows") => lens = <<>>
    BY <1>2 DEF InServer
  <1>5. Len(lens) \in Nat /\ \A i \in 1..Len(lens) : lens[i] \in FieldLengths
    BY <1>3, LenProperties, ElementOfSeq
  <1>6. server.req \in Nat /\ server \in Server
    BY DEF Typed, Server
  <1>7. \A i \in 1..Len(lens) : i \in Nat
    BY <1>5
  <1>8. DataOf(lens) \in Seq(Replies) /\ Len(DataOf(lens)) = Len(lens)
    <2>1. \A i \in 1..Len(lens) : DataRow(server.req, i, lens[i]) \in Replies
      BY <1>5, <1>6, <1>7, ReplyTypes
    <2> QED BY <1>5, <2>1 DEF DataOf
  <1>9. RowsOf(lens) \in Seq(Row) /\ Len(RowsOf(lens)) = Len(lens)
    <2>1. \A i \in 1..Len(lens) : ResultRow(server.req, i, lens[i]) \in Row
      BY <1>5, <1>6, <1>7, ParsedFacts
    <2> QED BY <1>5, <2>1 DEF RowsOf
  <1>10. ASSUME NEW n \in Nat, NEW ph, NEW last, Produces(lens, ph, n, last),
                \/ ph = "ready" /\ last = CommandComplete(n)
                \/ ph = "skip" /\ last = Msg("E")
         PROVE  Executed(n, lens, ph, last)
    <2>1. /\ down' = (down \o DataOf(lens)) \o <<last>>
          /\ server' = [server EXCEPT !.phase = ph, !.count = n,
                 !.nulls = server.nulls \/ \E i \in 1..Len(lens) : lens[i] = NULL,
                 !.rows = RowsOf(lens)]
      BY <1>6, <1>10 DEF Produces, DataOf, RowsOf, Server
    <2> QED BY <1>3, <1>4, <1>8, <1>9, <1>10, <2>1 DEF Executed
  <1>11. z \in Nat /\ 0 \in Nat
    BY WireAssumption
  <1>12. CASE Produces(lens, "ready", z, CommandComplete(z))
    BY <1>10, <1>11, <1>12
  <1>13. CASE Produces(lens, "skip", 0, Msg("E"))
    BY <1>10, <1>11, <1>13
  <1> QED BY <1>2, <1>12, <1>13

\* The server takes a message.
LEMMA ServesTyped ==
    ASSUME Typed, NEW tag, NEW ph, NEW reply \in Seq(Replies),
           Serves(tag, ph, reply),
           ph \in {"startup", "password", "md5", "sasl", "proof", "ready", "rows",
                   "noRows", "skip"}
    PROVE  Typed'
  <1>1. Tail(up) \in Seq(Requests)
    BY HeadTailProperties DEF Typed, Serves
  <1>2. down \o reply \in Seq(Replies)
    BY ConcatProperties DEF Typed
  <1> QED BY <1>1, <1>2 DEF Serves, Typed, Server

\* The greeting that follows authentication, and its parts.
LEMMA WelcomeFacts ==
    /\ Welcome \in Seq(Replies) /\ Len(Welcome) = 4
    /\ Welcome[1] = Auth("Ok") /\ Welcome[2] = Msg("S")
    /\ Welcome[3] = Msg("K") /\ Welcome[4] = Msg("Z")
  <1>1. /\ Auth("Ok") \in Replies /\ Msg("S") \in Replies /\ Msg("K") \in Replies
        /\ Msg("Z") \in Replies
    BY ReplyTypes
  <1> QED BY <1>1 DEF Welcome

\* The server's steps keep the types.
LEMMA ServerTyped ==
    ASSUME Typed, ServerStep \/ ServerNotice \/ ServerEnds
    PROVE  Typed'
  <1>1. /\ client \in Client /\ server \in Server /\ up \in Seq(Requests)
        /\ down \in Seq(Replies) /\ peer \in {"open", "gone"}
    BY DEF Typed
  <1>2. \A x \in Replies : <<x>> \in Seq(Replies)
    OBVIOUS
  <1>3. CASE ServerAuthenticates
    <2>1. \A x \in {"CleartextPassword", "MD5Password", "SASL", "SASLContinue"} :
              <<Auth(x)>> \in Seq(Replies)
      BY <1>2, ReplyTypes
    <2>2. Welcome \in Seq(Replies) /\ <<Auth("SASLFinal")>> \o Welcome \in Seq(Replies)
      BY <1>2, ReplyTypes, WelcomeFacts, ConcatProperties
    <2> QED BY <1>3, <2>1, <2>2, ServesTyped DEF ServerAuthenticates
  <1>4. CASE ServerPrepares
    <2>1. \A x \in {"1", "2", "T", "n"} : <<Msg(x)>> \in Seq(Replies)
      BY <1>2, ReplyTypes
    <2> QED BY <1>4, <2>1, ServesTyped DEF ServerPrepares
  <1>5. CASE ServerExecutes
    <2>1. PICK n, lens, ph, last : Executed(n, lens, ph, last)
      BY <1>5, ExecuteFacts
    <2> DEFINE nulls == server.nulls \/ \E i \in 1..Len(lens) : lens[i] = NULL
    <2>2. /\ \/ ph = "ready" /\ last = CommandComplete(n)
             \/ ph = "skip" /\ last = Msg("E")
          /\ DataOf(lens) \in Seq(Replies) /\ RowsOf(lens) \in Seq(Row)
          /\ down' = (down \o DataOf(lens)) \o <<last>>
          /\ server' = [server EXCEPT !.phase = ph, !.count = n,
                                      !.nulls = nulls, !.rows = RowsOf(lens)]
      BY <2>1 DEF Executed
    <2>3. n \in Nat /\ nulls \in BOOLEAN
      BY <1>1, <2>1 DEF Executed, Server
    <2> HIDE DEF nulls
    <2>4. <<last>> \in Seq(Replies)
      BY <1>2, <2>2, <2>3, ReplyTypes
    <2>5. down' \in Seq(Replies)
      BY <1>1, <2>2, <2>4, ConcatProperties
    <2>6. server' \in Server
      BY <1>1, <2>2, <2>3 DEF Server
    <2>7. Tail(up) \in Seq(Requests)
      BY <1>1, <1>5, HeadTailProperties DEF ServerExecutes
    <2> QED BY <1>1, <1>5, <2>5, <2>6, <2>7 DEF ServerExecutes, Typed
  <1>6. CASE ServerErrors
    <2>1. <<Msg("E")>> \in Seq(Replies)
      BY <1>2, ReplyTypes
    <2> QED BY <1>6, <2>1, ServesTyped DEF ServerErrors
  <1>7. CASE ServerSkips
    <2>1. <<>> \in Seq(Replies)
      BY EmptySeq
    <2> QED BY <1>7, <2>1, ServesTyped DEF ServerSkips
  <1>8. CASE ServerSyncs
    <2>1. Append(down, Msg("Z")) \in Seq(Replies)
      BY <1>1, ReplyTypes, AppendProperties
    <2>2. Tail(up) \in Seq(Requests)
      BY <1>1, <1>8, HeadTailProperties DEF ServerSyncs
    <2>3. <<>> \in Seq(Row)
      BY EmptySeq
    <2>4. server' \in Server
      BY <1>1, <1>8, <2>3 DEF ServerSyncs, Server
    <2> QED BY <1>1, <1>8, <2>1, <2>2, <2>4 DEF ServerSyncs, Typed
  <1>9. CASE ServerNotice
    <2>1. Append(down, Msg("N")) \in Seq(Replies)
      BY <1>1, ReplyTypes, AppendProperties
    <2> QED BY <1>1, <1>9, <2>1 DEF ServerNotice, Typed
  <1>10. CASE ServerEnds
    <2>1. Append(down, Msg("E")) \in Seq(Replies)
      BY <1>1, ReplyTypes, AppendProperties
    <2>2. ASSUME NEW n \in 0..Len(down)
          PROVE  SubSeq(down, 1, n) \in Seq(Replies)
      <3>1. Len(down) \in Nat /\ \A i \in 1..Len(down) : down[i] \in Replies
        BY <1>1, LenProperties, ElementOfSeq
      <3>2. n \in Int /\ 1 \in Int /\ \A i \in 1..n : down[i] \in Replies
        BY <3>1
      <3> QED BY <3>2, SubSeqProperties
    <2>3. down' \in Seq(Replies)
      BY <1>1, <1>10, <2>1, <2>2 DEF ServerEnds
    <2>4. <<>> \in Seq(Requests)
      BY EmptySeq
    <2> QED BY <1>1, <1>10, <2>3, <2>4 DEF ServerEnds, Typed
  <1> QED BY <1>3, <1>4, <1>5, <1>6, <1>7, <1>8, <1>9, <1>10 DEF ServerStep

\* Every step keeps the types.
LEMMA TypedStep == Typed /\ [WireNext]_wireVars => Typed'
  <1>1. ASSUME Typed, UNCHANGED wireVars PROVE Typed'
    BY <1>1 DEF wireVars, Typed
  <1> QED BY <1>1, ClientTyped, ServerTyped DEF WireNext

\* The connection starts typed.
LEMMA TypedStart == WireInit => Typed
  <1> SUFFICES ASSUME WireInit PROVE Typed
    OBVIOUS
  <1>1. <<>> \in Seq(Row) /\ <<>> \in Seq(Requests) /\ <<>> \in Seq(Replies)
    BY EmptySeq
  <1> QED BY <1>1 DEF WireInit, Typed, Client, Server, Phases

-----------------------------------------------------------------------------
(* Requests are numbered, and the server is never ahead *)

\* The numbers of requests and their outcomes.
LEMMA NumberedStep == Typed /\ Numbered /\ [WireNext]_wireVars => Numbered'
  <1> SUFFICES ASSUME Typed, Numbered, [WireNext]_wireVars PROVE Numbered'
    OBVIOUS
  <1>1. client \in Client /\ MaxRequests \in Nat /\ client.req \in Nat
    BY WireAssumption DEF Typed, Client
  <1>2. CASE UNCHANGED client
    BY <1>2 DEF Numbered
  <1>3. CASE ServerStep \/ ServerNotice \/ ServerEnds \/ UNCHANGED wireVars
    <2>1. UNCHANGED client
      BY <1>3 DEF ServerStep, ServerNotice, ServerEnds, ServerAuthenticates,
                  ServerPrepares, ServerExecutes, ServerErrors, ServerSkips, ServerSyncs,
                  Serves, wireVars
    <2> QED BY <1>2, <2>1
  <1>4. CASE Connect \/ ConstructorThrows \/ close
    BY <1>1, <1>4 DEF Connect, ConstructorThrows, close, Numbered, Client, In
  <1>5. CASE _authenticate
    <2>1. PICK t \in AuthTransitions : client' = [client EXCEPT !.phase = t.to]
      BY <1>5 DEF _authenticate
    <2>2. t.to \in {"auth", "sasl", "saslFinal", "authOk", "drain"}
      BY DEF AuthTransitions
    <2>3. client.phase \in {"auth", "sasl", "saslFinal", "authOk"}
      BY <1>5 DEF _authenticate, Authenticating, AuthTransitions
    <2> QED BY <1>1, <2>1, <2>2, <2>3 DEF Numbered, Client
  <1>6. CASE _drainToReady
    BY <1>1, <1>6 DEF _drainToReady, Numbered, Client, In
  <1>7. CASE QueryReads
    <2>1. /\ client.phase = "result" /\ client'.phase \in {"result", "drainError"}
          /\ client'.req = client.req
      BY <1>1, <1>7 DEF QueryReads, Client, In
    <2> QED BY <1>1, <2>1 DEF Numbered
  <1>8. CASE QueryReturns \/ QueryParseThrows \/ QueryDrains \/ QueryLosesConnection
    <2>1. CASE UNCHANGED client
      BY <1>2, <2>1
    <2>2. CASE Ends("returned") \/ Ends("threw")
      BY <1>1, <2>2 DEF Ends, Numbered, Client
    <2> QED BY <1>8, <2>1, <2>2 DEF QueryReturns, QueryParseThrows, QueryDrains,
                                    QueryLosesConnection
  <1>9. CASE query
    <2>1. /\ client.req < MaxRequests /\ client'.req = client.req + 1
          /\ client'.phase = "result"
      BY <1>9 DEF query
    <2> QED BY <1>1, <2>1 DEF Numbered
  <1>10. CASE QuerySendThrows
    <2>1. client.req < MaxRequests /\ client.phase = "idle"
      BY <1>10 DEF QuerySendThrows, In
    <2>2. client' = [client EXCEPT !.req = client.req + 1, !.outcome = "threw"]
      BY <1>1, <1>10 DEF QuerySendThrows, Client
    <2>3. /\ client'.req = client.req + 1 /\ client'.outcome = "threw"
          /\ client'.phase = "idle"
      BY <1>1, <2>1, <2>2 DEF Client
    <2> QED BY <1>1, <2>1, <2>3 DEF Numbered
  <1> QED BY <1>3, <1>4, <1>5, <1>6, <1>7, <1>8, <1>9, <1>10 DEF WireNext, ClientStep

\* The client sends messages of its next request, or sends none.
LEMMA SendQueued ==
    ASSUME Typed, Queued, NEW ms \in Seq(Requests), up' = Sent(ms), UNCHANGED server,
           client'.req \in {client.req, client.req + 1},
           \A i, j \in 1..Len(ms) : i < j => ms[i] # Msg("Sync"),
           \A i \in 1..Len(ms) : ms[i] = Msg("Sync") => client'.req = client.req + 1
    PROVE  Queued'
  <1>1. PICK of : Belongs(of)
    BY DEF Queued
  <1>2. PICK r : r = client.req + 1
    OBVIOUS
  <1>3. /\ client.req \in Nat /\ server.req \in Nat /\ 1 <= server.req
        /\ server.req <= client.req + 1 /\ r \in Nat /\ client'.req \in Nat
    BY <1>2 DEF Typed, Client, Queued
  <1>4. CASE peer # "open"
    <2>1. up' = up
      BY <1>4 DEF Sent
    <2>2. Belongs(of)'
      BY <1>1, <1>3, <2>1, SMTT(30) DEF Belongs
    <2> QED BY <1>3, <2>2 DEF Queued
  <1>5. CASE peer = "open"
    <2> DEFINE n == Len(up)
               k == Len(ms)
    <2>1. /\ n \in Nat /\ k \in Nat /\ up' = up \o ms /\ Len(up') = n + k
          /\ \A i \in 1..(n + k) : up'[i] = IF i <= n THEN up[i] ELSE ms[i - n]
      BY <1>5, LenProperties, ConcatProperties DEF Sent, Typed
    <2> HIDE DEF n, k
    <2>2. PICK w : w = [i \in 1..(n + k) |-> IF i <= n THEN of[i] ELSE r]
      OBVIOUS
    <2>3. /\ of \in [1..n -> Nat]
          /\ \A i \in 1..n :
                /\ server.req <= of[i] /\ of[i] <= client.req + 1
                /\ up[i] = Msg("Sync") => of[i] <= client.req
          /\ \A i, j \in 1..n : i < j =>
                of[i] <= of[j] /\ (up[i] = Msg("Sync") => of[i] < of[j])
      BY <1>1 DEF Belongs, n
    <2>4. w \in [1..(n + k) -> Nat]
      BY <1>3, <2>1, <2>2, <2>3
    <2>5. ASSUME NEW i \in 1..(n + k)
          PROVE  /\ server.req <= w[i] /\ w[i] <= client'.req + 1
                 /\ up'[i] = Msg("Sync") => w[i] <= client'.req
      <3>1. CASE i <= n
        <4>1. i \in 1..n /\ w[i] = of[i] /\ up'[i] = up[i] /\ of[i] \in Nat
          BY <2>1, <2>2, <2>3, <3>1
        <4> QED BY <1>3, <2>3, <4>1
      <3>2. CASE ~(i <= n)
        <4>0. i - n \in 1..k
          BY <2>1, <3>2
        <4>1. i - n \in 1..k /\ w[i] = r /\ up'[i] = ms[i - n]
          <5>1. w[i] = r
            BY <2>2, <3>2
          <5>2. up'[i] = ms[i - n]
            BY <2>1, <3>2
          <5> QED BY <4>0, <5>1, <5>2
        <4>2. ms[i - n] = Msg("Sync") => client'.req = client.req + 1
          BY <4>1 DEF k
        <4> QED BY <1>2, <1>3, <4>1, <4>2
      <3> QED BY <3>1, <3>2
    <2>6. ASSUME NEW i \in 1..(n + k), NEW j \in 1..(n + k), i < j
          PROVE  w[i] <= w[j] /\ (up'[i] = Msg("Sync") => w[i] < w[j])
      <3>1. CASE j <= n
        <4>1. /\ i \in 1..n /\ j \in 1..n /\ w[i] = of[i] /\ w[j] = of[j]
              /\ up'[i] = up[i]
          BY <2>1, <2>2, <2>6, <3>1
        <4> QED BY <2>3, <2>6, <4>1
      <3>2. CASE ~(j <= n) /\ i <= n
        <4>1. i \in 1..n /\ w[i] = of[i] /\ w[j] = r /\ up'[i] = up[i] /\ of[i] \in Nat
          BY <2>1, <2>2, <2>3, <3>2
        <4> QED BY <1>2, <1>3, <2>3, <4>1
      <3>3. CASE ~(j <= n) /\ ~(i <= n)
        <4>1. /\ i - n \in 1..k /\ j - n \in 1..k /\ i - n < j - n
              /\ w[i] = r /\ w[j] = r /\ up'[i] = ms[i - n]
          BY <2>1, <2>2, <2>6, <3>3
        <4>2. ms[i - n] # Msg("Sync")
          BY <4>1 DEF k
        <4> QED BY <1>3, <4>1, <4>2
      <3> QED BY <3>1, <3>2, <3>3
    <2>7. Belongs(w)'
      BY <2>1, <2>4, <2>5, <2>6 DEF Belongs
    <2> QED BY <1>3, <2>7 DEF Queued
  <1> QED BY <1>4, <1>5

\* The server takes a message; Sync ends its request.
LEMMA TakeQueued ==
    ASSUME Typed, Queued, up # <<>>, up' = Tail(up), UNCHANGED client,
           \/ server'.req = server.req
           \/ server'.req = server.req + 1 /\ Head(up) = Msg("Sync")
    PROVE  Queued'
  <1>1. PICK of : Belongs(of)
    BY DEF Queued
  <1>2. PICK n : n = Len(up)
    OBVIOUS
  <1>3. /\ n \in Nat /\ 1 <= n /\ Head(up) = up[1] /\ Len(up') = n - 1
        /\ \A i \in 1..(n - 1) : up'[i] = up[i + 1]
    BY <1>2, LenProperties, EmptySeq, HeadTailProperties DEF Typed
  <1>4. /\ client.req \in Nat /\ server.req \in Nat /\ 1 <= server.req
        /\ server.req <= client.req + 1
    BY DEF Typed, Client, Queued
  <1>5. /\ of \in [1..n -> Nat]
        /\ \A i \in 1..n :
              /\ server.req <= of[i] /\ of[i] <= client.req + 1
              /\ up[i] = Msg("Sync") => of[i] <= client.req
        /\ \A i, j \in 1..n : i < j =>
              of[i] <= of[j] /\ (up[i] = Msg("Sync") => of[i] < of[j])
    BY <1>1, <1>2 DEF Belongs
  <1>6. 1 \in 1..n /\ of[1] \in Nat /\ server.req <= of[1]
    BY <1>3, <1>5
  <1>7. /\ server'.req \in Nat /\ 1 <= server'.req /\ server'.req <= client.req + 1
    BY <1>3, <1>4, <1>5, <1>6
  <1>8. PICK w : w = [i \in 1..(n - 1) |-> of[i + 1]]
    OBVIOUS
  <1>9. \A i \in 1..(n - 1) : /\ i + 1 \in 1..n /\ 1 < i + 1 /\ w[i] = of[i + 1]
                              /\ up'[i] = up[i + 1] /\ w[i] \in Nat
    BY <1>3, <1>5, <1>8
  <1>10. ASSUME NEW i \in 1..(n - 1)
         PROVE  /\ server'.req <= w[i] /\ w[i] <= client.req + 1
                /\ up'[i] = Msg("Sync") => w[i] <= client.req
    <2>1. of[1] <= of[i + 1] /\ (up[1] = Msg("Sync") => of[1] < of[i + 1])
      BY <1>5, <1>6, <1>9
    <2>2. server'.req <= w[i]
      BY <1>3, <1>4, <1>6, <1>9, <2>1
    <2> QED BY <1>5, <1>9, <2>2
  <1>11. ASSUME NEW i \in 1..(n - 1), NEW j \in 1..(n - 1), i < j
         PROVE  w[i] <= w[j] /\ (up'[i] = Msg("Sync") => w[i] < w[j])
    <2>1. i + 1 < j + 1
      BY <1>11
    <2> QED BY <1>5, <1>9, <2>1, ZenonT(30)
  <1>12. w \in [1..(n - 1) -> Nat]
    BY <1>8, <1>9
  <1>13. Belongs(w)'
    BY <1>3, <1>10, <1>11, <1>12 DEF Belongs
  <1> QED BY <1>7, <1>13 DEF Queued

\* The server is never ahead of the client.
LEMMA QueuedStep == Typed /\ Queued /\ [WireNext]_wireVars => Queued'
  <1> SUFFICES ASSUME Typed, Queued, [WireNext]_wireVars PROVE Queued'
    OBVIOUS
  <1>1. /\ client \in Client /\ server \in Server /\ client.req \in Nat
        /\ server.req \in Nat
    BY DEF Typed, Client, Server
  <1>2. ASSUME UNCHANGED <<server, up>>, client'.req \in {client.req, client.req + 1}
        PROVE  Queued'
    <2>1. PICK of : Belongs(of)
      BY DEF Queued
    <2>2. Belongs(of)'
      <3>1. of \in [1..Len(up) -> Nat]
        BY <2>1 DEF Belongs
      <3>2. ASSUME NEW i \in 1..Len(up)
            PROVE  /\ server.req <= of[i] /\ of[i] <= client'.req + 1
                   /\ up[i] = Msg("Sync") => of[i] <= client'.req
        <4>1. /\ server.req <= of[i] /\ of[i] <= client.req + 1 /\ of[i] \in Nat
              /\ up[i] = Msg("Sync") => of[i] <= client.req
          BY <2>1, <3>1 DEF Belongs
        <4> QED BY <1>1, <1>2, <4>1
      <3>3. \A i, j \in 1..Len(up) : i < j =>
                of[i] <= of[j] /\ (up[i] = Msg("Sync") => of[i] < of[j])
        BY <2>1 DEF Belongs
      <3> QED BY <1>2, <3>1, <3>2, <3>3 DEF Belongs
    <2> QED BY <1>1, <1>2, <2>2 DEF Queued
  <1>3. ASSUME NEW ms \in Seq(Requests), up' = Sent(ms), UNCHANGED server,
               client'.req = client.req, Len(ms) \in {0, 1},
               Len(ms) = 1 => ms[1] # Msg("Sync")
        PROVE  Queued'
    <2>1. \A i \in 1..Len(ms) : ms[i] # Msg("Sync")
      BY <1>3
    <2> QED BY <1>3, <2>1, SendQueued
  <1>4. CASE UNCHANGED wireVars
    BY <1>2, <1>4 DEF wireVars
  <1>5. CASE Connect
    <2>1. /\ <<Msg("Startup")>> \in Seq(Requests) /\ Len(<<Msg("Startup")>>) = 1
          /\ <<Msg("Startup")>>[1] # Msg("Sync")
      BY RequestTypes, MsgFacts
    <2>2. client'.req = client.req
      BY <1>1, <1>5 DEF Connect, Client
    <2> QED BY <1>3, <1>5, <2>1, <2>2 DEF Connect
  <1>6. CASE close
    <2>1. /\ <<Msg("X")>> \in Seq(Requests) /\ Len(<<Msg("X")>>) = 1
          /\ <<Msg("X")>>[1] # Msg("Sync")
      BY RequestTypes, MsgFacts
    <2>2. client'.req = client.req
      BY <1>1, <1>6 DEF close, Client
    <2> QED BY <1>3, <1>6, <2>1, <2>2 DEF close
  <1>7. CASE _authenticate
    <2>1. PICK t \in AuthTransitions : /\ client' = [client EXCEPT !.phase = t.to]
                                       /\ up' = Sent(t.reply)
      BY <1>7 DEF _authenticate
    <2>2. t.reply \in {<<>>, <<Msg("p")>>}
      BY DEF AuthTransitions
    <2>3. /\ <<>> \in Seq(Requests) /\ Len(<<>>) = 0
          /\ <<Msg("p")>> \in Seq(Requests) /\ Len(<<Msg("p")>>) = 1
          /\ <<Msg("p")>>[1] # Msg("Sync")
      BY RequestTypes, MsgFacts, EmptySeq
    <2>4. client'.req = client.req /\ UNCHANGED server
      BY <1>1, <1>7, <2>1 DEF Client, _authenticate
    <2>5. CASE t.reply = <<>>
      <3>1. t.reply \in Seq(Requests) /\ Len(t.reply) = 0
        BY <2>3, <2>5
      <3>2. \A i \in 1..Len(t.reply) : t.reply[i] # Msg("Sync")
        BY <3>1
      <3> QED BY <2>1, <2>4, <3>1, <3>2, SendQueued
    <2>6. CASE t.reply = <<Msg("p")>>
      BY <1>3, <2>1, <2>3, <2>4, <2>6
    <2> QED BY <2>2, <2>5, <2>6
  <1>8. CASE query
    <2>1. /\ up' = Sent(Request1) /\ UNCHANGED server /\ client'.req = client.req + 1
      BY <1>8 DEF query, Request1
    <2>2. /\ Len(Request1) = 5 /\ Request1[1] = Msg("Parse") /\ Request1[2] = Msg("Bind")
          /\ Request1[3] = Msg("Describe") /\ Request1[4] = Msg("Execute")
      BY DEF Request1
    <2>3. \A i \in 1..4 : Request1[i] # Msg("Sync")
      <3>1. \A i \in 1..4 : i = 1 \/ i = 2 \/ i = 3 \/ i = 4
        OBVIOUS
      <3> QED BY <2>2, <3>1, MsgFacts
    <2>4. \A i, j \in 1..Len(Request1) : i < j => Request1[i] # Msg("Sync")
      BY <2>2, <2>3
    <2> QED BY <1>1, <2>1, <2>4, SendQueued, RequestTypes
  <1>9. CASE ConstructorThrows \/ _drainToReady \/ QueryReturns \/ QueryParseThrows
             \/ QueryDrains \/ QueryLosesConnection
    <2>1. client'.req = client.req
      BY <1>1, <1>9 DEF ConstructorThrows, _drainToReady, QueryReturns,
                        QueryParseThrows, QueryDrains, QueryLosesConnection, Ends, Client
    <2>2. UNCHANGED <<server, up>>
      BY <1>9 DEF ConstructorThrows, _drainToReady, QueryReturns, QueryParseThrows,
                  QueryDrains, QueryLosesConnection
    <2> QED BY <1>2, <2>1, <2>2
  <1>10. CASE QueryReads
    <2>1. client'.req = client.req
      BY <1>1, <1>10 DEF QueryReads, Client
    <2> QED BY <1>2, <1>10, <2>1 DEF QueryReads
  <1>11. CASE QuerySendThrows
    <2>1. client' = [client EXCEPT !.req = client.req + 1, !.outcome = "threw"]
      BY <1>1, <1>11 DEF QuerySendThrows, Client
    <2>2. client'.req = client.req + 1
      BY <1>1, <2>1 DEF Client
    <2> QED BY <1>2, <1>11, <2>2 DEF QuerySendThrows
  <1>12. ASSUME NEW tag, NEW ph, NEW reply, Serves(tag, ph, reply)
         PROVE  Queued'
    <2>1. server'.req = server.req
      BY <1>1, <1>12 DEF Serves, Server
    <2> QED BY <1>12, <2>1, TakeQueued DEF Serves
  <1>13. CASE ServerAuthenticates \/ ServerPrepares \/ ServerErrors \/ ServerSkips
    BY <1>12, <1>13 DEF ServerAuthenticates, ServerPrepares, ServerErrors, ServerSkips
  <1>14. CASE ServerExecutes
    <2>1. server'.req = server.req
      BY <1>1, <1>14 DEF ServerExecutes, Produces, Server
    <2> QED BY <1>14, <2>1, TakeQueued DEF ServerExecutes
  <1>15. CASE ServerSyncs
    <2>1. server'.req = server.req + 1
      BY <1>15 DEF ServerSyncs
    <2> QED BY <1>15, <2>1, TakeQueued DEF ServerSyncs
  <1>16. CASE ServerNotice
    BY <1>2, <1>16 DEF ServerNotice
  <1>17. CASE ServerEnds
    <2>1. up' = <<>> /\ UNCHANGED <<client, server>>
      BY <1>17 DEF ServerEnds
    <2>2. PICK w : w = [i \in 1..0 |-> 0]
      OBVIOUS
    <2>3. Len(up') = 0
      BY <2>1, EmptySeq
    <2>4. Belongs(w)'
      BY <2>2, <2>3 DEF Belongs
    <2> QED BY <2>1, <2>4 DEF Queued
  <1> QED BY <1>4, <1>5, <1>6, <1>7, <1>8, <1>9, <1>10, <1>11, <1>13, <1>14, <1>15,
             <1>16, <1>17 DEF WireNext, ClientStep, ServerStep

\* Where the connection starts.
LEMMA NumberedStart == WireInit => Numbered /\ Queued
  <1> SUFFICES ASSUME WireInit PROVE Numbered /\ Queued
    OBVIOUS
  <1>1. Numbered
    BY WireAssumption DEF WireInit, Numbered
  <1>2. Len(up) = 0
    BY EmptySeq DEF WireInit
  <1>3. PICK w : w = [i \in 1..0 |-> 0]
    OBVIOUS
  <1>4. Belongs(w)
    BY <1>2, <1>3 DEF Belongs
  <1> QED BY <1>1, <1>4 DEF Queued, WireInit

\* Notices are counted.
Noticed == notices \in 0..MaxNotices

LEMMA NoticesStep == Noticed /\ [WireNext]_wireVars => Noticed'
  <1> SUFFICES ASSUME Noticed, [WireNext]_wireVars PROVE Noticed'
    OBVIOUS
  <1>1. CASE ServerNotice
    BY <1>1, WireAssumption DEF ServerNotice, Noticed
  <1>2. CASE ~ServerNotice
    <2>1. UNCHANGED notices
      BY <1>2 DEF WireNext, ClientStep, ServerStep, wireVars, Connect, _authenticate,
          ConstructorThrows, _drainToReady, QueryReads, QueryReturns, QueryParseThrows,
          QueryDrains, QueryLosesConnection, query, QuerySendThrows, close,
          ServerAuthenticates, ServerPrepares, ServerExecutes, ServerErrors,
          ServerSkips, ServerSyncs, ServerEnds, Serves
    <2> QED BY <2>1 DEF Noticed
  <1> QED BY <1>1, <1>2

\* The client, the server and the messages both ways keep their types, whatever
\* the server sends and whenever it ends the connection; the server is never ahead
\* of the client, and a query that has ended has an outcome.
THEOREM WireTypeCorrect == WireSpec => []WireTypeOK
  <1>1. Typed /\ Numbered /\ Queued /\ Noticed => WireTypeOK
    <2> SUFFICES ASSUME Typed, Numbered, Queued, Noticed
                 PROVE  WireTypeOK
      OBVIOUS
    <2>1. client.req \in Nat /\ client.req <= MaxRequests
      BY WireAssumption DEF Numbered
    <2>2. server.req \in 1..(client.req + 1)
      BY <2>1 DEF Queued
    <2> QED BY <2>1, <2>2 DEF Typed, Numbered, Noticed, WireTypeOK, In
  <1>2. WireInit => Noticed
    BY WireAssumption DEF WireInit, Noticed
  <1> QED BY <1>1, <1>2, TypedStart, TypedStep, NumberedStart, NumberedStep, QueuedStep,
             NoticesStep, PTL
          DEF WireSpec

-----------------------------------------------------------------------------
(* Where the client and the server are in a request *)

\* The places of a connection.  A place is named for what the server does next:
\* "asked" is waiting for a password, "drain" the greeting, "rows" and "noRows"
\* Execute, "sync" Sync after it and "skip" Sync after an error; "lost" is where
\* the server has ended the connection.
Places == {"auth", "asked", "drain", "idle", "parse", "bind", "describe", "rows",
           "noRows", "sync", "skip", "lost"}

\* How far a place is in its request: nothing executed, executed or failed, over.
Stage(a) == IF a \in {"idle", "lost"} THEN 2 ELSE IF a \in {"sync", "skip"} THEN 1 ELSE 0

\* The result of the client's last request, before and after its Sync.
Result == IF server.req = client.req THEN [rows |-> server.rows, count |-> server.count]
          ELSE server.done

\* What the meaning of a message depends on.
Context == [peer |-> peer, req |-> client.req, served |-> server.req,
            rows |-> Result.rows, count |-> Result.count]

\* A message other than a row and the end of the rows leads from place a to b.
Passes(c, a, d, b) ==
    \/ d.tag = "N" /\ a # "asked" /\ b = a
    \/ d.tag = "R" /\ a = "auth" /\ d.type = "Ok" /\ b = "drain"
    \/ d.tag = "R" /\ a = "auth" /\ d.type = "SASLFinal" /\ b = "auth"
    \/ d.tag = "R" /\ a = "auth" /\ d.type \notin {"Ok", "SASLFinal"} /\ b = "asked"
    \/ d.tag \in {"S", "K"} /\ a = "drain" /\ b = "drain"
    \/ d.tag = "1" /\ a = "parse" /\ b = "bind"
    \/ d.tag = "2" /\ a = "bind" /\ b = "describe"
    \/ d.tag = "T" /\ a = "describe" /\ b = "rows"
    \/ d.tag = "n" /\ a = "describe" /\ b = "noRows"
    \/ d.tag = "E" /\ a \in {"parse", "bind", "describe", "rows", "noRows"} /\ b = "skip"
    \/ d.tag = "E" /\ b = "lost" /\ c.peer = "gone"
    \/ d.tag = "Z" /\ a \in {"drain", "sync", "skip"} /\ b = "idle"

\* Message d leads from place a, where k rows of the result have been sent, to
\* place b, where l have.
Moves(c, a, k, d, b, l) ==
    \/ Passes(c, a, d, b) /\ l = k
    \/ /\ d.tag = "D" /\ a = "rows" /\ b = "rows"
       /\ l = k + 1 /\ l <= Len(c.rows)
       /\ d = DataRow(c.req, l, d.len) /\ d.len # NULL
       /\ c.rows[l] = ResultRow(c.req, l, d.len)
    \/ /\ d.tag = "C" /\ a \in {"rows", "noRows"} /\ b = "sync"
       /\ l = k /\ k = Len(c.rows) /\ d.count = c.count

\* The server is gone where the connection is lost, and a request that is over has
\* been counted.
Possible(c, a) ==
    /\ a \in Places
    /\ a = "lost" => c.peer = "gone"
    /\ a = "idle" => c.served = c.req + 1

\* Messages ds pass the places at[i], each with got[i] rows sent.
Path(c, at, got, ds) ==
    /\ at \in [0..Len(ds) -> Places] /\ got \in [0..Len(ds) -> Nat]
    /\ \A i \in 0..Len(ds) : Possible(c, at[i])
    /\ \A i \in 1..Len(ds) : Moves(c, at[i - 1], got[i - 1], ds[i], at[i], got[i])
    /\ \A i, j \in 0..Len(ds) : i <= j =>
          Stage(at[i]) <= Stage(at[j]) /\ got[i] <= got[j]

Leads(c, a, k, ds, b, l) ==
    \E at, got : /\ Path(c, at, got, ds)
                 /\ at[0] = a /\ got[0] = k /\ at[Len(ds)] = b /\ got[Len(ds)] = l

AuthPhases == {"startup", "password", "md5", "sasl", "proof"}

\* The server waits at place b, with l rows sent.
AtServer(b, l) ==
    \/ /\ b = "auth" /\ IF client.phase = "new" THEN up = <<>> ELSE Len(up) = 1
       /\ server.phase \in AuthPhases /\ server.req = 1 /\ client.req = 0
    \/ /\ b = "asked" /\ up = <<>>
       /\ server.phase \in AuthPhases /\ server.req = 1 /\ client.req = 0
    \/ b = "idle" /\ server.phase = "ready" /\ up = <<>>
    \/ /\ server.req = client.req
       /\ \/ b = "parse" /\ server.phase = "ready" /\ up = Request1 /\ l = 0
          \/ b = "bind" /\ server.phase = "ready" /\ up = Request2 /\ l = 0
          \/ b = "describe" /\ server.phase = "ready" /\ up = Request3 /\ l = 0
          \/ b = "rows" /\ server.phase = "rows" /\ up = Request4 /\ l = 0
          \/ b = "noRows" /\ server.phase = "noRows" /\ up = Request4 /\ l = 0
          \/ b = "sync" /\ server.phase = "ready" /\ up = Request5
          \/ /\ b = "skip" /\ server.phase = "skip"
             /\ up \in {Request2, Request3, Request4, Request5}

\* The client has the first k rows of the result.
HasRows(k) ==
    /\ Len(client.rows) = k /\ k <= Len(Result.rows)
    /\ \A i \in 1..k : client.rows[i] = Result.rows[i]

\* The client has read up to place a, and k rows.
AtClient(a, k) ==
    \/ /\ client.phase = "new" /\ a = "auth" /\ client.outcome = "none"
       /\ peer = "open" => down = <<>>
    \/ /\ client.phase \in {"auth", "sasl", "saslFinal", "authOk"}
       /\ client.outcome = "none"
       /\ a = "auth" \/ (a = "asked" /\ peer = "gone")
    \/ client.phase = "drain" /\ a = "drain" /\ client.outcome = "none"
    \/ /\ client.phase = "idle" /\ a = "idle"
       /\ client.outcome = "returned" =>
             client.rows = Result.rows /\ client.count = Result.count
    \/ client.phase = "idle" /\ a = "lost" /\ client.outcome # "returned"
    \/ client.phase = "drainError" /\ a \in {"skip", "lost"}
    \/ client.phase = "result" /\ a = "lost"
    \/ /\ client.phase = "result"
       /\ a \in {"parse", "bind", "describe", "rows", "noRows", "sync"}
       /\ HasRows(k)
       /\ a = "rows" => client.columns = TRUE
       /\ a = "sync" => k = Len(Result.rows) /\ client.count = Result.count

\* A connection in use that has carried no NULL is in step: the messages under way
\* lead from where the client is to where the server is.
InStep ==
    ~server.nulls /\ client.phase \notin {"closed", "dead"} =>
        \E a, k, b, l : /\ Leads(Context, a, k, down, b, l)
                        /\ AtClient(a, k)
                        /\ peer = "open" => AtServer(b, l)

\* Messages that lead somewhere do so from and to possible places.
LEMMA LeadsFacts ==
    ASSUME NEW c, NEW ds \in Seq(Replies), NEW a, NEW k, NEW b, NEW l,
           Leads(c, a, k, ds, b, l)
    PROVE  /\ Possible(c, a) /\ Possible(c, b) /\ k \in Nat /\ l \in Nat
           /\ Stage(a) <= Stage(b) /\ k <= l
           /\ ds = <<>> => a = b /\ k = l
  <1>1. PICK at, got : /\ Path(c, at, got, ds)
                       /\ at[0] = a /\ got[0] = k /\ at[Len(ds)] = b /\ got[Len(ds)] = l
    BY DEF Leads
  <1>2. Len(ds) \in Nat /\ 0 \in 0..Len(ds) /\ Len(ds) \in 0..Len(ds)
    BY LenProperties
  <1>3. ds = <<>> => Len(ds) = 0
    BY EmptySeq
  <1>4. Possible(c, a) /\ Possible(c, b) /\ Stage(a) <= Stage(b) /\ k <= l
    BY <1>1, <1>2 DEF Path
  <1>5. k \in Nat /\ l \in Nat
    BY <1>1, <1>2 DEF Path
  <1> QED BY <1>1, <1>3, <1>4, <1>5

\* No message leads from a place to itself.
LEMMA LeadsNowhere ==
    ASSUME NEW c, NEW a, NEW k \in Nat, Possible(c, a)
    PROVE  Leads(c, a, k, <<>>, a, k)
  <1>1. PICK at : at = [i \in 0..0 |-> a]
    OBVIOUS
  <1>2. PICK got : got = [i \in 0..0 |-> k]
    OBVIOUS
  <1>3. \A i \in 0..0 : i = 0
    OBVIOUS
  <1>4. Len(<<>>) = 0 /\ \A i \in 1..0 : FALSE
    OBVIOUS
  <1>5. at[0] = a /\ got[0] = k
    BY <1>1, <1>2
  <1>6. Stage(a) \in Int
    BY DEF Stage
  <1>7. Path(c, at, got, <<>>)
    <2>1. at \in [0..0 -> Places] /\ got \in [0..0 -> Nat]
      BY <1>1, <1>2 DEF Possible
    <2>2. \A i \in 0..0 : Possible(c, at[i])
      BY <1>3, <1>5
    <2>3. \A i, j \in 0..0 : i <= j => Stage(at[i]) <= Stage(at[j]) /\ got[i] <= got[j]
      BY <1>3, <1>5, <1>6
    <2> QED BY <1>4, <2>1, <2>2, <2>3 DEF Path
  <1> QED BY <1>4, <1>5, <1>7 DEF Leads

\* One message more.
LEMMA LeadsAppend ==
    ASSUME NEW c, NEW ds \in Seq(Replies), NEW a, NEW k, NEW b, NEW l,
           Leads(c, a, k, ds, b, l),
           NEW d \in Replies, NEW b2, NEW l2 \in Nat,
           Moves(c, b, l, d, b2, l2), Possible(c, b2), Stage(b) <= Stage(b2), l <= l2
    PROVE  Leads(c, a, k, Append(ds, d), b2, l2)
  <1>1. PICK at, got : /\ Path(c, at, got, ds)
                       /\ at[0] = a /\ got[0] = k /\ at[Len(ds)] = b /\ got[Len(ds)] = l
    BY DEF Leads
  <1>2. PICK n : n = Len(ds)
    OBVIOUS
  <1>3. PICK es : es = Append(ds, d)
    OBVIOUS
  <1>4. /\ n \in Nat /\ Len(es) = n + 1 /\ es[n + 1] = d
        /\ \A i \in 1..n : es[i] = ds[i]
    BY <1>2, <1>3, AppendProperties, LenProperties
  <1>5. PICK w : w = [i \in 0..(n + 1) |-> IF i = n + 1 THEN b2 ELSE at[i]]
    OBVIOUS
  <1>6. PICK v : v = [i \in 0..(n + 1) |-> IF i = n + 1 THEN l2 ELSE got[i]]
    OBVIOUS
  <1>7. \A i \in 0..(n + 1) : i = n + 1 \/ (i \in 0..n /\ i # n + 1)
    BY <1>4
  <1>8. /\ \A i \in 0..n : i \in 0..(n + 1) /\ w[i] = at[i] /\ v[i] = got[i]
        /\ n + 1 \in 0..(n + 1) /\ w[n + 1] = b2 /\ v[n + 1] = l2
    BY <1>4, <1>5, <1>6
  <1>9. /\ at \in [0..n -> Places] /\ got \in [0..n -> Nat]
        /\ \A i \in 0..n : Possible(c, at[i])
        /\ \A i \in 1..n : Moves(c, at[i - 1], got[i - 1], ds[i], at[i], got[i])
        /\ \A i, j \in 0..n : i <= j =>
              Stage(at[i]) <= Stage(at[j]) /\ got[i] <= got[j]
    BY <1>1, <1>2 DEF Path
  <1>10. w \in [0..(n + 1) -> Places] /\ v \in [0..(n + 1) -> Nat]
    <2>1. \A i \in 0..(n + 1) : w[i] \in Places /\ v[i] \in Nat
      BY <1>7, <1>8, <1>9 DEF Possible
    <2> QED BY <1>5, <1>6, <2>1
  <1>11. ASSUME NEW i \in 0..(n + 1) PROVE Possible(c, w[i])
    BY <1>7, <1>8, <1>9
  <1>12. ASSUME NEW i \in 1..(n + 1)
         PROVE  Moves(c, w[i - 1], v[i - 1], es[i], w[i], v[i])
    <2>1. CASE i = n + 1
      <3>1. i - 1 = n /\ n \in 0..n
        BY <1>4, <2>1
      <3>2. w[i - 1] = b /\ v[i - 1] = l /\ es[i] = d /\ w[i] = b2 /\ v[i] = l2
        BY <1>1, <1>2, <1>4, <1>8, <2>1, <3>1
      <3> QED BY <3>2
    <2>2. CASE i # n + 1
      <3>1. i \in 1..n /\ i \in 0..n /\ i - 1 \in 0..n
        BY <1>4, <2>2
      <3>2. /\ w[i - 1] = at[i - 1] /\ v[i - 1] = got[i - 1] /\ es[i] = ds[i]
            /\ w[i] = at[i] /\ v[i] = got[i]
        BY <1>4, <1>8, <3>1
      <3> QED BY <1>9, <3>1, <3>2
    <2> QED BY <2>1, <2>2
  <1>13. ASSUME NEW i \in 0..(n + 1), NEW j \in 0..(n + 1), i <= j
         PROVE  Stage(w[i]) <= Stage(w[j]) /\ v[i] <= v[j]
    <2>1. Stage(b2) \in Int /\ Stage(b) \in Int /\ \A x : Stage(x) \in Int
      BY DEF Stage
    <2>2. CASE i = n + 1
      <3>1. j = n + 1
        BY <1>4, <1>13, <2>2
      <3> QED BY <1>8, <2>1, <2>2, <3>1
    <2>3. CASE i # n + 1 /\ j = n + 1
      <3>1. i \in 0..n /\ n \in 0..n /\ i <= n
        BY <1>4, <2>3
      <3>2. Stage(at[i]) <= Stage(b) /\ got[i] <= l /\ got[i] \in Nat /\ l \in Nat
        BY <1>1, <1>2, <1>9, <3>1
      <3>3. w[i] = at[i] /\ v[i] = got[i] /\ w[j] = b2 /\ v[j] = l2
        BY <1>8, <2>3, <3>1
      <3>4. Stage(at[i]) <= Stage(b2)
        BY <2>1, <3>2
      <3> QED BY <3>2, <3>3, <3>4
    <2>4. CASE i # n + 1 /\ j # n + 1
      BY <1>7, <1>8, <1>9, <1>13, <2>4
    <2> QED BY <2>2, <2>3, <2>4
  <1>14. Path(c, w, v, es)
    BY <1>4, <1>10, <1>11, <1>12, <1>13 DEF Path
  <1>15. w[0] = a /\ v[0] = k /\ w[Len(es)] = b2 /\ v[Len(es)] = l2
    BY <1>1, <1>4, <1>8
  <1> QED BY <1>3, <1>14, <1>15 DEF Leads

\* One message less.
LEMMA LeadsTail ==
    ASSUME NEW c, NEW ds \in Seq(Replies), NEW a, NEW k, NEW b, NEW l,
           Leads(c, a, k, ds, b, l), ds # <<>>
    PROVE  \E x, y : /\ Moves(c, a, k, Head(ds), x, y)
                     /\ Leads(c, x, y, Tail(ds), b, l)
                     /\ Possible(c, x) /\ y \in Nat
  <1>1. PICK at, got : /\ Path(c, at, got, ds)
                       /\ at[0] = a /\ got[0] = k /\ at[Len(ds)] = b /\ got[Len(ds)] = l
    BY DEF Leads
  <1>2. PICK n : n = Len(ds) - 1
    OBVIOUS
  <1>3. PICK es : es = Tail(ds)
    OBVIOUS
  <1>4. /\ n \in Nat /\ Len(ds) = n + 1 /\ Len(es) = n /\ Head(ds) = ds[1]
        /\ \A i \in 1..n : es[i] = ds[i + 1]
    BY <1>2, <1>3, HeadTailProperties, LenProperties, EmptySeq
  <1>5. PICK w : w = [i \in 0..n |-> at[i + 1]]
    OBVIOUS
  <1>6. PICK v : v = [i \in 0..n |-> got[i + 1]]
    OBVIOUS
  <1>7. \A i \in 0..n : i + 1 \in 0..(n + 1) /\ w[i] = at[i + 1] /\ v[i] = got[i + 1]
    BY <1>4, <1>5, <1>6
  <1>8. /\ at \in [0..(n + 1) -> Places] /\ got \in [0..(n + 1) -> Nat]
        /\ \A i \in 0..(n + 1) : Possible(c, at[i])
        /\ \A i \in 1..(n + 1) : Moves(c, at[i - 1], got[i - 1], ds[i], at[i], got[i])
        /\ \A i, j \in 0..(n + 1) : i <= j =>
              Stage(at[i]) <= Stage(at[j]) /\ got[i] <= got[j]
    BY <1>1, <1>4 DEF Path
  <1>9. w \in [0..n -> Places] /\ v \in [0..n -> Nat]
    BY <1>5, <1>6, <1>7, <1>8
  <1>10. ASSUME NEW i \in 1..n
         PROVE  Moves(c, w[i - 1], v[i - 1], es[i], w[i], v[i])
    <2>1. i \in 0..n /\ i - 1 \in 0..n /\ i + 1 \in 1..(n + 1) /\ (i + 1) - 1 = i
      BY <1>4
    <2>2. /\ w[i - 1] = at[i] /\ v[i - 1] = got[i] /\ es[i] = ds[i + 1]
          /\ w[i] = at[i + 1] /\ v[i] = got[i + 1]
      <3>1. (i - 1) + 1 = i
        OBVIOUS
      <3> QED BY <1>4, <1>7, <2>1, <3>1
    <2>3. Moves(c, at[(i + 1) - 1], got[(i + 1) - 1], ds[i + 1], at[i + 1], got[i + 1])
      BY <1>8, <2>1
    <2> QED BY <2>1, <2>2, <2>3
  <1>11. ASSUME NEW i \in 0..n, NEW j \in 0..n, i <= j
         PROVE  Stage(w[i]) <= Stage(w[j]) /\ v[i] <= v[j]
    <2>1. i + 1 <= j + 1
      BY <1>11
    <2> QED BY <1>7, <1>8, <2>1
  <1>12. Path(c, w, v, es)
    BY <1>4, <1>7, <1>8, <1>9, <1>10, <1>11 DEF Path
  <1>13. w[Len(es)] = b /\ v[Len(es)] = l /\ w[0] = at[1] /\ v[0] = got[1]
    BY <1>1, <1>4, <1>7
  <1>14. Leads(c, at[1], got[1], Tail(ds), b, l)
    BY <1>3, <1>12, <1>13 DEF Leads
  <1>15. 1 \in 1..(n + 1) /\ 1 \in 0..(n + 1) /\ 1 - 1 = 0
    BY <1>4
  <1>16. Moves(c, a, k, Head(ds), at[1], got[1]) /\ Possible(c, at[1]) /\ got[1] \in Nat
    BY <1>1, <1>4, <1>8, <1>15
  <1> QED BY <1>14, <1>16

\* What has arrived of the messages when the rest is lost.
LEMMA LeadsPrefix ==
    ASSUME NEW c, NEW ds \in Seq(Replies), NEW a, NEW k, NEW b, NEW l,
           Leads(c, a, k, ds, b, l), NEW n \in 0..Len(ds)
    PROVE  \E x, y : Leads(c, a, k, SubSeq(ds, 1, n), x, y)
  <1>1. PICK at, got : /\ Path(c, at, got, ds)
                       /\ at[0] = a /\ got[0] = k
    BY DEF Leads
  <1>2. PICK es : es = SubSeq(ds, 1, n)
    OBVIOUS
  <1>3. /\ Len(ds) \in Nat /\ n \in Nat /\ n <= Len(ds)
        /\ \A i \in 1..n : i \in 1..Len(ds) /\ ds[i] \in Replies
    BY LenProperties, ElementOfSeq
  <1>4. Len(es) = n /\ \A i \in 1..n : es[i] = ds[i]
    BY <1>2, <1>3, SubSeqProperties
  <1>5. PICK w : w = [i \in 0..n |-> at[i]]
    OBVIOUS
  <1>6. PICK v : v = [i \in 0..n |-> got[i]]
    OBVIOUS
  <1>7. \A i \in 0..n : i \in 0..Len(ds) /\ w[i] = at[i] /\ v[i] = got[i]
    BY <1>3, <1>5, <1>6
  <1>8. /\ at \in [0..Len(ds) -> Places] /\ got \in [0..Len(ds) -> Nat]
        /\ \A i \in 0..Len(ds) : Possible(c, at[i])
        /\ \A i \in 1..Len(ds) : Moves(c, at[i - 1], got[i - 1], ds[i], at[i], got[i])
        /\ \A i, j \in 0..Len(ds) : i <= j =>
              Stage(at[i]) <= Stage(at[j]) /\ got[i] <= got[j]
    BY <1>1 DEF Path
  <1>9. w \in [0..n -> Places] /\ v \in [0..n -> Nat]
    BY <1>5, <1>6, <1>7, <1>8
  <1>10. ASSUME NEW i \in 1..n
         PROVE  Moves(c, w[i - 1], v[i - 1], es[i], w[i], v[i])
    <2>1. i \in 0..n /\ i - 1 \in 0..n /\ i \in 1..Len(ds)
      BY <1>3
    <2>2. /\ w[i - 1] = at[i - 1] /\ v[i - 1] = got[i - 1] /\ es[i] = ds[i]
          /\ w[i] = at[i] /\ v[i] = got[i]
      BY <1>4, <1>7, <2>1
    <2> QED BY <1>8, <2>1, <2>2
  <1>11. Path(c, w, v, es)
    BY <1>4, <1>7, <1>8, <1>9, <1>10 DEF Path
  <1>12. w[0] = a /\ v[0] = k
    BY <1>1, <1>3, <1>7
  <1> QED BY <1>2, <1>11, <1>12 DEF Leads

\* Messages keep their meaning when the server ends the connection, and when a
\* request is over.
LEMMA LeadsKept ==
    ASSUME NEW c, NEW e, NEW ds \in Seq(Replies), NEW a, NEW k, NEW b, NEW l,
           Leads(c, a, k, ds, b, l),
           e.req = c.req, e.rows = c.rows, e.count = c.count,
           e.served = c.served \/ e.served = e.req + 1,
           e.peer = c.peer \/ e.peer = "gone"
    PROVE  Leads(e, a, k, ds, b, l)
  <1>1. PICK at, got : /\ Path(c, at, got, ds)
                       /\ at[0] = a /\ got[0] = k /\ at[Len(ds)] = b /\ got[Len(ds)] = l
    BY DEF Leads
  <1>2. ASSUME NEW x, Possible(c, x) PROVE Possible(e, x)
    BY <1>2 DEF Possible
  <1>3. ASSUME NEW x, NEW i, NEW d, NEW y, NEW j, Moves(c, x, i, d, y, j)
        PROVE  Moves(e, x, i, d, y, j)
    <2>1. ASSUME Passes(c, x, d, y) PROVE Passes(e, x, d, y)
      BY <2>1 DEF Passes
    <2> QED BY <1>3, <2>1 DEF Moves
  <1>4. Path(e, at, got, ds)
    BY <1>1, <1>2, <1>3 DEF Path
  <1> QED BY <1>1, <1>4 DEF Leads

\* What was sent before Execute says nothing of the result.
LEMMA LeadsExecuted ==
    ASSUME NEW c, NEW e, NEW ds \in Seq(Replies), NEW a, NEW k, NEW b,
           Leads(c, a, k, ds, b, 0), Stage(b) = 0,
           e.req = c.req, e.served = c.served, e.peer = c.peer
    PROVE  Leads(e, a, k, ds, b, 0) /\ k = 0 /\ Stage(a) = 0
  <1>1. PICK at, got : /\ Path(c, at, got, ds)
                       /\ at[0] = a /\ got[0] = k /\ at[Len(ds)] = b /\ got[Len(ds)] = 0
    BY DEF Leads
  <1>2. Len(ds) \in Nat /\ Len(ds) \in 0..Len(ds) /\ 0 \in 0..Len(ds)
    BY LenProperties
  <1>3. ASSUME NEW i \in 0..Len(ds) PROVE got[i] = 0 /\ Stage(at[i]) = 0
    <2>1. got[i] \in Nat /\ got[i] <= 0 /\ Stage(at[i]) <= 0
      BY <1>1, <1>2 DEF Path
    <2>2. Stage(at[i]) \in {0, 1, 2}
      BY DEF Stage
    <2> QED BY <2>1, <2>2
  <1>4. ASSUME NEW i \in 1..Len(ds)
        PROVE  Moves(e, at[i - 1], got[i - 1], ds[i], at[i], got[i])
    <2>1. i - 1 \in 0..Len(ds) /\ i \in 0..Len(ds)
      BY <1>2
    <2>2. got[i] = 0 /\ got[i - 1] = 0 /\ at[i] # "sync"
      BY <1>3, <2>1 DEF Stage
    <2>3. Passes(c, at[i - 1], ds[i], at[i])
      <3>1. Moves(c, at[i - 1], got[i - 1], ds[i], at[i], got[i])
        BY <1>1 DEF Path
      <3> QED BY <2>2, <3>1 DEF Moves
    <2>4. Passes(e, at[i - 1], ds[i], at[i])
      BY <2>3 DEF Passes
    <2> QED BY <2>2, <2>4 DEF Moves
  <1>5. \A i \in 0..Len(ds) : Possible(e, at[i])
    BY <1>1 DEF Path, Possible
  <1>6. Path(e, at, got, ds)
    BY <1>1, <1>4, <1>5 DEF Path
  <1> QED BY <1>1, <1>2, <1>3, <1>6 DEF Leads

\* The rows of a result.
LEMMA LeadsRows ==
    ASSUME NEW c, NEW ds \in Seq(Replies), NEW a, NEW k,
           Leads(c, a, k, ds, "rows", 0),
           NEW es \in Seq(Replies), Len(c.rows) \in Nat, Len(es) <= Len(c.rows),
           \A i \in 1..Len(es) :
              /\ es[i].tag = "D" /\ es[i] = DataRow(c.req, i, es[i].len)
              /\ es[i].len # NULL /\ c.rows[i] = ResultRow(c.req, i, es[i].len)
    PROVE  Leads(c, a, k, ds \o es, "rows", Len(es))
  <1>1. PICK at, got : /\ Path(c, at, got, ds) /\ at[0] = a /\ got[0] = k
                       /\ at[Len(ds)] = "rows" /\ got[Len(ds)] = 0
    BY DEF Leads
  <1>2. PICK n : n = Len(ds)
    OBVIOUS
  <1>3. PICK q : q = Len(es)
    OBVIOUS
  <1>4. PICK fs : fs = ds \o es
    OBVIOUS
  <1>5. /\ n \in Nat /\ q \in Nat /\ Len(fs) = n + q
        /\ \A i \in 1..(n + q) : fs[i] = IF i <= n THEN ds[i] ELSE es[i - n]
    BY <1>2, <1>3, <1>4, LenProperties, ConcatProperties
  <1>6. PICK w : w = [i \in 0..(n + q) |-> IF i <= n THEN at[i] ELSE "rows"]
    OBVIOUS
  <1>7. PICK v : v = [i \in 0..(n + q) |-> IF i <= n THEN got[i] ELSE i - n]
    OBVIOUS
  <1>8. /\ at \in [0..n -> Places] /\ got \in [0..n -> Nat]
        /\ \A i \in 0..n : Possible(c, at[i])
        /\ \A i \in 1..n : Moves(c, at[i - 1], got[i - 1], ds[i], at[i], got[i])
        /\ \A i, j \in 0..n : i <= j =>
              Stage(at[i]) <= Stage(at[j]) /\ got[i] <= got[j]
    BY <1>1, <1>2 DEF Path
  <1>9. /\ at[n] = "rows" /\ got[n] = 0 /\ n \in 0..n
    BY <1>1, <1>2, <1>5
  <1>10. \A i \in 0..n : i \in 0..(n + q) /\ w[i] = at[i] /\ v[i] = got[i]
    BY <1>5, <1>6, <1>7
  <1>11. ASSUME NEW i \in 0..(n + q), ~(i <= n)
         PROVE  w[i] = "rows" /\ v[i] = i - n /\ i - n \in 1..q
    BY <1>5, <1>6, <1>7, <1>11
  <1>12. \A i \in 0..(n + q) : i <= n => i \in 0..n
    BY <1>5
  <1>13. Possible(c, "rows") /\ "rows" \in Places /\ Stage("rows") = 0
    BY DEF Possible, Places, Stage
  <1>14. \A i \in 0..(n + q) : w[i] \in Places /\ v[i] \in Nat /\ Possible(c, w[i])
    <2>1. SUFFICES ASSUME NEW i \in 0..(n + q)
                   PROVE  w[i] \in Places /\ v[i] \in Nat /\ Possible(c, w[i])
      OBVIOUS
    <2>2. CASE i <= n
      BY <1>8, <1>10, <1>12, <2>2
    <2>3. CASE ~(i <= n)
      BY <1>5, <1>11, <1>13, <2>3
    <2> QED BY <2>2, <2>3
  <1>15. w \in [0..(n + q) -> Places] /\ v \in [0..(n + q) -> Nat]
    BY <1>6, <1>7, <1>14
  <1>16. ASSUME NEW i \in 1..(n + q)
         PROVE  Moves(c, w[i - 1], v[i - 1], fs[i], w[i], v[i])
    <2>1. CASE i <= n
      <3>1. i \in 1..n /\ i \in 0..n /\ i - 1 \in 0..n
        BY <1>5, <2>1
      <3>2. /\ w[i - 1] = at[i - 1] /\ v[i - 1] = got[i - 1] /\ fs[i] = ds[i]
            /\ w[i] = at[i] /\ v[i] = got[i]
        BY <1>5, <1>10, <2>1, <3>1
      <3> QED BY <1>8, <3>1, <3>2
    <2>2. CASE ~(i <= n)
      <3>1. i \in 0..(n + q) /\ i - 1 \in 0..(n + q)
        BY <1>5
      <3>2. w[i] = "rows" /\ v[i] = i - n /\ i - n \in 1..q /\ fs[i] = es[i - n]
        BY <1>5, <1>11, <2>2, <3>1
      <3>3. w[i - 1] = "rows" /\ v[i - 1] = (i - n) - 1
        <4>1. CASE i - 1 = n
          BY <1>5, <1>9, <1>10, <4>1
        <4>2. CASE i - 1 # n
          <5>1. ~(i - 1 <= n)
            BY <1>5, <2>2, <4>2
          <5>2. w[i - 1] = "rows" /\ v[i - 1] = (i - 1) - n
            BY <1>11, <3>1, <5>1
          <5> QED BY <1>5, <5>2
        <4> QED BY <4>1, <4>2
      <3>4. PICK j \in 1..q : j = i - n
        BY <3>2
      <3>5. /\ es[j].tag = "D" /\ es[j] = DataRow(c.req, j, es[j].len)
            /\ es[j].len # NULL /\ c.rows[j] = ResultRow(c.req, j, es[j].len)
        BY <1>3
      <3>6. fs[i] = es[j] /\ v[i] = j /\ v[i - 1] = j - 1 /\ j = (j - 1) + 1 /\ j <= Len(c.rows)
        <4>1. Len(es) = q /\ j <= q
          BY <1>3
        <4>2. j <= Len(c.rows)
          BY <1>5, <4>1
        <4> QED BY <3>2, <3>3, <3>4, <4>2
      <3> QED BY <3>2, <3>3, <3>5, <3>6 DEF Moves
    <2> QED BY <2>1, <2>2
  <1>17. ASSUME NEW i \in 0..(n + q), NEW j \in 0..(n + q), i <= j
         PROVE  Stage(w[i]) <= Stage(w[j]) /\ v[i] <= v[j]
    <2>1. CASE j <= n
      <3>1. i \in 0..n /\ j \in 0..n
        BY <1>5, <1>17, <2>1
      <3> QED BY <1>8, <1>10, <1>17, <3>1
    <2>2. CASE ~(j <= n) /\ i <= n
      <3>1. i \in 0..n
        BY <1>12, <2>2
      <3>2. Stage(at[i]) <= 0 /\ got[i] <= 0
        BY <1>8, <1>9, <1>13, <2>2, <3>1
      <3>3. w[j] = "rows" /\ v[j] = j - n /\ j - n \in 1..q
        BY <1>11, <2>2
      <3>4. got[i] \in Nat /\ got[i] <= j - n
        BY <1>8, <3>1, <3>2, <3>3
      <3> QED BY <1>10, <1>13, <3>1, <3>2, <3>3, <3>4
    <2>3. CASE ~(j <= n) /\ ~(i <= n)
      <3>1. w[i] = "rows" /\ v[i] = i - n /\ w[j] = "rows" /\ v[j] = j - n
        BY <1>11, <2>3
      <3> QED BY <1>5, <1>13, <1>17, <3>1
    <2> QED BY <2>1, <2>2, <2>3
  <1>18. Path(c, w, v, fs)
    BY <1>5, <1>14, <1>15, <1>16, <1>17 DEF Path
  <1>19. w[0] = a /\ v[0] = k
    BY <1>1, <1>5, <1>10, SMTT(30)
  <1>20. w[n + q] = "rows" /\ v[n + q] = q
    <2>1. CASE q = 0
      <3>1. n + q = n
        BY <1>5, <2>1
      <3> QED BY <1>9, <1>10, <2>1, <3>1
    <2>2. CASE q # 0
      <3>1. n + q \in 0..(n + q) /\ ~(n + q <= n) /\ (n + q) - n = q
        BY <1>5, <2>2
      <3> QED BY <1>11, <3>1
    <2> QED BY <2>1, <2>2
  <1> QED BY <1>3, <1>4, <1>5, <1>18, <1>19, <1>20 DEF Leads

\* What is under way between requests.
LEMMA LeadsOver ==
    ASSUME NEW c, NEW ds \in Seq(Replies), NEW a, NEW k, NEW b, NEW l,
           Leads(c, a, k, ds, b, l), a \in {"idle", "lost"}
    PROVE  /\ b \in {"idle", "lost"}
           /\ \A i \in 1..Len(ds) : \/ ds[i].tag = "N"
                                    \/ ds[i].tag = "E" /\ c.peer = "gone"
  <1>1. PICK at, got : /\ Path(c, at, got, ds)
                       /\ at[0] = a /\ got[0] = k /\ at[Len(ds)] = b /\ got[Len(ds)] = l
    BY DEF Leads
  <1>2. Len(ds) \in Nat /\ Len(ds) \in 0..Len(ds) /\ 0 \in 0..Len(ds)
    BY LenProperties
  <1>3. ASSUME NEW i \in 0..Len(ds) PROVE at[i] \in {"idle", "lost"}
    <2>1. Stage(a) <= Stage(at[i])
      BY <1>1, <1>2 DEF Path
    <2> QED BY <2>1 DEF Stage
  <1>4. ASSUME NEW i \in 1..Len(ds)
        PROVE  ds[i].tag = "N" \/ (ds[i].tag = "E" /\ c.peer = "gone")
    <2>1. i \in 0..Len(ds) /\ i - 1 \in 0..Len(ds)
      BY <1>2
    <2>2. at[i] \in {"idle", "lost"} /\ at[i - 1] \in {"idle", "lost"}
      BY <1>3, <2>1
    <2>3. Moves(c, at[i - 1], got[i - 1], ds[i], at[i], got[i])
      BY <1>1 DEF Path
    <2> QED BY <2>2, <2>3 DEF Moves, Passes
  <1> QED BY <1>1, <1>2, <1>3, <1>4

\* Notices lead nowhere, nor does an error where the connection is lost.
LEMMA LeadsFlat ==
    ASSUME NEW c, NEW ds \in Seq(Replies), NEW a, Possible(c, a), a # "asked",
           \A i \in 1..Len(ds) : \/ ds[i].tag = "N"
                                 \/ ds[i].tag = "E" /\ c.peer = "gone" /\ a = "lost"
    PROVE  Leads(c, a, 0, ds, a, 0)
  <1>1. PICK at : at = [i \in 0..Len(ds) |-> a]
    OBVIOUS
  <1>2. PICK got : got = [i \in 0..Len(ds) |-> 0]
    OBVIOUS
  <1>3. \A i \in 0..Len(ds) : at[i] = a /\ got[i] = 0
    BY <1>1, <1>2
  <1>4. Len(ds) \in Nat /\ Len(ds) \in 0..Len(ds) /\ 0 \in 0..Len(ds) /\ Stage(a) \in Int
    BY LenProperties DEF Stage
  <1>5. at \in [0..Len(ds) -> Places] /\ got \in [0..Len(ds) -> Nat]
    BY <1>1, <1>2 DEF Possible
  <1>6. ASSUME NEW i \in 1..Len(ds)
        PROVE  Moves(c, at[i - 1], got[i - 1], ds[i], at[i], got[i])
    <2>1. i \in 0..Len(ds) /\ i - 1 \in 0..Len(ds)
      BY <1>4
    <2>2. at[i] = a /\ at[i - 1] = a /\ got[i] = 0 /\ got[i - 1] = 0
      BY <1>3, <2>1
    <2> QED BY <2>2 DEF Moves, Passes
  <1>7. Path(c, at, got, ds)
    BY <1>3, <1>4, <1>5, <1>6 DEF Path
  <1> QED BY <1>3, <1>4, <1>7 DEF Leads

-----------------------------------------------------------------------------
(* The client's steps keep the connection in step *)

\* What a message means, before and after a step.
LEMMA ContextFacts ==
    /\ Context.peer = peer /\ Context.req = client.req /\ Context.served = server.req
    /\ Context.rows = Result.rows /\ Context.count = Result.count
    /\ Context'.peer = peer' /\ Context'.req = client'.req /\ Context'.served = server'.req
    /\ Context'.rows = Result'.rows /\ Context'.count = Result'.count
  BY DEF Context

\* The result has rows and a count.
LEMMA ResultFacts ==
    ASSUME Typed
    PROVE  Result.rows \in Seq(Row) /\ Len(Result.rows) \in Nat /\ Result.count \in Nat
  <1>1. Result \in [rows : Seq(Row), count : Nat]
    BY DEF Result, Typed, Server
  <1> QED BY <1>1, LenProperties

\* A connection that is neither closed nor given up, and has carried no NULL.
InUse == ~server.nulls /\ client.phase \notin {"closed", "dead"}

\* The client has a message: it leads from where the client is to the next place.
LEMMA ReadFacts ==
    ASSUME Typed, InStep, InUse, Received
    PROVE  \E a, k, x, y, b, l :
              /\ AtClient(a, k) /\ k \in Nat /\ y \in Nat
              /\ Moves(Context, a, k, m, x, y) /\ Possible(Context, x)
              /\ Leads(Context, x, y, Tail(down), b, l)
              /\ peer = "open" => AtServer(b, l)
  <1>1. PICK a, k, b, l : /\ Leads(Context, a, k, down, b, l) /\ AtClient(a, k)
                          /\ peer = "open" => AtServer(b, l)
    BY DEF InStep, InUse
  <1>2. down \in Seq(Replies) /\ down # <<>>
    BY DEF Typed, Received
  <1>3. PICK x, y : /\ Moves(Context, a, k, Head(down), x, y)
                    /\ Leads(Context, x, y, Tail(down), b, l)
                    /\ Possible(Context, x) /\ y \in Nat
    BY <1>1, <1>2, LeadsTail
  <1>4. k \in Nat
    BY <1>1, <1>2, LeadsFacts
  <1> QED BY <1>1, <1>3, <1>4 DEF m

\* The client has read it.
LEMMA ReadStep ==
    ASSUME Typed, Received, down' = Tail(down), UNCHANGED <<server, up, peer>>,
           client'.req = client.req, client.phase # "new", client'.phase # "new",
           NEW x, NEW y, NEW b, NEW l, Leads(Context, x, y, Tail(down), b, l),
           peer = "open" => AtServer(b, l), AtClient(x, y)'
    PROVE  InStep'
  <1>1. Result' = Result
    BY DEF Result
  <1>2. Tail(down) \in Seq(Replies)
    BY ReceivedFacts
  <1>3. Leads(Context', x, y, Tail(down), b, l)
    BY <1>1, <1>2, ContextFacts, LeadsKept
  <1>4. peer' = "open" => AtServer(b, l)'
    BY DEF AtServer
  <1>5. Leads(Context, x, y, down, b, l)'
    BY <1>3
  <1> QED BY <1>4, <1>5 DEF InStep

\* A length that announces no NULL is read as it is.
LEMMA LengthFacts ==
    ASSUME NEW n \in FieldLengths, n # NULL
    PROVE  n \in Nat /\ n % Word = n
  <1>1. n \in Nat
    BY WireAssumption DEF NULL
  <1>2. n % Word = n
    BY WireAssumption DEF NULL
  <1> QED BY <1>1, <1>2

\* A row that is no NULL is parsed to what the server sent.
LEMMA ParseFacts ==
    ASSUME NEW d \in Replies, d.tag = "D", d.len # NULL
    PROVE  /\ _parseDataRow(d) = ResultRow(d.req, d.row, d.len)
           /\ client.columns => Parses(d)
  <1>1. d.len \in FieldLengths
    BY ReplyFacts
  <1>2. d.len \in Nat /\ d.len % Word = d.len
    BY <1>1, LengthFacts
  <1>3. bodyReadInt32(d.len) = d.len /\ d.len # -1
    BY <1>2 DEF bodyReadInt32
  <1> QED BY <1>3 DEF _parseDataRow, Parses

\* _authenticate answers the server's challenge.
LEMMA AuthenticateInStep ==
    ASSUME Typed, InStep, InUse, _authenticate
    PROVE  InStep'
  <1>1. Received /\ down' = Tail(down) /\ UNCHANGED <<server, peer>>
    BY DEF _authenticate
  <1>2. PICK a, k, x, y, b, l :
              /\ AtClient(a, k) /\ k \in Nat /\ y \in Nat
              /\ Moves(Context, a, k, m, x, y) /\ Possible(Context, x)
              /\ Leads(Context, x, y, Tail(down), b, l)
              /\ peer = "open" => AtServer(b, l)
    BY <1>1, ReadFacts
  <1>3. PICK t \in AuthTransitions : /\ Expected(t)
                                     /\ client' = [client EXCEPT !.phase = t.to]
                                     /\ up' = Sent(t.reply)
    BY DEF _authenticate
  <1>4. /\ client \in Client /\ m \in Replies /\ Tail(down) \in Seq(Replies)
        /\ up \in Seq(Requests)
    BY <1>1, ReceivedFacts DEF Typed
  <1>5. /\ client.phase \in {"auth", "sasl", "saslFinal", "authOk"}
        /\ m.tag = "R" /\ m.type = t.type
    BY <1>3 DEF Expected, Auth, AuthTransitions
  <1>6. client.outcome = "none" /\ (a = "auth" \/ (a = "asked" /\ peer = "gone"))
    BY <1>2, <1>5 DEF AtClient
  <1>7. a = "auth" /\ y = k
    BY <1>2, <1>5, <1>6 DEF Moves, Passes
  <1>8. Passes(Context, "auth", m, x)
    BY <1>2, <1>5, <1>7 DEF Moves
  <1>9. /\ client'.phase = t.to /\ client'.req = client.req /\ client'.outcome = "none"
    BY <1>3, <1>4, <1>6 DEF Client
  <1>10. CASE t.type \in {"Ok", "SASLFinal"}
    <2>1. t.reply = <<>> /\ (t.type = "Ok" => t.to = "drain")
          /\ (t.type = "SASLFinal" => t.to = "authOk")
      BY <1>10 DEF AuthTransitions
    <2>2. up' = up
      BY <1>3, <1>4, <2>1, ConcatProperties, EmptySeq DEF Sent
    <2>3. AtClient(x, y)'
      BY <1>5, <1>8, <1>9, <1>10, <2>1 DEF AtClient, Passes
    <2>4. client.phase # "new" /\ client'.phase # "new"
      BY <1>5, <1>9, <1>10, <2>1
    <2> QED BY <1>1, <1>2, <1>9, <2>2, <2>3, <2>4, ReadStep
  <1>11. CASE t.type \notin {"Ok", "SASLFinal"}
    <2>1. t.reply = <<Msg("p")>> /\ t.to \in {"sasl", "saslFinal", "authOk"}
      BY <1>11 DEF AuthTransitions
    <2>2. x = "asked"
      BY <1>5, <1>8, <1>11 DEF Passes
    <2>3. client.phase # "new" /\ client'.phase # "new"
      BY <1>5, <1>9, <2>1
    <2>4. CASE peer # "open"
      <3>1. peer = "gone" /\ up' = up
        BY <1>3, <2>4 DEF Sent, Typed
      <3>2. AtClient(x, y)'
        BY <1>1, <1>9, <2>1, <2>2, <3>1 DEF AtClient
      <3> QED BY <1>1, <1>2, <1>9, <2>3, <3>1, <3>2, ReadStep
    <2>5. CASE peer = "open"
      <3>1. Tail(down) = <<>>
        <4>1. SUFFICES ASSUME Tail(down) # <<>> PROVE FALSE
          OBVIOUS
        <4>2. PICK u, v : Moves(Context, x, y, Head(Tail(down)), u, v)
          BY <1>2, <1>4, <4>1, LeadsTail
        <4>3. Context.peer = "open"
          BY <2>5, ContextFacts
        <4> QED BY <2>2, <4>2, <4>3 DEF Moves, Passes
      <3>2. b = "asked"
        <4>1. Tail(down) = <<>> => x = b
          BY <1>2, <1>4, LeadsFacts
        <4> QED BY <2>2, <3>1, <4>1
      <3>3. /\ up = <<>> /\ server.phase \in AuthPhases
            /\ server.req = 1 /\ client.req = 0
        BY <1>2, <2>5, <3>2 DEF AtServer
      <3>4. up' = <<Msg("p")>>
        <4>1. Msg("p") \in Requests
          BY RequestTypes
        <4>2. <<Msg("p")>> \in Seq(Requests)
          BY <4>1
        <4> QED BY <1>3, <2>1, <2>5, <3>3, <4>2, ConcatProperties, EmptySeq DEF Sent
      <3>5. Possible(Context', "auth")
        BY DEF Possible, Places
      <3>6. Leads(Context', "auth", 0, <<>>, "auth", 0)
        BY <3>5, LeadsNowhere
      <3>7. Leads(Context, "auth", 0, down, "auth", 0)'
        BY <1>1, <3>1, <3>6
      <3>8. AtServer("auth", 0)'
        BY <1>1, <1>9, <2>3, <3>3, <3>4 DEF AtServer
      <3>9. AtClient("auth", 0)'
        BY <1>9, <2>1 DEF AtClient
      <3> QED BY <3>7, <3>8, <3>9 DEF InStep
    <2> QED BY <2>4, <2>5
  <1> QED BY <1>10, <1>11

\* The constructor reads up to ReadyForQuery.
LEMMA DrainInStep ==
    ASSUME Typed, InStep, InUse, _drainToReady
    PROVE  InStep'
  <1>1. /\ Received /\ down' = Tail(down) /\ UNCHANGED <<server, up, peer>>
        /\ client.phase = "drain" /\ m.tag # "E"
        /\ client' = IF m.tag = "Z" THEN [client EXCEPT !.phase = "idle"] ELSE client
    BY DEF _drainToReady, In
  <1>2. PICK a, k, x, y, b, l :
              /\ AtClient(a, k) /\ k \in Nat /\ y \in Nat
              /\ Moves(Context, a, k, m, x, y) /\ Possible(Context, x)
              /\ Leads(Context, x, y, Tail(down), b, l)
              /\ peer = "open" => AtServer(b, l)
    BY <1>1, ReadFacts
  <1>3. a = "drain" /\ client.outcome = "none" /\ client \in Client
    BY <1>1, <1>2 DEF AtClient, Typed
  <1>4. Passes(Context, a, m, x) /\ y = k
    BY <1>2, <1>3 DEF Moves
  <1>5. \/ m.tag = "Z" /\ x = "idle"
        \/ m.tag # "Z" /\ x = "drain"
    BY <1>1, <1>3, <1>4 DEF Passes
  <1>6. client'.req = client.req /\ client'.phase # "new" /\ client'.outcome = "none"
    BY <1>1, <1>3 DEF Client
  <1>7. AtClient(x, y)'
    BY <1>1, <1>3, <1>5, <1>6 DEF AtClient, Client
  <1> QED BY <1>1, <1>2, <1>6, <1>7, ReadStep

\* The start-up message is the first.
LEMMA ConnectInStep ==
    ASSUME Typed, InStep, InUse, Connect
    PROVE  InStep'
  <1>1. /\ client.phase = "new" /\ client' = [client EXCEPT !.phase = "auth"]
        /\ up' = Sent(<<Msg("Startup")>>) /\ UNCHANGED <<server, down, peer>>
    BY DEF Connect, In
  <1>2. PICK a, k, b, l : /\ Leads(Context, a, k, down, b, l) /\ AtClient(a, k)
                          /\ peer = "open" => AtServer(b, l)
    BY DEF InStep, InUse
  <1>3. /\ a = "auth" /\ client.outcome = "none" /\ (peer = "open" => down = <<>>)
    BY <1>1, <1>2 DEF AtClient
  <1>4. client'.phase = "auth" /\ client'.req = client.req /\ client'.outcome = "none"
    BY <1>1, <1>3 DEF Typed, Client
  <1>5. Result' = Result
    BY <1>1, <1>4 DEF Result
  <1>6. Leads(Context', a, k, down, b, l)
    BY <1>1, <1>2, <1>4, <1>5, ContextFacts, LeadsKept DEF Typed
  <1>7. Leads(Context, a, k, down, b, l)'
    BY <1>1, <1>6
  <1>8. AtClient(a, k)'
    BY <1>3, <1>4 DEF AtClient
  <1>9. ASSUME peer' = "open" PROVE AtServer(b, l)'
    <2>1. peer = "open" /\ down = <<>>
      BY <1>1, <1>3, <1>9
    <2>2. b = a
      <3>1. down = <<>> => a = b
        BY <1>2, LeadsFacts DEF Typed
      <3> QED BY <2>1, <3>1
    <2>3. up = <<>> /\ server.phase \in AuthPhases /\ server.req = 1 /\ client.req = 0
      BY <1>1, <1>2, <1>3, <2>1, <2>2 DEF AtServer
    <2>4. Len(up') = 1
      <3>1. Msg("Startup") \in Requests
        BY RequestTypes
      <3>2. <<Msg("Startup")>> \in Seq(Requests) /\ Len(<<Msg("Startup")>>) = 1
        BY <3>1
      <3> QED BY <1>1, <2>1, <2>3, <3>2, ConcatProperties, EmptySeq DEF Sent
    <2> QED BY <1>1, <1>3, <1>4, <2>2, <2>3, <2>4 DEF AtServer
  <1> QED BY <1>7, <1>8, <1>9 DEF InStep

\* query() reads a message of its answer.
LEMMA ReadsInStep ==
    ASSUME Typed, InStep, InUse, QueryReads
    PROVE  InStep'
  <1>1. /\ Received /\ down' = Tail(down) /\ UNCHANGED <<server, up, peer>>
        /\ client.phase = "result"
    BY DEF QueryReads, In
  <1>2. PICK a, k, x, y, b, l :
              /\ AtClient(a, k) /\ k \in Nat /\ y \in Nat
              /\ Moves(Context, a, k, m, x, y) /\ Possible(Context, x)
              /\ Leads(Context, x, y, Tail(down), b, l)
              /\ peer = "open" => AtServer(b, l)
    BY <1>1, ReadFacts
  <1>3. /\ client \in Client /\ m \in Replies /\ Result.rows \in Seq(Row)
        /\ client.rows \in Seq(Row) /\ Len(Result.rows) \in Nat
    BY <1>1, ReceivedFacts, ResultFacts DEF Typed, Client
  <1>4. \/ a = "lost"
        \/ /\ a \in {"parse", "bind", "describe", "rows", "noRows", "sync"}
           /\ HasRows(k)
           /\ a = "rows" => client.columns = TRUE
           /\ a = "sync" => k = Len(Result.rows) /\ client.count = Result.count
    BY <1>1, <1>2 DEF AtClient
  <1>5. /\ client'.req = client.req /\ client'.phase \in {"result", "drainError"}
    BY <1>1, <1>3 DEF QueryReads, Client
  <1>6. Result' = Result
    BY <1>1, <1>5 DEF Result
  <1>7. /\ Context.rows = Result.rows /\ Context.count = Result.count
        /\ Context.req = client.req /\ Context.peer = peer
    BY ContextFacts
  <1>8. SUFFICES AtClient(x, y)'
    BY <1>1, <1>2, <1>5, ReadStep
  <1>9. CASE m.tag \notin {"T", "D", "C", "E", "Z"}
    <2>1. client' = client
      BY <1>9 DEF QueryReads
    <2>2. Passes(Context, a, m, x) /\ y = k
      BY <1>2, <1>9 DEF Moves
    <2>3. CASE a = "lost"
      <3>1. x = "lost"
        BY <1>9, <2>2, <2>3 DEF Passes
      <3> QED BY <1>1, <2>1, <3>1 DEF AtClient
    <2>4. CASE a # "lost"
      <3>1. x = a \/ x \in {"bind", "describe", "noRows"}
        BY <1>4, <1>9, <2>2, <2>4 DEF Passes
      <3>2. HasRows(k)'
        BY <1>4, <1>6, <2>1, <2>4 DEF HasRows
      <3> QED BY <1>1, <1>4, <1>6, <2>1, <2>2, <2>4, <3>1, <3>2 DEF AtClient
    <2> QED BY <2>3, <2>4
  <1>10. CASE m.tag = "T"
    <2>1. client' = [client EXCEPT !.columns = TRUE]
      BY <1>10 DEF QueryReads
    <2>2. Passes(Context, a, m, x) /\ y = k
      BY <1>2, <1>10 DEF Moves
    <2>3. a = "describe" /\ x = "rows"
      BY <1>10, <2>2 DEF Passes
    <2>4. /\ client'.columns = TRUE /\ client'.phase = "result"
          /\ client'.rows = client.rows
      BY <1>1, <1>3, <2>1 DEF Client
    <2>5. HasRows(k)'
      BY <1>4, <1>6, <2>3, <2>4 DEF HasRows
    <2> QED BY <2>2, <2>3, <2>4, <2>5 DEF AtClient
  <1>11. CASE m.tag = "D"
    <2>1. client' = [client EXCEPT !.rows = Append(client.rows, _parseDataRow(m))]
      BY <1>3, <1>11 DEF QueryReads, Client
    <2>2. /\ a = "rows" /\ x = "rows" /\ y = k + 1 /\ y <= Len(Result.rows)
          /\ m = DataRow(client.req, y, m.len) /\ m.len # NULL
          /\ Result.rows[y] = ResultRow(client.req, y, m.len)
      BY <1>2, <1>7, <1>11 DEF Moves, Passes
    <2>3. _parseDataRow(m) = Result.rows[y]
      <3>1. m.req = client.req /\ m.row = y
        BY <2>2 DEF DataRow
      <3> QED BY <1>3, <1>11, <2>2, <3>1, ParseFacts
    <2>4. /\ client'.phase = "result" /\ client'.columns = client.columns
          /\ client'.rows = Append(client.rows, Result.rows[y])
      BY <1>1, <1>3, <2>1, <2>3 DEF Client
    <2>5. HasRows(k)
      BY <1>4, <2>2
    <2>6. y \in 1..Len(Result.rows)
      BY <1>2, <1>3, <2>2
    <2>7. Result.rows[y] \in Row
      BY <1>3, <2>6, ElementOfSeq
    <2>8. /\ Len(client'.rows) = y /\ client'.rows[y] = Result.rows[y]
          /\ \A i \in 1..k : client'.rows[i] = client.rows[i]
      <3>1. Len(client.rows) = k
        BY <2>5 DEF HasRows
      <3> QED BY <1>3, <2>2, <2>4, <2>7, <3>1, AppendProperties
    <2>9. \A i \in 1..y : i = y \/ i \in 1..k
      BY <1>2, <2>2
    <2>10. \A i \in 1..y : client'.rows[i] = Result.rows[i]
      BY <2>5, <2>8, <2>9 DEF HasRows
    <2>11. HasRows(y)'
      BY <1>6, <2>2, <2>8, <2>10 DEF HasRows
    <2> QED BY <1>4, <2>2, <2>4, <2>11 DEF AtClient
  <1>12. CASE m.tag = "C"
    <2>1. client' = [client EXCEPT !.count = m.count]
      BY <1>12 DEF QueryReads
    <2>2. /\ a \in {"rows", "noRows"} /\ x = "sync" /\ y = k
          /\ k = Len(Result.rows) /\ m.count = Result.count
      BY <1>2, <1>7, <1>12 DEF Moves, Passes
    <2>3. /\ client'.phase = "result" /\ client'.rows = client.rows
          /\ client'.count = Result.count
      BY <1>1, <1>3, <2>1, <2>2 DEF Client
    <2>4. HasRows(k)'
      BY <1>4, <1>6, <2>2, <2>3 DEF HasRows
    <2> QED BY <1>6, <2>2, <2>3, <2>4 DEF AtClient
  <1>13. CASE m.tag = "E"
    <2>1. client' = [client EXCEPT !.phase = "drainError"]
      BY <1>13 DEF QueryReads
    <2>2. x \in {"skip", "lost"}
      BY <1>2, <1>13 DEF Moves, Passes
    <2> QED BY <1>3, <2>1, <2>2 DEF AtClient, Client
  <1> QED BY <1>9, <1>10, <1>11, <1>12, <1>13 DEF QueryReads

\* query() returns at ReadyForQuery, with the whole result.
LEMMA ReturnsInStep ==
    ASSUME Typed, InStep, InUse, QueryReturns
    PROVE  InStep'
  <1>1. /\ Received /\ down' = Tail(down) /\ UNCHANGED <<server, up, peer>>
        /\ client.phase = "result" /\ m.tag = "Z"
        /\ client' = [client EXCEPT !.phase = "idle", !.outcome = "returned"]
    BY DEF QueryReturns, In, Ends
  <1>2. PICK a, k, x, y, b, l :
              /\ AtClient(a, k) /\ k \in Nat /\ y \in Nat
              /\ Moves(Context, a, k, m, x, y) /\ Possible(Context, x)
              /\ Leads(Context, x, y, Tail(down), b, l)
              /\ peer = "open" => AtServer(b, l)
    BY <1>1, ReadFacts
  <1>3. /\ client \in Client /\ Result.rows \in Seq(Row) /\ client.rows \in Seq(Row)
    BY ResultFacts DEF Typed, Client
  <1>4. a \in {"drain", "sync", "skip"} /\ x = "idle"
    BY <1>1, <1>2 DEF Moves, Passes
  <1>5. HasRows(k) /\ k = Len(Result.rows) /\ client.count = Result.count
    BY <1>1, <1>2, <1>4 DEF AtClient
  <1>6. client.rows = Result.rows
    BY <1>3, <1>5, SeqEqual DEF HasRows
  <1>7. /\ client'.req = client.req /\ client'.phase = "idle"
        /\ client'.rows = client.rows /\ client'.count = client.count
    BY <1>1, <1>3 DEF Client
  <1>8. Result' = Result
    BY <1>1, <1>7 DEF Result
  <1>9. AtClient(x, y)'
    BY <1>4, <1>5, <1>6, <1>7, <1>8 DEF AtClient
  <1> QED BY <1>1, <1>2, <1>7, <1>9, ReadStep

\* Without a NULL, _parseDataRow does not throw.
LEMMA ParsesInStep ==
    ASSUME Typed, InStep, InUse
    PROVE  ~QueryParseThrows
  <1> SUFFICES ASSUME QueryParseThrows PROVE FALSE
    OBVIOUS
  <1>1. Received /\ client.phase = "result" /\ m.tag = "D" /\ ~Parses(m)
    BY DEF QueryParseThrows, In
  <1>2. PICK a, k, x, y : AtClient(a, k) /\ Moves(Context, a, k, m, x, y)
    BY <1>1, ReadFacts
  <1>3. a = "rows" /\ m.len # NULL
    BY <1>1, <1>2 DEF Moves, Passes
  <1>4. client.columns = TRUE
    BY <1>1, <1>2, <1>3 DEF AtClient
  <1>5. m \in Replies
    BY <1>1, ReceivedFacts
  <1> QED BY <1>1, <1>3, <1>4, <1>5, ParseFacts

\* After an error the answer is read to its end.
LEMMA DrainsInStep ==
    ASSUME Typed, InStep, InUse, QueryDrains
    PROVE  InStep'
  <1>1. /\ Received /\ down' = Tail(down) /\ UNCHANGED <<server, up, peer>>
        /\ client.phase = "drainError"
        /\ client' = IF m.tag \in {"Z", "E"}
                     THEN [client EXCEPT !.phase = "idle", !.outcome = "threw"]
                     ELSE client
    BY DEF QueryDrains, In, Ends
  <1>2. PICK a, k, x, y, b, l :
              /\ AtClient(a, k) /\ k \in Nat /\ y \in Nat
              /\ Moves(Context, a, k, m, x, y) /\ Possible(Context, x)
              /\ Leads(Context, x, y, Tail(down), b, l)
              /\ peer = "open" => AtServer(b, l)
    BY <1>1, ReadFacts
  <1>3. client \in Client
    BY DEF Typed
  <1>4. a \in {"skip", "lost"}
    BY <1>1, <1>2 DEF AtClient
  <1>5. \/ m.tag = "Z" /\ x = "idle"
        \/ m.tag = "E" /\ x = "lost"
        \/ m.tag \notin {"Z", "E"} /\ x = a
    BY <1>2, <1>4 DEF Moves, Passes
  <1>6. client'.req = client.req /\ client'.phase # "new"
    BY <1>1, <1>3 DEF Client
  <1>7. AtClient(x, y)'
    <2>1. CASE m.tag \in {"Z", "E"}
      <3>1. client'.phase = "idle" /\ client'.outcome = "threw"
        BY <1>1, <1>3, <2>1 DEF Client
      <3> QED BY <1>5, <2>1, <3>1 DEF AtClient
    <2>2. CASE m.tag \notin {"Z", "E"}
      BY <1>1, <1>4, <1>5, <2>2 DEF AtClient
    <2> QED BY <2>1, <2>2
  <1> QED BY <1>1, <1>2, <1>6, <1>7, ReadStep

\* The connection is lost in a query, or found lost by one.
LEMMA LosesInStep ==
    ASSUME Typed, InStep, InUse, QueryLosesConnection \/ QuerySendThrows
    PROVE  InStep'
  <1>1. /\ peer = "gone" /\ UNCHANGED <<server, up, down, peer>> /\ client \in Client
        /\ down \in Seq(Replies)
    BY DEF QueryLosesConnection, QuerySendThrows, ConnectionLost, Typed
  <1>2. PICK a, k, b, l : /\ Leads(Context, a, k, down, b, l) /\ AtClient(a, k)
                          /\ peer = "open" => AtServer(b, l)
    BY DEF InStep, InUse
  <1>3. \A i \in 1..Len(down) : down[i].tag = "N" \/ down[i].tag = "E"
    <2>1. CASE QueryLosesConnection
      <3>1. Len(down) = 0
        BY <2>1, EmptySeq DEF QueryLosesConnection, ConnectionLost
      <3> QED BY <3>1
    <2>2. CASE QuerySendThrows
      <3>1. a \in {"idle", "lost"}
        BY <1>2, <2>2 DEF QuerySendThrows, In, AtClient
      <3> QED BY <1>1, <1>2, <3>1, LeadsOver
    <2> QED BY <2>1, <2>2
  <1>4. client'.phase = "idle" /\ client'.outcome = "threw"
    <2>1. CASE QueryLosesConnection
      BY <1>1, <2>1 DEF QueryLosesConnection, Ends, Client
    <2>2. CASE QuerySendThrows
      <3>1. client.phase = "idle"
            /\ client' = [client EXCEPT !.req = client.req + 1, !.outcome = "threw"]
        BY <1>1, <2>2 DEF QuerySendThrows, In, Client
      <3> QED BY <1>1, <3>1 DEF Client
    <2> QED BY <2>1, <2>2
  <1>5. Possible(Context', "lost")
    BY <1>1, ContextFacts DEF Possible, Places
  <1>6. Leads(Context', "lost", 0, down, "lost", 0)
    BY <1>1, <1>3, <1>5, ContextFacts, LeadsFlat
  <1>7. Leads(Context, "lost", 0, down, "lost", 0)'
    BY <1>1, <1>6
  <1>8. AtClient("lost", 0)' /\ ~(peer' = "open")
    BY <1>1, <1>4 DEF AtClient
  <1> QED BY <1>7, <1>8 DEF InStep

\* query() sends a request.
LEMMA QueryInStep ==
    ASSUME Typed, InStep, InUse, query
    PROVE  InStep'
  <1>1. /\ UNCHANGED <<server, down, peer>> /\ client.phase = "idle"
        /\ client'.phase = "result" /\ client'.req = client.req + 1
        /\ client'.rows = <<>> /\ up' = Sent(Request1)
        /\ down \in Seq(Replies) /\ peer \in {"open", "gone"}
    BY DEF query, In, Request1, Typed
  <1>2. PICK a, k, b, l : /\ Leads(Context, a, k, down, b, l) /\ AtClient(a, k)
                          /\ peer = "open" => AtServer(b, l)
    BY DEF InStep, InUse
  <1>3. a \in {"idle", "lost"}
    BY <1>1, <1>2 DEF AtClient
  <1>4. /\ b \in {"idle", "lost"}
        /\ \A i \in 1..Len(down) : \/ down[i].tag = "N"
                                   \/ down[i].tag = "E" /\ Context.peer = "gone"
    BY <1>1, <1>2, <1>3, LeadsOver
  <1>5. CASE peer = "gone"
    <2>1. Possible(Context', "lost")
      BY <1>1, <1>5, ContextFacts DEF Possible, Places
    <2>2. Leads(Context', "lost", 0, down, "lost", 0)
      BY <1>1, <1>4, <1>5, <2>1, ContextFacts, LeadsFlat
    <2>3. Leads(Context, "lost", 0, down, "lost", 0)'
      BY <1>1, <2>2
    <2>4. AtClient("lost", 0)' /\ ~(peer' = "open")
      BY <1>1, <1>5 DEF AtClient
    <2> QED BY <2>3, <2>4 DEF InStep
  <1>6. CASE peer = "open"
    <2>1. Possible(Context, b)
      BY <1>1, <1>2, LeadsFacts
    <2>2. b = "idle" /\ server.req = client.req + 1
      BY <1>4, <1>6, <2>1, ContextFacts DEF Possible
    <2>3. up = <<>> /\ server.phase = "ready"
      BY <1>2, <1>6, <2>2 DEF AtServer
    <2>4. up' = Request1
      BY <1>1, <1>6, <2>3, RequestTypes, ConcatProperties, EmptySeq DEF Sent
    <2>5. Possible(Context', "parse")
      BY DEF Possible, Places
    <2>6. \A i \in 1..Len(down) : down[i].tag = "N"
      BY <1>4, <1>6, ContextFacts
    <2>7. Leads(Context', "parse", 0, down, "parse", 0)
      BY <1>1, <2>5, <2>6, LeadsFlat
    <2>8. Leads(Context, "parse", 0, down, "parse", 0)'
      BY <1>1, <2>7
    <2>9. AtServer("parse", 0)'
      BY <1>1, <2>2, <2>3, <2>4 DEF AtServer
    <2>10. HasRows(0)'
      <3>1. Result' = [rows |-> server.rows, count |-> server.count]
        BY <1>1, <2>2 DEF Result
      <3>2. Len(Result'.rows) \in Nat
        BY <3>1, LenProperties DEF Typed, Server
      <3>3. Len(client'.rows) = 0
        BY <1>1, EmptySeq
      <3>4. 0 <= Len(Result'.rows) /\ \A i \in 1..0 : FALSE
        BY <3>2
      <3> QED BY <3>3, <3>4 DEF HasRows
    <2>11. AtClient("parse", 0)'
      BY <1>1, <2>10 DEF AtClient
    <2> QED BY <2>8, <2>9, <2>11 DEF InStep
  <1> QED BY <1>1, <1>5, <1>6

-----------------------------------------------------------------------------
(* The server's steps keep the connection in step *)

\* The server's step does not disturb the client, whose place keeps its meaning.
LEMMA ClientStays ==
    ASSUME UNCHANGED client, Result' = Result, peer' = peer \/ peer' = "gone",
           client.phase # "new" \/ peer' = "gone" \/ down' = down,
           NEW a, NEW k, AtClient(a, k)
    PROVE  AtClient(a, k)'
  <1>1. ASSUME HasRows(k) PROVE HasRows(k)'
    BY <1>1 DEF HasRows
  <1> QED BY <1>1 DEF AtClient

\* The server answers with one message, from the place where it is.
LEMMA SayStep ==
    ASSUME Typed, UNCHANGED <<client, peer>>, Result' = Result,
           server'.req = server.req \/ server'.req = client.req + 1,
           client.phase # "new",
           NEW a, NEW k, NEW b, NEW l, Leads(Context, a, k, down, b, l), AtClient(a, k),
           NEW d \in Replies, down' = Append(down, d),
           NEW b2, Passes(Context', b, d, b2), Possible(Context', b2),
           Stage(b) <= Stage(b2), peer = "open" => AtServer(b2, l)'
    PROVE  InStep'
  <1>1. down \in Seq(Replies)
    BY DEF Typed
  <1>2. Leads(Context', a, k, down, b, l)
    BY <1>1, ContextFacts, LeadsKept
  <1>3. l \in Nat /\ l <= l
    BY <1>1, <1>2, LeadsFacts
  <1>4. Moves(Context', b, l, d, b2, l)
    BY DEF Moves
  <1>5. Leads(Context', a, k, Append(down, d), b2, l)
    BY <1>1, <1>2, <1>3, <1>4, LeadsAppend
  <1>6. Leads(Context, a, k, down, b2, l)'
    BY <1>5
  <1>7. AtClient(a, k)'
    BY ClientStays
  <1> QED BY <1>6, <1>7 DEF InStep

\* The server takes a message and answers with one; its rows stay as they are.
LEMMA ServesStep ==
    ASSUME Typed, NEW tag, NEW ph, NEW d \in Replies, Serves(tag, ph, <<d>>)
    PROVE  /\ UNCHANGED <<client, peer>> /\ Result' = Result /\ peer = "open"
           /\ server' = [server EXCEPT !.phase = ph]
           /\ server'.req = server.req /\ server'.phase = ph
           /\ down' = Append(down, d) /\ up # <<>> /\ Head(up) = Msg(tag)
           /\ up' = Tail(up)
  <1>1. /\ UNCHANGED <<client, peer>> /\ server' = [server EXCEPT !.phase = ph]
        /\ down' = down \o <<d>> /\ up # <<>> /\ Head(up) = Msg(tag) /\ up' = Tail(up)
        /\ peer = "open"
    BY DEF Serves
  <1>2. down \o <<d>> = Append(down, d)
    BY AppendIsConcat DEF Typed
  <1>3. /\ server'.req = server.req /\ server'.rows = server.rows
        /\ server'.count = server.count /\ server'.done = server.done
        /\ server'.phase = ph
    BY <1>1 DEF Typed, Server
  <1>4. Result' = Result
    BY <1>1, <1>3 DEF Result
  <1> QED BY <1>1, <1>2, <1>3, <1>4

\* The first message to the server says at which place it is.
LEMMA WhereServerIs ==
    ASSUME NEW b, NEW l, AtServer(b, l), up # <<>>, NEW tag, Head(up) = Msg(tag),
           server.phase \notin AuthPhases
    PROVE  /\ server.req = client.req
           /\ \/ b = "parse" /\ tag = "Parse" /\ Tail(up) = Request2
                 /\ server.phase = "ready" /\ l = 0
              \/ b = "bind" /\ tag = "Bind" /\ Tail(up) = Request3
                 /\ server.phase = "ready" /\ l = 0
              \/ b = "describe" /\ tag = "Describe" /\ Tail(up) = Request4
                 /\ server.phase = "ready" /\ l = 0
              \/ b = "rows" /\ tag = "Execute" /\ Tail(up) = Request5
                 /\ server.phase = "rows" /\ l = 0
              \/ b = "noRows" /\ tag = "Execute" /\ Tail(up) = Request5
                 /\ server.phase = "noRows" /\ l = 0
              \/ b = "sync" /\ tag = "Sync" /\ Tail(up) = <<>> /\ server.phase = "ready"
              \/ /\ b = "skip" /\ server.phase = "skip"
                 /\ \/ tag \in {"Bind", "Describe", "Execute"}
                       /\ Tail(up) \in {Request3, Request4, Request5}
                    \/ tag = "Sync" /\ Tail(up) = <<>>
  <1>1. \A t : Msg(tag) = Msg(t) => tag = t
    BY MsgFacts
  <1>2. CASE up = Request1
    <2>1. tag = "Parse" /\ Tail(up) = Request2
      BY <1>1, <1>2, RequestFacts
    <2>2. up # Request2 /\ up # Request3 /\ up # Request4 /\ up # Request5
      BY <1>2, <2>1, RequestFacts, MsgFacts
    <2> QED BY <2>1, <2>2 DEF AtServer
  <1>3. CASE up = Request2
    <2>1. tag = "Bind" /\ Tail(up) = Request3
      BY <1>1, <1>3, RequestFacts
    <2>2. up # Request1 /\ up # Request3 /\ up # Request4 /\ up # Request5
      BY <1>3, <2>1, RequestFacts, MsgFacts
    <2> QED BY <2>1, <2>2 DEF AtServer
  <1>4. CASE up = Request3
    <2>1. tag = "Describe" /\ Tail(up) = Request4
      BY <1>1, <1>4, RequestFacts
    <2>2. up # Request1 /\ up # Request2 /\ up # Request4 /\ up # Request5
      BY <1>4, <2>1, RequestFacts, MsgFacts
    <2> QED BY <2>1, <2>2 DEF AtServer
  <1>5. CASE up = Request4
    <2>1. tag = "Execute" /\ Tail(up) = Request5
      BY <1>1, <1>5, RequestFacts
    <2>2. up # Request1 /\ up # Request2 /\ up # Request3 /\ up # Request5
      BY <1>5, <2>1, RequestFacts, MsgFacts
    <2> QED BY <2>1, <2>2 DEF AtServer
  <1>6. CASE up = Request5
    <2>1. tag = "Sync" /\ Tail(up) = <<>>
      BY <1>1, <1>6, RequestFacts
    <2>2. up # Request1 /\ up # Request2 /\ up # Request3 /\ up # Request4
      BY <1>6, <2>1, RequestFacts, MsgFacts
    <2> QED BY <2>1, <2>2 DEF AtServer
  <1> QED BY <1>2, <1>3, <1>4, <1>5, <1>6 DEF AtServer

\* The server's place on a connection in use; it has nothing to do before the
\* client connects.
LEMMA ServerFacts ==
    ASSUME Typed, InStep, InUse, peer = "open"
    PROVE  \E a, k, b, l :
              /\ Leads(Context, a, k, down, b, l) /\ AtClient(a, k) /\ AtServer(b, l)
              /\ k \in Nat /\ l \in Nat
              /\ client.phase = "new" => up = <<>> /\ server.phase \in AuthPhases
  <1>1. PICK a, k, b, l : /\ Leads(Context, a, k, down, b, l) /\ AtClient(a, k)
                          /\ AtServer(b, l)
    BY DEF InStep, InUse
  <1>2. k \in Nat /\ l \in Nat /\ (down = <<>> => a = b)
    BY <1>1, LeadsFacts DEF Typed
  <1>3. ASSUME client.phase = "new" PROVE up = <<>> /\ server.phase \in AuthPhases
    <2>1. a = "auth" /\ down = <<>>
      BY <1>1, <1>3 DEF AtClient
    <2>2. b = "auth"
      BY <1>2, <2>1
    <2> QED BY <1>1, <1>3, <2>2 DEF AtServer
  <1> QED BY <1>1, <1>2, <1>3

\* Parse, Bind and Describe.
LEMMA PreparesInStep ==
    ASSUME Typed, InStep, InUse, ServerPrepares
    PROVE  InStep'
  <1>1. server.phase = "ready" /\ peer = "open" /\ up # <<>>
    BY DEF ServerPrepares, InServer, Serves
  <1>2. PICK a, k, b, l : /\ Leads(Context, a, k, down, b, l) /\ AtClient(a, k)
                          /\ AtServer(b, l) /\ l \in Nat
                          /\ client.phase = "new" => up = <<>>
    BY <1>1, ServerFacts
  <1>3. \A t \in {"1", "2", "T", "n"} : Msg(t) \in Replies /\ Msg(t).tag = t
    BY ReplyTypes, MsgFacts
  <1>4. server.phase \notin AuthPhases
    BY <1>1 DEF AuthPhases
  <1>5. ASSUME NEW tag, NEW ph, NEW t \in {"1", "2", "T", "n"}, NEW b2,
               Serves(tag, ph, <<Msg(t)>>),
               \/ tag = "Parse" /\ ph = "ready" /\ t = "1" /\ b2 = "bind"
               \/ tag = "Bind" /\ ph = "ready" /\ t = "2" /\ b2 = "describe"
               \/ tag = "Describe" /\ ph = "rows" /\ t = "T" /\ b2 = "rows"
               \/ tag = "Describe" /\ ph = "noRows" /\ t = "n" /\ b2 = "noRows"
        PROVE  InStep'
    <2>1. /\ UNCHANGED <<client, peer>> /\ Result' = Result
          /\ server'.req = server.req /\ server'.phase = ph
          /\ down' = Append(down, Msg(t)) /\ Head(up) = Msg(tag) /\ up' = Tail(up)
      BY <1>3, <1>5, ServesStep
    <2>2. /\ server.req = client.req /\ l = 0
          /\ \/ b = "parse" /\ tag = "Parse" /\ Tail(up) = Request2
             \/ b = "bind" /\ tag = "Bind" /\ Tail(up) = Request3
             \/ b = "describe" /\ tag = "Describe" /\ Tail(up) = Request4
      BY <1>1, <1>2, <1>4, <1>5, <2>1, WhereServerIs
    <2>3. Passes(Context', b, Msg(t), b2)
      BY <1>3, <1>5, <2>2 DEF Passes
    <2>4. Possible(Context', b2) /\ Stage(b) <= Stage(b2)
      BY <1>5, <2>2 DEF Possible, Places, Stage
    <2>5. AtServer(b2, l)'
      BY <1>5, <2>1, <2>2 DEF AtServer
    <2> QED BY <1>1, <1>2, <1>3, <2>1, <2>3, <2>4, <2>5, SayStep
  <1> QED BY <1>5 DEF ServerPrepares

\* An error: the server skips to Sync.
LEMMA ErrorsInStep ==
    ASSUME Typed, InStep, InUse, ServerErrors
    PROVE  InStep'
  <1>1. PICK tag \in {"Parse", "Bind", "Describe"} :
            Serves(tag, "skip", <<Msg("E")>>)
    BY DEF ServerErrors
  <1>2. Msg("E") \in Replies /\ Msg("E").tag = "E"
    BY ReplyTypes, MsgFacts
  <1>3. /\ UNCHANGED <<client, peer>> /\ Result' = Result /\ peer = "open"
        /\ server'.req = server.req /\ server'.phase = "skip"
        /\ down' = Append(down, Msg("E")) /\ Head(up) = Msg(tag) /\ up' = Tail(up)
        /\ up # <<>>
    BY <1>1, <1>2, ServesStep
  <1>4. PICK a, k, b, l : /\ Leads(Context, a, k, down, b, l) /\ AtClient(a, k)
                          /\ AtServer(b, l) /\ l \in Nat
                          /\ client.phase = "new" => up = <<>>
    BY <1>3, ServerFacts
  <1>5. server.phase = "ready" /\ server.phase \notin AuthPhases
    BY DEF ServerErrors, InServer, AuthPhases
  <1>6. /\ server.req = client.req
        /\ b \in {"parse", "bind", "describe"}
        /\ Tail(up) \in {Request2, Request3, Request4, Request5}
    BY <1>3, <1>4, <1>5, WhereServerIs
  <1>7. Passes(Context', b, Msg("E"), "skip")
    BY <1>2, <1>6 DEF Passes
  <1>8. Possible(Context', "skip") /\ Stage(b) <= Stage("skip")
    BY <1>6 DEF Possible, Places, Stage
  <1>9. AtServer("skip", l)'
    BY <1>3, <1>6 DEF AtServer
  <1> QED BY <1>2, <1>3, <1>4, <1>7, <1>8, <1>9, SayStep

\* What the server ignores after an error.
LEMMA SkipsInStep ==
    ASSUME Typed, InStep, InUse, ServerSkips
    PROVE  InStep'
  <1>1. PICK tag \in {"Parse", "Bind", "Describe", "Execute"} : Serves(tag, "skip", <<>>)
    BY DEF ServerSkips
  <1>2. /\ UNCHANGED <<client, peer>> /\ server' = [server EXCEPT !.phase = "skip"]
        /\ down' = down \o <<>> /\ up # <<>> /\ Head(up) = Msg(tag) /\ up' = Tail(up)
        /\ peer = "open" /\ server.phase = "skip" /\ server \in Server
        /\ down \in Seq(Replies)
    BY <1>1 DEF Serves, ServerSkips, InServer, Typed
  <1>3. server' = server /\ down' = down
    BY <1>2, ConcatProperties, EmptySeq DEF Server
  <1>4. PICK a, k, b, l : /\ Leads(Context, a, k, down, b, l) /\ AtClient(a, k)
                          /\ AtServer(b, l) /\ l \in Nat
    BY <1>2, ServerFacts
  <1>5. server.phase \notin AuthPhases
    BY <1>2 DEF AuthPhases
  <1>6. /\ server.req = client.req /\ b = "skip"
        /\ Tail(up) \in {Request2, Request3, Request4, Request5}
    BY <1>1, <1>2, <1>4, <1>5, WhereServerIs
  <1>7. Result' = Result /\ Context' = Context
    BY <1>2, <1>3 DEF Result, Context
  <1>8. AtClient(a, k)'
    BY <1>2, <1>3, <1>4, <1>7, ClientStays
  <1>9. AtServer(b, l)'
    BY <1>2, <1>3, <1>6 DEF AtServer
  <1>10. Leads(Context, a, k, down, b, l)'
    BY <1>3, <1>4, <1>7
  <1> QED BY <1>8, <1>9, <1>10 DEF InStep

\* A notice says nothing.
LEMMA NoticeInStep ==
    ASSUME Typed, InStep, InUse, ServerNotice
    PROVE  InStep'
  <1>1. /\ server.phase \in {"ready", "rows", "noRows", "skip"} /\ peer = "open"
        /\ down' = Append(down, Msg("N")) /\ UNCHANGED <<client, server, up, peer>>
    BY DEF ServerNotice, ServerWorks, InServer
  <1>2. server.phase \notin AuthPhases
    BY <1>1 DEF AuthPhases
  <1>3. PICK a, k, b, l : /\ Leads(Context, a, k, down, b, l) /\ AtClient(a, k)
                          /\ AtServer(b, l) /\ l \in Nat
                          /\ client.phase # "new"
    BY <1>1, <1>2, ServerFacts
  <1>4. Msg("N") \in Replies /\ Msg("N").tag = "N"
    BY ReplyTypes, MsgFacts
  <1>5. b # "asked"
    BY <1>2, <1>3 DEF AtServer
  <1>6. Possible(Context, b)
    BY <1>3, LeadsFacts DEF Typed
  <1>7. Result' = Result /\ Context' = Context
    BY <1>1 DEF Result, Context
  <1>8. Possible(Context', b) /\ Passes(Context', b, Msg("N"), b)
    BY <1>4, <1>5, <1>6, <1>7 DEF Passes
  <1>9. AtServer(b, l)'
    BY <1>1, <1>3 DEF AtServer
  <1>10. Stage(b) <= Stage(b)
    BY DEF Stage
  <1> QED BY <1>1, <1>3, <1>4, <1>7, <1>8, <1>9, <1>10, SayStep

\* Sync ends the request.
LEMMA SyncsInStep ==
    ASSUME Typed, InStep, InUse, ServerSyncs
    PROVE  InStep'
  <1>1. /\ server.phase \in {"ready", "skip"} /\ peer = "open" /\ up # <<>>
        /\ Head(up) = Msg("Sync") /\ down' = Append(down, Msg("Z")) /\ up' = Tail(up)
        /\ UNCHANGED <<client, peer>>
        /\ server' = [phase |-> "ready", req |-> server.req + 1, rows |-> <<>>,
                      count |-> 0, nulls |-> server.nulls,
                      done |-> [rows |-> server.rows, count |-> server.count]]
    BY DEF ServerSyncs, InServer
  <1>2. PICK a, k, b, l : /\ Leads(Context, a, k, down, b, l) /\ AtClient(a, k)
                          /\ AtServer(b, l) /\ l \in Nat
                          /\ client.phase = "new" => up = <<>>
    BY <1>1, ServerFacts
  <1>3. server.phase \notin AuthPhases
    BY <1>1 DEF AuthPhases
  <1>4. server.req = client.req /\ b \in {"sync", "skip"} /\ Tail(up) = <<>>
    <2>1. PICK tag : tag = "Sync"
      OBVIOUS
    <2>2. Head(up) = Msg(tag)
      BY <1>1, <2>1
    <2> QED BY <1>1, <1>2, <1>3, <2>1, <2>2, WhereServerIs
  <1>5. /\ server'.req = client.req + 1 /\ server'.phase = "ready"
        /\ server'.done = [rows |-> server.rows, count |-> server.count]
    BY <1>1, <1>4
  <1>6. Result' = Result
    <2>1. client.req \in Nat /\ client.req + 1 # client.req
      BY DEF Typed, Client
    <2>2. Result' = server'.done
      BY <1>1, <1>5, <2>1 DEF Result
    <2>3. Result = [rows |-> server.rows, count |-> server.count]
      BY <1>4 DEF Result
    <2> QED BY <1>5, <2>2, <2>3
  <1>7. Msg("Z") \in Replies /\ Msg("Z").tag = "Z"
    BY ReplyTypes, MsgFacts
  <1>8. Passes(Context', b, Msg("Z"), "idle")
    BY <1>4, <1>7 DEF Passes
  <1>9. Possible(Context', "idle")
    BY <1>1, <1>5, ContextFacts DEF Possible, Places
  <1>10. Stage(b) <= Stage("idle")
    BY <1>4 DEF Stage
  <1>11. AtServer("idle", l)'
    BY <1>1, <1>4, <1>5 DEF AtServer
  <1> QED BY <1>1, <1>2, <1>5, <1>6, <1>7, <1>8, <1>9, <1>10, <1>11, SayStep

\* Four messages, one after the other.
LEMMA FourAppended ==
    ASSUME NEW ds \in Seq(Replies), NEW es \in Seq(Replies), Len(es) = 4
    PROVE  ds \o es = Append(Append(Append(Append(ds, es[1]), es[2]), es[3]), es[4])
  <1>1. PICK n : n = Len(ds)
    OBVIOUS
  <1>2. n \in Nat
    BY <1>1, LenProperties
  <1>3. /\ es[1] \in Replies /\ es[2] \in Replies /\ es[3] \in Replies
        /\ es[4] \in Replies
    <2>1. \A i \in 1..4 : es[i] \in Replies
      BY ElementOfSeq
    <2> QED BY <2>1
  <1>4. PICK p : p = Append(ds, es[1])
    OBVIOUS
  <1>5. PICK q : q = Append(p, es[2])
    OBVIOUS
  <1>6. PICK r : r = Append(q, es[3])
    OBVIOUS
  <1>7. PICK s : s = Append(r, es[4])
    OBVIOUS
  <1>8. /\ p \in Seq(Replies) /\ Len(p) = n + 1 /\ p[n + 1] = es[1]
        /\ \A i \in 1..n : p[i] = ds[i]
    BY <1>1, <1>3, <1>4, AppendProperties
  <1>9. /\ q \in Seq(Replies) /\ Len(q) = n + 2 /\ q[n + 2] = es[2]
        /\ \A i \in 1..(n + 1) : q[i] = p[i]
    BY <1>2, <1>3, <1>5, <1>8, AppendProperties
  <1>10. /\ r \in Seq(Replies) /\ Len(r) = n + 3 /\ r[n + 3] = es[3]
         /\ \A i \in 1..(n + 2) : r[i] = q[i]
    BY <1>2, <1>3, <1>6, <1>9, AppendProperties
  <1>11. /\ s \in Seq(Replies) /\ Len(s) = n + 4 /\ s[n + 4] = es[4]
         /\ \A i \in 1..(n + 3) : s[i] = r[i]
    BY <1>2, <1>3, <1>7, <1>10, AppendProperties
  <1>12. PICK t : t = ds \o es
    OBVIOUS
  <1>13. /\ t \in Seq(Replies) /\ Len(t) = n + 4
         /\ \A i \in 1..(n + 4) : t[i] = IF i <= n THEN ds[i] ELSE es[i - n]
    <2>1. /\ t \in Seq(Replies) /\ Len(t) = Len(ds) + Len(es)
          /\ \A i \in 1..(Len(ds) + Len(es)) :
                t[i] = IF i <= Len(ds) THEN ds[i] ELSE es[i - Len(ds)]
      BY <1>12, ConcatProperties
    <2> QED BY <1>1, <2>1
  <1>14. ASSUME NEW i \in 1..(n + 4) PROVE t[i] = s[i]
    <2>1. CASE i \in 1..n
      <3>1. i \in 1..(n + 1) /\ i \in 1..(n + 2) /\ i \in 1..(n + 3) /\ i <= n
        BY <1>2, <2>1
      <3> QED BY <1>8, <1>9, <1>10, <1>11, <1>13, <2>1, <3>1, SMTT(30)
    <2>2. CASE i = n + 1
      <3>1. i \in 1..(n + 1) /\ i \in 1..(n + 2) /\ i \in 1..(n + 3) /\ ~(i <= n)
            /\ i - n = 1
        BY <1>2, <2>2
      <3> QED BY <1>8, <1>9, <1>10, <1>11, <1>13, <2>2, <3>1
    <2>3. CASE i = n + 2
      <3>1. i \in 1..(n + 2) /\ i \in 1..(n + 3) /\ ~(i <= n) /\ i - n = 2
        BY <1>2, <2>3
      <3> QED BY <1>9, <1>10, <1>11, <1>13, <2>3, <3>1
    <2>4. CASE i = n + 3
      <3>1. i \in 1..(n + 3) /\ ~(i <= n) /\ i - n = 3
        BY <1>2, <2>4
      <3> QED BY <1>10, <1>11, <1>13, <2>4, <3>1
    <2>5. CASE i = n + 4
      <3>1. ~(i <= n) /\ i - n = 4
        BY <1>2, <2>5
      <3> QED BY <1>11, <1>13, <2>5, <3>1
    <2> QED BY <1>2, <2>1, <2>2, <2>3, <2>4, <2>5
  <1>15. t = s
    BY <1>11, <1>13, <1>14, SeqEqual
  <1> QED BY <1>4, <1>5, <1>6, <1>7, <1>12, <1>15

\* The greeting leads from authentication to the first request.
LEMMA WelcomeLeads ==
    ASSUME NEW c, NEW ds \in Seq(Replies), NEW a, NEW k, NEW l,
           Leads(c, a, k, ds, "auth", l), c.served = c.req + 1
    PROVE  Leads(c, a, k, ds \o Welcome, "idle", l)
  <1>1. l \in Nat /\ l <= l
    BY LeadsFacts
  <1>2. PICK w : w = Welcome
    OBVIOUS
  <1>3. /\ w \in Seq(Replies) /\ Len(w) = 4
        /\ w[1] = Auth("Ok") /\ w[2] = Msg("S") /\ w[3] = Msg("K") /\ w[4] = Msg("Z")
    BY <1>2, WelcomeFacts
  <1>4. /\ w[1] \in Replies /\ w[2] \in Replies /\ w[3] \in Replies /\ w[4] \in Replies
    <2>1. \A i \in 1..4 : w[i] \in Replies
      BY <1>3, ElementOfSeq
    <2> QED BY <2>1
  <1>5. /\ w[1].tag = "R" /\ w[1].type = "Ok" /\ w[2].tag = "S" /\ w[3].tag = "K"
        /\ w[4].tag = "Z"
    BY <1>3 DEF Auth, Msg
  <1>6. /\ Moves(c, "auth", l, w[1], "drain", l) /\ Moves(c, "drain", l, w[2], "drain", l)
        /\ Moves(c, "drain", l, w[3], "drain", l) /\ Moves(c, "drain", l, w[4], "idle", l)
    BY <1>5 DEF Moves, Passes
  <1>7. /\ Possible(c, "drain") /\ Possible(c, "idle")
        /\ Stage("auth") <= Stage("drain") /\ Stage("drain") <= Stage("drain")
        /\ Stage("drain") <= Stage("idle")
    BY DEF Possible, Places, Stage
  <1>8. PICK p : p = Append(ds, w[1])
    OBVIOUS
  <1>9. PICK q : q = Append(p, w[2])
    OBVIOUS
  <1>10. PICK r : r = Append(q, w[3])
    OBVIOUS
  <1>11. p \in Seq(Replies) /\ Leads(c, a, k, p, "drain", l)
    BY <1>1, <1>4, <1>6, <1>7, <1>8, LeadsAppend, AppendProperties
  <1>12. q \in Seq(Replies) /\ Leads(c, a, k, q, "drain", l)
    BY <1>1, <1>4, <1>6, <1>7, <1>9, <1>11, LeadsAppend, AppendProperties
  <1>13. r \in Seq(Replies) /\ Leads(c, a, k, r, "drain", l)
    BY <1>1, <1>4, <1>6, <1>7, <1>10, <1>12, LeadsAppend, AppendProperties
  <1>14. Leads(c, a, k, Append(r, w[4]), "idle", l)
    BY <1>1, <1>4, <1>6, <1>7, <1>13, LeadsAppend
  <1>15. ds \o w = Append(r, w[4])
    BY <1>3, <1>8, <1>9, <1>10, FourAppended
  <1> QED BY <1>2, <1>14, <1>15

\* The server authenticates the client.
LEMMA AuthInStep ==
    ASSUME Typed, InStep, InUse, ServerAuthenticates
    PROVE  InStep'
  <1>1. server.phase \in AuthPhases /\ peer = "open" /\ up # <<>>
    BY DEF ServerAuthenticates, InServer, Serves, AuthPhases
  <1>2. PICK a, k, b, l : /\ Leads(Context, a, k, down, b, l) /\ AtClient(a, k)
                          /\ AtServer(b, l) /\ l \in Nat
                          /\ client.phase = "new" => up = <<>>
    BY <1>1, ServerFacts
  <1>3. /\ b = "auth" /\ Len(up) = 1 /\ server.req = 1 /\ client.req = 0
        /\ client.phase # "new"
    <2>1. server.phase \notin {"ready", "rows", "noRows", "skip"}
      BY <1>1 DEF AuthPhases
    <2> QED BY <1>1, <1>2, <2>1 DEF AtServer
  <1>4. Tail(up) = <<>>
    <2>1. Tail(up) \in Seq(Requests) /\ Len(Tail(up)) = Len(up) - 1
      BY <1>1, HeadTailProperties DEF Typed
    <2>2. Len(Tail(up)) = 0
      BY <1>3, <2>1
    <2> QED BY <2>1, <2>2, EmptySeq
  <1>5. down \in Seq(Replies) /\ server \in Server
    BY DEF Typed
  <1>6. ASSUME NEW tag, NEW ph \in AuthPhases, NEW t, Serves(tag, ph, <<Auth(t)>>),
               t \in {"CleartextPassword", "MD5Password", "SASL", "SASLContinue"}
        PROVE  InStep'
    <2>1. /\ Auth(t) \in Replies /\ Auth(t).tag = "R" /\ Auth(t).type = t
      BY <1>6, ReplyTypes DEF Auth
    <2>2. /\ UNCHANGED <<client, peer>> /\ Result' = Result
          /\ server'.req = server.req /\ server'.phase = ph
          /\ down' = Append(down, Auth(t)) /\ up' = Tail(up)
      BY <1>6, <2>1, ServesStep
    <2>3. Passes(Context', b, Auth(t), "asked")
      BY <1>3, <1>6, <2>1 DEF Passes
    <2>4. Possible(Context', "asked") /\ Stage(b) <= Stage("asked")
      BY <1>3 DEF Possible, Places, Stage
    <2>5. AtServer("asked", l)'
      BY <1>3, <1>4, <1>6, <2>2 DEF AtServer
    <2> QED BY <1>1, <1>2, <1>3, <2>1, <2>2, <2>3, <2>4, <2>5, SayStep
  <1>7. ASSUME NEW tag, NEW reply, Serves(tag, "ready", reply),
               reply = Welcome \/ reply = <<Auth("SASLFinal")>> \o Welcome
        PROVE  InStep'
    <2>1. /\ UNCHANGED <<client, peer>> /\ server' = [server EXCEPT !.phase = "ready"]
          /\ down' = down \o reply /\ up' = Tail(up)
      BY <1>7 DEF Serves
    <2>2. /\ server'.req = server.req /\ server'.rows = server.rows
          /\ server'.count = server.count /\ server'.done = server.done
          /\ server'.phase = "ready"
      BY <1>5, <2>1 DEF Server
    <2>3. Result' = Result
      BY <2>1, <2>2 DEF Result
    <2>4. PICK c : c = Context'
      OBVIOUS
    <2>5. c.served = c.req + 1
      BY <1>3, <2>1, <2>2, <2>4, ContextFacts
    <2>6. Leads(c, a, k, down, "auth", l)
      <3>1. Leads(c, a, k, down, b, l)
        BY <1>2, <1>5, <2>1, <2>2, <2>3, <2>4, ContextFacts, LeadsKept
      <3> QED BY <1>3, <3>1
    <2>7. Leads(c, a, k, down \o reply, "idle", l)
      <3>1. CASE reply = Welcome
        BY <1>5, <2>5, <2>6, <3>1, WelcomeLeads
      <3>2. CASE reply = <<Auth("SASLFinal")>> \o Welcome
        <4>1. PICK d : d = Auth("SASLFinal")
          OBVIOUS
        <4>2. d \in Replies /\ d.tag = "R" /\ d.type = "SASLFinal"
          BY <4>1, ReplyTypes DEF Auth
        <4>3. /\ Moves(c, "auth", l, d, "auth", l) /\ Possible(c, "auth")
              /\ Stage("auth") <= Stage("auth") /\ l <= l
          BY <1>2, <4>2 DEF Moves, Passes, Possible, Places, Stage
        <4>4. PICK p : p = Append(down, d)
          OBVIOUS
        <4>5. p \in Seq(Replies) /\ Leads(c, a, k, p, "auth", l)
          BY <1>2, <1>5, <2>6, <4>2, <4>3, <4>4, LeadsAppend, AppendProperties
        <4>6. Leads(c, a, k, p \o Welcome, "idle", l)
          BY <2>5, <4>5, WelcomeLeads
        <4>7. p \o Welcome = down \o reply
          <5>1. p = down \o <<d>>
            BY <1>5, <4>2, <4>4, AppendIsConcat
          <5>2. <<d>> \in Seq(Replies) /\ Welcome \in Seq(Replies)
            BY <4>2, WelcomeFacts
          <5>3. (down \o <<d>>) \o Welcome = down \o (<<d>> \o Welcome)
            BY <1>5, <5>2, ConcatAssociative
          <5> QED BY <3>2, <4>1, <5>1, <5>3
        <4> QED BY <4>6, <4>7
      <3> QED BY <1>7, <3>1, <3>2
    <2>8. Leads(Context, a, k, down, "idle", l)'
      BY <2>1, <2>4, <2>7
    <2>9. AtServer("idle", l)'
      BY <1>4, <2>1, <2>2 DEF AtServer
    <2>10. AtClient(a, k)'
      BY <1>2, <1>3, <2>1, <2>3, ClientStays
    <2> QED BY <2>8, <2>9, <2>10 DEF InStep
  <1>8. {"password", "md5", "sasl", "proof"} \subseteq AuthPhases
    BY DEF AuthPhases
  <1> QED BY <1>6, <1>7, <1>8 DEF ServerAuthenticates

\* Execute sends the rows of its result and their number.
LEMMA ExecutesInStep ==
    ASSUME Typed, InStep, InUse, InUse', ServerExecutes
    PROVE  InStep'
  <1>1. /\ server.phase \in {"rows", "noRows"} /\ peer = "open" /\ up # <<>>
        /\ Head(up) = Msg("Execute") /\ up' = Tail(up) /\ UNCHANGED <<client, peer>>
    BY DEF ServerExecutes, InServer
  <1>2. PICK a, k, b, l : /\ Leads(Context, a, k, down, b, l) /\ AtClient(a, k)
                          /\ AtServer(b, l) /\ l \in Nat
                          /\ client.phase = "new" => up = <<>>
    BY <1>1, ServerFacts
  <1>3. /\ server.req = client.req /\ b = server.phase /\ Tail(up) = Request5 /\ l = 0
    <2>1. server.phase \notin AuthPhases
      BY <1>1 DEF AuthPhases
    <2>2. PICK tag : tag = "Execute"
      OBVIOUS
    <2>3. Head(up) = Msg(tag)
      BY <1>1, <2>2
    <2> QED BY <1>1, <1>2, <2>1, <2>2, <2>3, WhereServerIs
  <1>4. PICK n, lens, ph, d : Executed(n, lens, ph, d)
    BY ExecuteFacts
  <1>5. PICK dr : dr = DataOf(lens)
    OBVIOUS
  <1>6. PICK rr : rr = RowsOf(lens)
    OBVIOUS
  <1>7. /\ dr \in Seq(Replies) /\ Len(dr) = Len(lens)
        /\ rr \in Seq(Row) /\ Len(rr) = Len(lens)
        /\ down' = (down \o dr) \o <<d>>
        /\ server' = [server EXCEPT !.phase = ph, !.count = n,
               !.nulls = server.nulls \/ \E i \in 1..Len(lens) : lens[i] = NULL,
               !.rows = rr]
        /\ lens \in Seq(FieldLengths)
    BY <1>4, <1>5, <1>6 DEF Executed
  <1>8. b = "noRows" => lens = <<>>
    BY <1>3, <1>4 DEF Executed, InServer
  <1>9. server \in Server /\ down \in Seq(Replies) /\ n \in Nat
    BY <1>4 DEF Executed, Typed
  <1>10. /\ server'.phase = ph /\ server'.count = n /\ server'.rows = rr
         /\ server'.req = server.req
         /\ server'.nulls = (server.nulls \/ \E i \in 1..Len(lens) : lens[i] = NULL)
    BY <1>7, <1>9 DEF Server
  <1>11. \A i \in 1..Len(lens) : lens[i] # NULL
    BY <1>10 DEF InUse
  <1>12. Result' = [rows |-> rr, count |-> n]
    BY <1>1, <1>3, <1>10 DEF Result
  <1>13. PICK c : c = Context'
    OBVIOUS
  <1>14. /\ c.peer = peer /\ c.req = client.req /\ c.served = server.req /\ c.rows = rr
         /\ c.count = n
    <2>1. c.rows = Result'.rows /\ c.count = Result'.count
      BY <1>13, ContextFacts
    <2>2. c.rows = rr /\ c.count = n
      BY <1>12, <2>1
    <2> QED BY <1>1, <1>10, <1>13, <2>2, ContextFacts
  <1>15. Leads(c, a, k, down, b, 0) /\ k = 0 /\ Stage(a) = 0
    <2>1. Stage(b) = 0
      BY <1>1, <1>3 DEF Stage
    <2>2. Leads(Context, a, k, down, b, 0)
      BY <1>2, <1>3
    <2> QED BY <1>9, <1>14, <2>1, <2>2, ContextFacts, LeadsExecuted
  <1>16. PICK q : q = Len(lens)
    OBVIOUS
  <1>17. q \in Nat
    BY <1>7, <1>16, LenProperties
  <1>18. Leads(c, a, k, down \o dr, b, q)
    <2>1. CASE b = "rows"
      <3>1. \A i \in 1..Len(dr) :
              /\ dr[i].tag = "D" /\ dr[i] = DataRow(c.req, i, dr[i].len)
              /\ dr[i].len # NULL /\ c.rows[i] = ResultRow(c.req, i, dr[i].len)
        <4>1. SUFFICES ASSUME NEW i \in 1..Len(dr)
                       PROVE  /\ dr[i].tag = "D" /\ dr[i] = DataRow(c.req, i, dr[i].len)
                              /\ dr[i].len # NULL
                              /\ c.rows[i] = ResultRow(c.req, i, dr[i].len)
          OBVIOUS
        <4>2. i \in 1..Len(lens) /\ dr[i] = DataRow(server.req, i, lens[i])
              /\ rr[i] = ResultRow(server.req, i, lens[i])
          BY <1>5, <1>6, <1>7 DEF DataOf, RowsOf
        <4>3. dr[i].tag = "D" /\ dr[i].len = lens[i]
          BY <4>2 DEF DataRow
        <4> QED BY <1>3, <1>11, <1>14, <4>2, <4>3
      <3>2. Len(c.rows) \in Nat /\ Len(dr) <= Len(c.rows) /\ Len(dr) = q
        BY <1>7, <1>14, <1>16, <1>17
      <3>3. Leads(c, a, k, down, "rows", 0)
        BY <1>15, <2>1
      <3>4. Leads(c, a, k, down \o dr, "rows", Len(dr))
        BY <1>7, <1>9, <3>1, <3>2, <3>3, LeadsRows
      <3> QED BY <2>1, <3>2, <3>4
    <2>2. CASE b = "noRows"
      <3>1. q = 0 /\ Len(dr) = 0
        BY <1>7, <1>8, <1>16, <2>2, EmptySeq
      <3>2. dr = <<>>
        BY <1>7, <3>1, EmptySeq
      <3>3. down \o dr = down
        BY <1>9, <3>2, ConcatProperties, EmptySeq
      <3> QED BY <1>15, <3>1, <3>3
    <2> QED BY <1>1, <1>3, <2>1, <2>2
  <1>19. \/ ph = "ready" /\ d = CommandComplete(n)
         \/ ph = "skip" /\ d = Msg("E")
    BY <1>4 DEF Executed
  <1>20. PICK z : z = IF ph = "ready" THEN "sync" ELSE "skip"
    OBVIOUS
  <1>21. /\ d \in Replies
         /\ \/ z = "sync" /\ ph = "ready" /\ d.tag = "C" /\ d.count = n
            \/ z = "skip" /\ ph = "skip" /\ d.tag = "E"
    <2>1. CASE ph = "ready"
      BY <1>9, <1>19, <1>20, <2>1, ReplyTypes DEF CommandComplete
    <2>2. CASE ph # "ready"
      BY <1>19, <1>20, <2>2, ReplyTypes, MsgFacts
    <2> QED BY <2>1, <2>2
  <1>22. down \o dr \in Seq(Replies)
    BY <1>7, <1>9, ConcatProperties
  <1>23. down' = Append(down \o dr, d)
    BY <1>7, <1>21, <1>22, AppendIsConcat
  <1>24. Moves(c, b, q, d, z, q)
    BY <1>1, <1>3, <1>7, <1>14, <1>16, <1>21 DEF Moves, Passes
  <1>25. Possible(c, z) /\ Stage(b) <= Stage(z) /\ q <= q
    BY <1>1, <1>3, <1>17, <1>21 DEF Possible, Places, Stage
  <1>26. Leads(c, a, k, Append(down \o dr, d), z, q)
    BY <1>17, <1>18, <1>21, <1>22, <1>24, <1>25, LeadsAppend
  <1>27. Leads(Context, a, k, down, z, q)'
    BY <1>13, <1>23, <1>26
  <1>28. AtServer(z, q)'
    BY <1>1, <1>3, <1>10, <1>21 DEF AtServer
  <1>29. AtClient(a, k)'
    <2>1. a \notin {"idle", "lost", "sync", "skip"} /\ client.phase # "new"
      BY <1>1, <1>2, <1>15 DEF Stage
    <2>2. ASSUME HasRows(k) PROVE HasRows(k)'
      <3>1. Len(client'.rows) = 0 /\ k = 0
        BY <1>1, <1>15, <2>2 DEF HasRows
      <3>2. Len(Result'.rows) \in Nat
        BY <1>7, <1>12, LenProperties
      <3>3. 0 <= Len(Result'.rows) /\ \A i \in 1..0 : FALSE
        BY <3>2
      <3> QED BY <3>1, <3>3 DEF HasRows
    <2> QED BY <1>1, <1>2, <2>1, <2>2 DEF AtClient
  <1> QED BY <1>27, <1>28, <1>29 DEF InStep

\* The server ends the connection; some of its messages may be lost.
LEMMA EndsInStep ==
    ASSUME Typed, InStep, InUse, ServerEnds
    PROVE  InStep'
  <1>1. /\ peer' = "gone" /\ UNCHANGED <<client, server>> /\ down \in Seq(Replies)
        /\ \/ down' = down
           \/ down' = Append(down, Msg("E"))
           \/ \E n \in 0..Len(down) : down' = SubSeq(down, 1, n)
    BY DEF ServerEnds, Typed
  <1>2. PICK a, k, b, l : Leads(Context, a, k, down, b, l) /\ AtClient(a, k)
    BY DEF InStep, InUse
  <1>3. Result' = Result
    BY <1>1 DEF Result
  <1>4. PICK c : c = Context'
    OBVIOUS
  <1>5. Leads(c, a, k, down, b, l) /\ c.peer = "gone"
    BY <1>1, <1>2, <1>3, <1>4, ContextFacts, LeadsKept
  <1>6. AtClient(a, k)' /\ ~(peer' = "open")
    BY <1>1, <1>2, <1>3, ClientStays
  <1>7. SUFFICES \E x, y : Leads(c, a, k, down', x, y)
    <2>1. ASSUME NEW x, NEW y, Leads(c, a, k, down', x, y) PROVE InStep'
      <3>1. Leads(Context, a, k, down, x, y)'
        BY <1>4, <2>1
      <3> QED BY <1>6, <3>1 DEF InStep
    <2> QED BY <2>1
  <1>8. CASE down' = down
    BY <1>5, <1>8
  <1>9. CASE down' = Append(down, Msg("E"))
    <2>1. Msg("E") \in Replies /\ Msg("E").tag = "E"
      BY ReplyTypes, MsgFacts
    <2>2. l \in Nat /\ l <= l
      BY <1>1, <1>5, LeadsFacts
    <2>3. Moves(c, b, l, Msg("E"), "lost", l)
      BY <1>5, <2>1 DEF Moves, Passes
    <2>4. Possible(c, "lost") /\ Stage(b) <= Stage("lost")
      BY <1>5 DEF Possible, Places, Stage
    <2>5. Leads(c, a, k, Append(down, Msg("E")), "lost", l)
      BY <1>1, <1>5, <2>1, <2>2, <2>3, <2>4, LeadsAppend
    <2> QED BY <1>9, <2>5
  <1>10. ASSUME NEW n \in 0..Len(down), down' = SubSeq(down, 1, n)
         PROVE  \E x, y : Leads(c, a, k, down', x, y)
    <2>1. \E x, y : Leads(c, a, k, SubSeq(down, 1, n), x, y)
      BY <1>1, <1>5, LeadsPrefix
    <2> QED BY <1>10, <2>1
  <1> QED BY <1>1, <1>8, <1>9, <1>10

-----------------------------------------------------------------------------

\* A connection in use has been in use: a closed one stays closed, and a NULL that
\* has been carried stays carried.
LEMMA InUseBefore ==
    ASSUME Typed, WireNext, InUse'
    PROVE  InUse
  <1>1. client \in Client /\ server \in Server
    BY DEF Typed
  <1>2. CASE ClientStep \/ query \/ QuerySendThrows \/ close
    <2>1. UNCHANGED server
      BY <1>2 DEF ClientStep, Connect, _authenticate, ConstructorThrows, _drainToReady,
                  QueryReads, QueryReturns, QueryParseThrows, QueryDrains,
                  QueryLosesConnection, query, QuerySendThrows, close
    <2>2. client.phase \notin {"closed", "dead"} \/ client'.phase \in {"closed", "dead"}
      <3>1. CASE _authenticate
        BY <3>1 DEF _authenticate, Authenticating, AuthTransitions
      <3>2. CASE ConstructorThrows
        BY <1>1, <3>2 DEF ConstructorThrows, Client
      <3> QED BY <1>2, <3>1, <3>2
              DEF ClientStep, Connect, _drainToReady, QueryReads, QueryReturns,
                  QueryParseThrows, QueryDrains, QueryLosesConnection, query,
                  QuerySendThrows, close, In
    <2> QED BY <2>1, <2>2 DEF InUse
  <1>3. CASE ServerNotice \/ ServerEnds
    BY <1>3 DEF ServerNotice, ServerEnds, InUse
  <1>4. ASSUME NEW tag, NEW ph, NEW reply, Serves(tag, ph, reply) PROVE InUse
    <2>1. server'.nulls = server.nulls /\ client' = client
      BY <1>1, <1>4 DEF Serves, Server
    <2> QED BY <2>1 DEF InUse
  <1>5. CASE ServerAuthenticates \/ ServerPrepares \/ ServerErrors \/ ServerSkips
    BY <1>4, <1>5 DEF ServerAuthenticates, ServerPrepares, ServerErrors, ServerSkips
  <1>6. CASE ServerSyncs
    BY <1>6 DEF ServerSyncs, InUse
  <1>7. CASE ServerExecutes
    <2>1. UNCHANGED client
      BY <1>7 DEF ServerExecutes
    <2>2. server.nulls => server'.nulls
      <3>1. PICK n, lens, ph, last : Executed(n, lens, ph, last)
        BY <1>7, ExecuteFacts
      <3>2. server'.nulls = (server.nulls \/ \E i \in 1..Len(lens) : lens[i] = NULL)
        BY <1>1, <3>1 DEF Executed, Server
      <3> QED BY <3>2
    <2> QED BY <2>1, <2>2 DEF InUse
  <1> QED BY <1>2, <1>3, <1>5, <1>6, <1>7 DEF WireNext, ServerStep

\* Every step keeps the connection in step.
LEMMA InStepStep == Typed /\ InStep /\ [WireNext]_wireVars => InStep'
  <1> SUFFICES ASSUME Typed, InStep, [WireNext]_wireVars PROVE InStep'
    OBVIOUS
  <1>1. CASE UNCHANGED wireVars
    <2>1. Context' = Context
      BY <1>1 DEF wireVars, Context, Result
    <2>2. ASSUME NEW a, NEW k, NEW b, NEW l
          PROVE  /\ AtClient(a, k)' <=> AtClient(a, k)
                 /\ AtServer(b, l)' <=> AtServer(b, l)
      BY <1>1 DEF wireVars, AtClient, AtServer, HasRows, Result
    <2>3. ASSUME NEW a, NEW k, NEW b, NEW l
          PROVE  Leads(Context, a, k, down, b, l)' <=> Leads(Context, a, k, down, b, l)
      BY <1>1, <2>1 DEF wireVars
    <2>4. client' = client /\ server' = server /\ peer' = peer
      BY <1>1 DEF wireVars
    <2> QED BY <2>2, <2>3, <2>4 DEF InStep
  <1>2. ASSUME WireNext PROVE InStep'
    <2>1. CASE ~InUse'
      BY <2>1 DEF InStep, InUse
    <2>2. CASE InUse'
      <3>1. InUse
        BY <1>2, <2>2, InUseBefore
      <3>2. ~ConstructorThrows /\ ~close
        BY <2>2 DEF InUse, ConstructorThrows, close, Typed, Client
      <3> QED BY <1>2, <2>2, <3>1, <3>2, ConnectInStep, AuthenticateInStep, DrainInStep,
                 ReadsInStep, ReturnsInStep, ParsesInStep, DrainsInStep, LosesInStep,
                 QueryInStep, AuthInStep, PreparesInStep, ExecutesInStep, ErrorsInStep,
                 SkipsInStep, SyncsInStep, NoticeInStep, EndsInStep
              DEF WireNext, ClientStep, ServerStep
    <2> QED BY <2>1, <2>2
  <1> QED BY <1>1, <1>2

\* The connection starts in step.
LEMMA InStepStart == WireInit => InStep
  <1> SUFFICES ASSUME WireInit PROVE InStep
    OBVIOUS
  <1>1. Possible(Context, "auth")
    BY DEF Possible, Places
  <1>2. Leads(Context, "auth", 0, <<>>, "auth", 0)
    BY <1>1, LeadsNowhere
  <1>3. down = <<>> /\ AtClient("auth", 0) /\ AtServer("auth", 0)
    BY DEF WireInit, AtClient, AtServer, AuthPhases
  <1>4. Leads(Context, "auth", 0, down, "auth", 0)
    BY <1>2, <1>3
  <1> QED BY <1>3, <1>4 DEF InStep

\* query() returns the whole result of its own request, whatever errors, notices
\* and rows the queries before it met and wherever the server ends the connection,
\* as long as no NULL has been carried.
THEOREM QueryReturnsItsOwn == WireSpec => []ReturnsOwnResult
  <1>1. Typed /\ InStep => ReturnsOwnResult
    <2> SUFFICES ASSUME Typed, InStep, ~server.nulls, client.phase = "idle",
                        client.outcome = "returned"
                 PROVE  /\ server.req = client.req + 1
                        /\ client.rows = server.done.rows
                        /\ client.count = server.done.count
      BY DEF ReturnsOwnResult, OwnResult, In
    <2>1. PICK a, k, b, l : Leads(Context, a, k, down, b, l) /\ AtClient(a, k)
      BY DEF InStep
    <2>2. a = "idle" /\ client.rows = Result.rows /\ client.count = Result.count
      BY <2>1 DEF AtClient
    <2>3. server.req = client.req + 1
      <3>1. Possible(Context, a)
        BY <2>1, LeadsFacts DEF Typed
      <3> QED BY <2>2, <3>1, ContextFacts DEF Possible
    <2>4. Result = server.done
      <3>1. client.req \in Nat /\ server.req # client.req
        BY <2>3 DEF Typed, Client
      <3> QED BY <3>1 DEF Result
    <2> QED BY <2>2, <2>3, <2>4
  <1> QED BY <1>1, TypedStart, TypedStep, InStepStart, InStepStep, PTL DEF WireSpec

\* Between queries the server waits for a request, and nothing is under way that
\* the next query() could take for its answer.
THEOREM IdleIsInStep == WireSpec => []InStepWhenIdle
  <1>1. Typed /\ InStep => InStepWhenIdle
    <2> SUFFICES ASSUME Typed, InStep, ~server.nulls, client.phase = "idle", peer = "open"
                 PROVE  /\ up = <<>> /\ server.phase = "ready"
                        /\ \A i \in 1..Len(down) : down[i].tag = "N"
      BY DEF InStepWhenIdle, In, InServer
    <2>1. PICK a, k, b, l : /\ Leads(Context, a, k, down, b, l) /\ AtClient(a, k)
                            /\ AtServer(b, l)
      BY DEF InStep
    <2>2. a \in {"idle", "lost"} /\ Context.peer = "open" /\ down \in Seq(Replies)
      BY <2>1, ContextFacts DEF AtClient, Typed
    <2>3. /\ b \in {"idle", "lost"}
          /\ \A i \in 1..Len(down) : \/ down[i].tag = "N"
                                     \/ down[i].tag = "E" /\ Context.peer = "gone"
      BY <2>1, <2>2, LeadsOver
    <2>4. Possible(Context, b)
      BY <2>1, <2>2, LeadsFacts
    <2>5. b = "idle"
      BY <2>2, <2>3, <2>4 DEF Possible
    <2>6. up = <<>> /\ server.phase = "ready"
      BY <2>1, <2>5 DEF AtServer
    <2> QED BY <2>2, <2>3, <2>6
  <1> QED BY <1>1, TypedStart, TypedStep, InStepStart, InStepStep, PTL DEF WireSpec

=============================================================================
