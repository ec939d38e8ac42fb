------------------------------- MODULE PgWire -------------------------------
(***************************************************************************)
(* PgConnection of examples/pgwire.js: start-up and authentication,        *)
(* query() in the extended protocol and close(), against a PostgreSQL      *)
(* server.                                                                 *)
(*                                                                         *)
(* Each direction is a stream of whole messages, which is what             *)
(* SocketReader makes of the bytes (module SocketReader).  The server is   *)
(* external: it answers each message in turn, skips to Sync after an       *)
(* error, may send notices and may end the connection at any time.         *)
(***************************************************************************)
EXTENDS Integers, Sequences

CONSTANTS
    MaxRequests,    \* bound: queries on one connection
    MaxRows,        \* bound: rows of a result
    MaxNotices,     \* bound: asynchronous messages the server sends
    Word,           \* values of a length on the wire (2^32 in the code)
    FieldLengths    \* lengths of column values; -1 stands for NULL

ASSUME WireAssumption ==
    /\ MaxRequests \in Nat
    /\ MaxRows \in Nat
    /\ MaxNotices \in Nat
    /\ Word \in Nat \ {0} /\ Word % 2 = 0
    /\ FieldLengths \subseteq -1 .. (Word \div 2) - 1

VARIABLES
    client,     \* the PgConnection and its call under way
    server,     \* the backend at the other end; nulls records (ghost) that
                \* a result has held a NULL
    up,         \* messages from client to server
    down,       \* messages from server to client
    peer,       \* "open", or "gone" once the server has ended the connection
    notices     \* number of asynchronous messages so far

wireVars == <<client, server, up, down, peer, notices>>

Msg(tag) == [tag |-> tag]

\* AuthenticationOk, AuthenticationSASL, ...
Auth(type) == [tag |-> "R", type |-> type]

\* A DataRow: the number of its row within the request's result, and the
\* length field of its value.
DataRow(req, row, len) == [tag |-> "D", req |-> req, row |-> row, len |-> len]

CommandComplete(n) == [tag |-> "C", count |-> n]

\* A row the way query() hands it out.
ResultRow(req, row, value) == [req |-> req, row |-> row, value |-> value]

\* The value of a NULL column, and the length that announces it.
NULL == -1

-----------------------------------------------------------------------------
(* The client: constructor and authentication *)

In(phase) == client.phase = phase

\* pljsFdwNet.send of messages.  What the server can no longer read is lost.
Sent(messages) == IF peer = "open" THEN up \o messages ELSE up

\* reader.readMessage() has a message, m == Head(down), to return.
Received == down # <<>>
m        == Head(down)

\* readMessage() throws: the server has gone and everything is read.
ConnectionLost == down = <<>> /\ peer = "gone"

Connect ==
    /\ In("new")
    /\ up' = Sent(<<Msg("Startup")>>)
    /\ client' = [client EXCEPT !.phase = "auth"]
    /\ UNCHANGED <<server, down, peer, notices>>

\* What _authenticate and scramAuth do with an authentication message.
AuthTransitions ==
    {[from |-> "auth", type |-> "Ok", to |-> "drain", reply |-> <<>>],
     [from |-> "auth", type |-> "CleartextPassword", to |-> "authOk",
      reply |-> <<Msg("p")>>],
     [from |-> "auth", type |-> "SASL", to |-> "sasl", reply |-> <<Msg("p")>>],
     [from |-> "sasl", type |-> "SASLContinue", to |-> "saslFinal",
      reply |-> <<Msg("p")>>],
     [from |-> "saslFinal", type |-> "SASLFinal", to |-> "authOk",
      reply |-> <<>>],
     [from |-> "authOk", type |-> "Ok", to |-> "drain", reply |-> <<>>]}

Authenticating == client.phase \in {t.from : t \in AuthTransitions}

Expected(t) == t.from = client.phase /\ m = Auth(t.type)

_authenticate ==
    /\ Authenticating /\ Received
    /\ \E t \in AuthTransitions :
          /\ Expected(t)
          /\ client' = [client EXCEPT !.phase = t.to]
          /\ up' = Sent(t.reply)
    /\ down' = Tail(down)
    /\ UNCHANGED <<server, peer, notices>>

\* The constructor throws: when connect() or send() does, on any other message
\* while authenticating, on an error before ReadyForQuery, and when the
\* connection is lost.
ConstructorThrows ==
    /\ \/ In("new")
       \/ Authenticating /\ Received /\ \A t \in AuthTransitions : ~Expected(t)
       \/ In("drain") /\ Received /\ m.tag = "E"
       \/ (Authenticating \/ In("drain")) /\ ConnectionLost
    /\ client' = [client EXCEPT !.phase = "dead"]
    /\ UNCHANGED <<server, up, down, peer, notices>>

\* An iteration of _drainToReady in the constructor that does not throw.
_drainToReady ==
    /\ In("drain") /\ Received /\ m.tag # "E"
    /\ client' = IF m.tag = "Z" THEN [client EXCEPT !.phase = "idle"] ELSE client
    /\ down' = Tail(down)
    /\ UNCHANGED <<server, up, peer, notices>>

-----------------------------------------------------------------------------
(* The client: query() and close() *)

\* A faulty variant: Sync is not sent.
FaultyQuery ==
    /\ In("idle")
    /\ client.req < MaxRequests
    /\ client' = [phase |-> "result", req |-> client.req + 1, columns |-> FALSE,
                  rows |-> <<>>, count |-> 0, outcome |-> "none"]
    /\ up' = Sent(<<Msg("Parse"), Msg("Bind"), Msg("Describe"), Msg("Execute")>>)
    /\ UNCHANGED <<server, down, peer, notices>>

\* Parse, Bind, Describe, Execute and Sync are sent before anything is read.
query ==
    /\ In("idle")
    /\ client.req < MaxRequests
    /\ client' = [phase |-> "result", req |-> client.req + 1, columns |-> FALSE,
                  rows |-> <<>>, count |-> 0, outcome |-> "none"]
    /\ up' = Sent(<<Msg("Parse"), Msg("Bind"), Msg("Describe"), Msg("Execute"),
                    Msg("Sync")>>)
    /\ UNCHANGED <<server, down, peer, notices>>

\* query() ends, by returning or with an exception.
Ends(outcome) == client' = [client EXCEPT !.phase = "idle", !.outcome = outcome]

\* bodyReadInt32 reads a length as unsigned (>>> 0).
bodyReadInt32(len) == len % Word

\* _parseDataRow: does it return?  A length beyond the end of the body makes
\* utf8Decode run until the engine gives up; without a RowDescription there are
\* no column names.
Parses(d) == client.columns /\ bodyReadInt32(d.len) \in {-1, d.len}

_parseDataRow(d) ==
    ResultRow(d.req, d.row, IF bodyReadInt32(d.len) = -1 THEN NULL ELSE d.len)

\* Faulty variants: a row replaces the one before it; an error is thrown
\* without reading up to ReadyForQuery.
FaultyRowReplaced ==
    /\ In("result") /\ Received /\ m.tag \notin {"E", "Z"}
    /\ client' = CASE m.tag = "T" -> [client EXCEPT !.columns = TRUE]
                   [] m.tag = "D" -> [client EXCEPT !.rows = <<_parseDataRow(m)>>]
                   [] m.tag = "C" -> [client EXCEPT !.count = m.count]
                   [] OTHER -> client
    /\ down' = Tail(down)
    /\ UNCHANGED <<server, up, peer, notices>>

FaultyErrorThrown ==
    /\ In("result") /\ Received /\ m.tag # "Z"
    /\ IF m.tag = "E" THEN Ends("threw") ELSE UNCHANGED client
    /\ down' = Tail(down)
    /\ UNCHANGED <<server, up, peer, notices>>

\* An iteration of query()'s loop that goes on to the next message.
QueryReads ==
    /\ In("result") /\ Received
    /\ \/ m.tag \notin {"T", "D", "C", "E", "Z"} /\ UNCHANGED client
       \/ m.tag = "T" /\ client' = [client EXCEPT !.columns = TRUE]
       \/ /\ m.tag = "D" /\ Parses(m)
          /\ client' = [client EXCEPT !.rows = Append(@, _parseDataRow(m))]
       \/ m.tag = "C" /\ client' = [client EXCEPT !.count = m.count]
       \/ m.tag = "E" /\ client' = [client EXCEPT !.phase = "drainError"]
    /\ down' = Tail(down)
    /\ UNCHANGED <<server, up, peer, notices>>

QueryReturns ==
    /\ In("result") /\ Received /\ m.tag = "Z"
    /\ Ends("returned")
    /\ down' = Tail(down)
    /\ UNCHANGED <<server, up, peer, notices>>

\* _parseDataRow throws out of query(), which reads no further.
QueryParseThrows ==
    /\ In("result") /\ Received /\ m.tag = "D" /\ ~Parses(m)
    /\ Ends("threw")
    /\ down' = Tail(down)
    /\ UNCHANGED <<server, up, peer, notices>>

\* A faulty variant: the error is read and not thrown.
FaultyQueryDrains ==
    /\ In("drainError") /\ Received
    /\ client' = IF m.tag \in {"Z", "E"} THEN [client EXCEPT !.phase = "idle"]
                 ELSE client
    /\ down' = Tail(down)
    /\ UNCHANGED <<server, up, peer, notices>>

\* After an ErrorResponse the rest is read up to ReadyForQuery (or to another
\* error) before query() throws.
QueryDrains ==
    /\ In("drainError") /\ Received
    /\ IF m.tag \in {"Z", "E"} THEN Ends("threw") ELSE UNCHANGED client
    /\ down' = Tail(down)
    /\ UNCHANGED <<server, up, peer, notices>>

\* The server has gone and send() throws.  Nothing marks the connection as
\* unusable: the next query() tries again.
QuerySendThrows ==
    /\ In("idle") /\ peer = "gone"
    /\ client.req < MaxRequests
    /\ client' = [client EXCEPT !.req = @ + 1, !.outcome = "threw"]
    /\ UNCHANGED <<server, up, down, peer, notices>>

QueryLosesConnection ==
    /\ In("result") \/ In("drainError")
    /\ ConnectionLost
    /\ Ends("threw")
    /\ UNCHANGED <<server, up, down, peer, notices>>

close ==
    /\ In("idle")
    /\ client' = [client EXCEPT !.phase = "closed"]
    /\ up' = Sent(<<Msg("X")>>)
    /\ UNCHANGED <<server, down, peer, notices>>

-----------------------------------------------------------------------------
(* The server (external) *)

\* The server takes the next message, which is named tag, and replies.
Serves(tag, phase, reply) ==
    /\ peer = "open"
    /\ up # <<>> /\ Head(up) = Msg(tag)
    /\ up' = Tail(up)
    /\ server' = [server EXCEPT !.phase = phase]
    /\ down' = down \o reply
    /\ UNCHANGED <<client, peer, notices>>

InServer(phase) == server.phase = phase

Welcome == <<Auth("Ok"), Msg("S"), Msg("K"), Msg("Z")>>

ServerAuthenticates ==
    \/ InServer("startup") /\ Serves("Startup", "ready", Welcome)
    \/ InServer("startup") /\ Serves("Startup", "password",
                                     <<Auth("CleartextPassword")>>)
    \/ InServer("startup") /\ Serves("Startup", "md5",
                                     <<Auth("MD5Password")>>)
    \/ InServer("startup") /\ Serves("Startup", "sasl", <<Auth("SASL")>>)
    \/ InServer("password") /\ Serves("p", "ready", Welcome)
    \/ InServer("sasl") /\ Serves("p", "proof", <<Auth("SASLContinue")>>)
    \/ InServer("proof") /\ Serves("p", "ready", <<Auth("SASLFinal")>> \o Welcome)

\* Parse, Bind or Describe succeeds.  The statement returns rows (then a
\* RowDescription is sent) or does not (NoData).
ServerPrepares ==
    \/ InServer("ready") /\ Serves("Parse", "ready", <<Msg("1")>>)
    \/ InServer("ready") /\ Serves("Bind", "ready", <<Msg("2")>>)
    \/ InServer("ready") /\ Serves("Describe", "rows", <<Msg("T")>>)
    \/ InServer("ready") /\ Serves("Describe", "noRows", <<Msg("n")>>)

\* Execute has sent rows of these lengths and ends with a last message.
Produces(lens, phase, count, last) ==
    /\ down' = down
          \o [i \in 1..Len(lens) |-> DataRow(server.req, i, lens[i])]
          \o <<last>>
    /\ server' = [server EXCEPT !.phase = phase, !.count = count,
          !.nulls = @ \/ \E i \in 1..Len(lens) : lens[i] = NULL,
          !.rows = [i \in 1..Len(lens) |-> ResultRow(server.req, i, lens[i])]]

\* Execute: n rows are returned, or n are affected and none returned; or it
\* fails, after some of the rows.  The server then ignores what follows until
\* Sync.
ServerExecutes ==
    /\ InServer("rows") \/ InServer("noRows")
    /\ peer = "open"
    /\ up # <<>> /\ Head(up) = Msg("Execute")
    /\ \E n \in 0..MaxRows :
       \E lens \in IF InServer("rows") THEN [1..n -> FieldLengths] ELSE {<<>>} :
          \/ Produces(lens, "ready", n, CommandComplete(n))
          \/ Produces(lens, "skip", 0, Msg("E"))
    /\ up' = Tail(up)
    /\ UNCHANGED <<client, peer, notices>>

ServerWorks == server.phase \in {"ready", "rows", "noRows"}

\* Parse, Bind or Describe fails: the server ignores what follows until Sync.
ServerErrors ==
    /\ InServer("ready")
    /\ \E tag \in {"Parse", "Bind", "Describe"} :
          Serves(tag, "skip", <<Msg("E")>>)

ServerSkips ==
    /\ InServer("skip")
    /\ \E tag \in {"Parse", "Bind", "Describe", "Execute"} :
          Serves(tag, "skip", <<>>)

ServerSyncs ==
    /\ InServer("ready") \/ InServer("skip")
    /\ peer = "open"
    /\ up # <<>> /\ Head(up) = Msg("Sync")
    /\ server' = [phase |-> "ready", req |-> server.req + 1, rows |-> <<>>,
                  count |-> 0, nulls |-> server.nulls,
                  done |-> [rows |-> server.rows, count |-> server.count]]
    /\ down' = Append(down, Msg("Z"))
    /\ up' = Tail(up)
    /\ UNCHANGED <<client, peer, notices>>

\* A NoticeResponse or ParameterStatus, at any time after authentication.
ServerNotice ==
    /\ ServerWorks \/ InServer("skip")
    /\ peer = "open"
    /\ notices < MaxNotices
    /\ notices' = notices + 1
    /\ down' = Append(down, Msg("N"))
    /\ UNCHANGED <<client, server, up, peer>>

\* The server ends the connection: on Terminate, with a FATAL error, or
\* without a word, in which case some of what it sent may not arrive.
ServerEnds ==
    /\ peer = "open"
    /\ \/ up # <<>> /\ Head(up) = Msg("X") /\ UNCHANGED down
       \/ down' = Append(down, Msg("E"))
       \/ \E n \in 0..Len(down) : down' = SubSeq(down, 1, n)
    /\ peer' = "gone"
    /\ up' = <<>>
    /\ UNCHANGED <<client, server, notices>>

-----------------------------------------------------------------------------

WireInit ==
    /\ client = [phase |-> "new", req |-> 0, columns |-> FALSE, rows |-> <<>>,
                 count |-> 0, outcome |-> "none"]
    /\ server = [phase |-> "startup", req |-> 1, rows |-> <<>>, count |-> 0,
                 nulls |-> FALSE, done |-> [rows |-> <<>>, count |-> 0]]
    /\ up = <<>>
    /\ down = <<>>
    /\ peer = "open"
    /\ notices = 0

ClientStep ==
    \/ Connect
    \/ _authenticate
    \/ ConstructorThrows
    \/ _drainToReady
    \/ QueryReads
    \/ QueryReturns
    \/ QueryParseThrows
    \/ QueryDrains
    \/ QueryLosesConnection

ServerStep ==
    \/ ServerAuthenticates
    \/ ServerPrepares
    \/ ServerExecutes
    \/ ServerErrors
    \/ ServerSkips
    \/ ServerSyncs

WireNext ==
    \/ ClientStep
    \/ query
    \/ QuerySendThrows
    \/ close
    \/ ServerStep
    \/ ServerNotice
    \/ ServerEnds

WireSpec == WireInit /\ [][WireNext]_wireVars

\* The client runs and the server answers what it is sent.
FairWireSpec == WireSpec /\ WF_wireVars(ClientStep) /\ WF_wireVars(ServerStep)

-----------------------------------------------------------------------------
(* Properties *)

Phases == {"new", "auth", "sasl", "saslFinal", "authOk", "drain", "idle",
           "result", "drainError", "closed", "dead"}

Row == [req : Nat, row : Nat, value : Int]

Client == [phase : Phases, req : Nat, columns : BOOLEAN, rows : Seq(Row),
           count : Nat, outcome : {"none", "returned", "threw"}]

Server == [phase : {"startup", "password", "md5", "sasl", "proof", "ready",
                    "rows", "noRows", "skip"},
           req : Nat, rows : Seq(Row), count : Nat, nulls : BOOLEAN,
           done : [rows : Seq(Row), count : Nat]]

Requests == [tag : {"Startup", "p", "Parse", "Bind", "Describe", "Execute", "Sync",
                    "X"}]

Replies ==
    [tag : {"1", "2", "T", "n", "E", "Z", "S", "K", "N"}]
    \cup [tag : {"R"}, type : {"Ok", "CleartextPassword", "MD5Password", "SASL",
                               "SASLContinue", "SASLFinal"}]
    \cup [tag : {"D"}, req : Nat, row : Nat, len : FieldLengths]
    \cup [tag : {"C"}, count : Nat]

\* The connection, the server and the messages both ways have their types, a
\* query that has ended has an outcome, and the server is never ahead of the
\* client: it ends (with Sync) only requests that query() has sent.
WireTypeOK ==
    /\ client \in Client
    /\ server \in Server
    /\ up \in Seq(Requests)
    /\ down \in Seq(Replies)
    /\ peer \in {"open", "gone"}
    /\ notices \in 0..MaxNotices
    /\ client.req <= MaxRequests
    /\ In("idle") /\ client.req > 0 => client.outcome # "none"
    /\ server.req \in 1 .. client.req + 1

\* What query() has returned is the whole result of its own request: the rows
\* the server produced for it, in order, and the row count.
OwnResult ==
    In("idle") /\ client.outcome = "returned" =>
        /\ server.req = client.req + 1
        /\ client.rows = server.done.rows
        /\ client.count = server.done.count

\* query() returns its own result, after whatever errors, notices and rows the
\* queries before it met, on a connection that has carried no NULL.
ReturnsOwnResult == ~server.nulls => OwnResult

\* "if (len === -1) { row[columns[i]] = null; }": query() returns its own
\* result, NULLs included.
ReturnsNulls == OwnResult

\* Between queries the connection is in step: whether the last one returned
\* or failed, the server waits for a request and nothing that could pass for
\* the answer to the next one is under way (as long as there was no NULL).
InStepWhenIdle ==
    In("idle") /\ peer = "open" /\ ~server.nulls =>
        /\ up = <<>>
        /\ InServer("ready")
        /\ \A i \in 1..Len(down) : down[i].tag = "N"

\* Every query ends, with a result or an exception: the client never waits for
\* a message that the server does not owe it.
QueryEnds == (In("result") \/ In("drainError")) ~> In("idle")

=============================================================================
