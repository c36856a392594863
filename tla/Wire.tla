--------------------------------- MODULE Wire ---------------------------------
(***************************************************************************)
(* The connections that a client of the XATMI library makes to the         *)
(* switchboard, one after the other, and the bytes the two exchange.       *)
(* Neither side marks where a message starts or ends: each must read       *)
(* exactly as many bytes as the other has written.  The client's side is   *)
(* tx_open.c, tpacall.c, tpgetrply.c, tpadvertise.c, tpunadvertise.c and   *)
(* tpreturn.c; the switchboard's is Iowait, which accepts connections,     *)
(* reads what has come, however little, and calls the handler of the       *)
(* client when its buffer is full.  The client may die and the switchboard *)
(* may exit at any point; both may start again.                            *)
(*                                                                         *)
(* A byte is a record of what it was written as and of the number it       *)
(* starts, if any.  What the other clients do is left open: whether a      *)
(* service is advertised, when a piece of work comes, and whether a reply  *)
(* comes at all, as its transaction may go with its service.               *)
(***************************************************************************)
EXTENDS Naturals, Sequences

CONSTANTS
    XATMI_SERVICE_NAME_LENGTH,
    IOSHORT,
    IOLONG,
    DataLength,   \* the lengths of requests and results
    Results,      \* the results of service routines: TPSUCCESS, TPFAIL, TPERRNO
    MaxCalls,     \* bound: calls that are outstanding at the same time
    MaxConns      \* bound: connections that are not yet closed at both ends

ASSUME WireConstants ==
    /\ XATMI_SERVICE_NAME_LENGTH \in Nat \ {0}
    /\ IOSHORT \in Nat \ {0}
    /\ IOLONG \in Nat \ {0}
    /\ DataLength \subseteq Nat
    /\ Results \subseteq {"TPSUCCESS", "TPFAIL", "TPERRNO"}
    /\ MaxCalls \in Nat
    /\ MaxConns \in Nat

Conn == 1 .. MaxConns

VARIABLES
    up,         \* the switchboard runs
    server,     \* _tx_server: the current one, or 0 for -1
    client,     \* the switchboard's end of each: in the "backlog", "open" or "closed"
    cut,        \* the ones whose client has died
    toServer,   \* written by the client, not yet read by the switchboard
    toClient,   \* written by the switchboard, not yet read by the client
    lib,        \* where the client is: "idle", or in which tx_read
    expects,    \* how many bytes that tx_read waits for
    len,        \* the length of the data that tpacall is to send
    serving,    \* _tp_longjmp_okay: the client is in a service routine
    handler,    \* tpclient.handler
    size,       \* the size of tpclient.input
    input,      \* the bytes in tpclient.input
    calls       \* how many transactions of this client there are

connVars == <<up, server, client, cut>>
libVars == <<lib, expects, len, serving>>
svrVars == <<handler, size, input, calls>>
vars == <<connVars, toServer, toClient, libVars, svrVars>>

--------------------------------------------------------------------------------
\* Bytes, and the numbers and names they make up.
Byte(kind, n) == [kind |-> kind, n |-> n]
Fill(n) == [i \in 1..n |-> Byte("fill", 0)]
Long(n) == <<Byte("long", n)>> \o Fill(IOLONG - 1)
Short == Fill(IOSHORT)
Name == Fill(XATMI_SERVICE_NAME_LENGTH)
Data(n) == [i \in 1..n |-> Byte("data", 0)]

\* tx_write, svrwrite: the bytes go to the end of the stream.  What is written to
\* a client that has gone is lost, and nobody notices (svrio.c).
tx_write(bytes) == toServer' = [toServer EXCEPT ![server] = @ \o bytes]
svrwrite(c, bytes) ==
    toClient' = IF c = server THEN [toClient EXCEPT ![c] = @ \o bytes] ELSE toClient

\* Mutant: svracall is taken to have one long.
command_length_short ==
    [TPTCALL  |-> XATMI_SERVICE_NAME_LENGTH + IOLONG,
     TPTGRPLY |-> IOSHORT + IOLONG,
     TPTADVT  |-> XATMI_SERVICE_NAME_LENGTH + IOLONG,
     TPTUADV  |-> XATMI_SERVICE_NAME_LENGTH,
     TPTWORK  |-> 0,
     TPTRETN  |-> 1 + IOLONG * 2]

\* Mutant: svradvertise is taken to have two longs.
command_length_long ==
    [TPTCALL  |-> XATMI_SERVICE_NAME_LENGTH + IOLONG * 2,
     TPTGRPLY |-> IOSHORT + IOLONG,
     TPTADVT  |-> XATMI_SERVICE_NAME_LENGTH + IOLONG * 2,
     TPTUADV  |-> XATMI_SERVICE_NAME_LENGTH,
     TPTWORK  |-> 0,
     TPTRETN  |-> 1 + IOLONG * 2]

\* The command table: how many bytes follow each command.
command_length ==
    [TPTCALL  |-> XATMI_SERVICE_NAME_LENGTH + IOLONG * 2,
     TPTGRPLY |-> IOSHORT + IOLONG,
     TPTADVT  |-> XATMI_SERVICE_NAME_LENGTH + IOLONG,
     TPTUADV  |-> XATMI_SERVICE_NAME_LENGTH,
     TPTWORK  |-> 0,
     TPTRETN  |-> 1 + IOLONG * 2]

Command == DOMAIN command_length

Init ==
    /\ up = FALSE /\ server = 0 /\ cut = {}
    /\ client = [c \in Conn |-> "closed"]
    /\ toServer = [c \in Conn |-> <<>>] /\ toClient = [c \in Conn |-> <<>>]
    /\ lib = "idle" /\ expects = 0 /\ len = 0 /\ serving = FALSE
    /\ handler = [c \in Conn |-> "none"] /\ size = [c \in Conn |-> 0]
    /\ input = [c \in Conn |-> <<>>] /\ calls = [c \in Conn |-> 0]

--------------------------------------------------------------------------------
(* The client.                                                              *)

\* There is a connection that the switchboard has not closed.  Without one the
\* first tx_write of a call fails and the call returns -1: nothing changes.
Open == server # 0 /\ client[server] # "closed"

\* The client goes into tx_read for n bytes, which the step at will take.
tx_read(at, n) == lib' = at /\ expects' = n

\* A call begins: a request, then a tx_read.
Request(bytes, at, n) ==
    /\ lib = "idle" /\ Open
    /\ tx_write(bytes)
    /\ tx_read(at, n)
    /\ UNCHANGED <<connVars, toClient, serving, svrVars>>

\* All the bytes of the tx_read at are there, and are taken.
Reads(at) ==
    /\ lib = at
    /\ Len(toClient[server]) >= expects
    /\ toClient' = [toClient EXCEPT ![server] = SubSeq(@, expects + 1, Len(@))]
    /\ UNCHANGED <<connVars, svrVars>>

\* What the tx_read that has its bytes begins with.
Got(i) == toClient[server][i]

Return == lib' = "idle" /\ expects' = 0

\* tx_read at the end of the input, or after an error: the call fails.  (After the
\* last tx_read of tpgetrply it does not, but returns as well.)
tx_read_fails ==
    /\ lib # "idle" /\ ~Open
    /\ Return
    /\ toClient' = [toClient EXCEPT ![server] = <<>>]
    /\ UNCHANGED <<connVars, toServer, len, serving, svrVars>>

tpacall(n) ==
    /\ Request(<<Byte("TPTCALL", 0)>> \o Name \o Long(n) \o Long(0), "tpacall", 1 + IOSHORT)
    /\ len' = n

\* The data goes only if the switchboard says okay.
tpacall_answer ==
    /\ Reads("tpacall")
    /\ IF Got(1).kind = "ok" /\ Open THEN tx_write(Data(len)) ELSE UNCHANGED toServer
    /\ Return
    /\ UNCHANGED <<len, serving>>

tpgetrply ==
    /\ Request(<<Byte("TPTGRPLY", 0)>> \o Short \o Long(0), "tpgetrply", 1 + IOSHORT)
    /\ UNCHANGED len

\* Mutant: a failed call is taken to come without data.
HasData_success(b) == b.kind = "TPSUCCESS"

\* The answer goes on after the cd: it is not an error of the switchboard's.
HasData(b) == b.kind \in {"TPSUCCESS", "TPFAIL"}

tpgetrply_answer ==
    /\ Reads("tpgetrply")
    /\ IF HasData(Got(1)) THEN tx_read("tpgetrply_lengths", IOLONG * 2) ELSE Return
    /\ UNCHANGED <<toServer, len, serving>>

tpgetrply_lengths ==
    /\ Reads("tpgetrply_lengths")
    /\ LET n == Got(IOLONG + 1).n
       IN  IF n # 0 THEN tx_read("data", n) ELSE Return
    /\ UNCHANGED <<toServer, len, serving>>

tpadvertise ==
    /\ Request(<<Byte("TPTADVT", 0)>> \o Name \o Long(0), "data", IOSHORT)
    /\ UNCHANGED len

tpunadvertise ==
    /\ Request(<<Byte("TPTUADV", 0)>> \o Name, "data", IOSHORT)
    /\ UNCHANGED len

\* The last tx_read of tpgetrply, tpadvertise and tpunadvertise.
last_read ==
    /\ Reads("data")
    /\ Return
    /\ UNCHANGED <<toServer, len, serving>>

\* tpservice reads the opaque, the rest of the header, then the data, and calls
\* the service routine.
tpservice ==
    /\ ~serving
    /\ Request(<<Byte("TPTWORK", 0)>>, "tpservice", IOLONG)
    /\ UNCHANGED len
tpservice_opaque ==
    /\ Reads("tpservice")
    /\ tx_read("tpservice_header", XATMI_SERVICE_NAME_LENGTH + IOLONG * 2 + IOSHORT)
    /\ UNCHANGED <<toServer, len, serving>>
tpservice_header ==
    /\ Reads("tpservice_header")
    /\ tx_read("tpservice_data", Got(XATMI_SERVICE_NAME_LENGTH + 1).n)
    /\ UNCHANGED <<toServer, len, serving>>
tpservice_data ==
    /\ Reads("tpservice_data")
    /\ serving' = TRUE
    /\ Return
    /\ UNCHANGED <<toServer, len>>

\* tpreturn with n bytes of data; or, with none, the end of a service routine
\* that has not called it.  It does not look whether its writes fail.
tpreturn(n) ==
    /\ lib = "idle" /\ serving
    /\ serving' = FALSE
    /\ IF Open
       THEN tx_write(<<Byte("TPTRETN", 0), Byte("rval", 0)>> \o Long(0) \o Long(n) \o Data(n))
       ELSE UNCHANGED toServer
    /\ UNCHANGED <<connVars, toClient, lib, expects, len, svrVars>>

\* The client closes its end of the current connection and goes on with another one,
\* or with none.
Leaves(c) ==
    /\ server' = c
    /\ toClient' = IF server = 0 THEN toClient ELSE [toClient EXCEPT ![server] = <<>>]
    /\ UNCHANGED <<up, svrVars>>

\* tx_open closes the connection there is, then connects, which may fail.  (Bound: the
\* successor of a process that died connects when the switchboard has deleted that
\* one; the two have nothing in common, unlike two connections of one process.)
tx_open ==
    /\ lib = "idle"
    /\ \/ /\ up /\ \A c \in cut : client[c] = "closed"
          /\ \E c \in Conn \ {server} :
                /\ client[c] = "closed"
                /\ Leaves(c)
                /\ client' = [client EXCEPT ![c] = "backlog"]
                /\ cut' = cut \ {c}
       \/ Leaves(0) /\ UNCHANGED <<client, cut>>
    /\ UNCHANGED <<toServer, libVars>>

tx_close ==
    /\ lib = "idle"
    /\ Leaves(0)
    /\ UNCHANGED <<client, cut, toServer, libVars>>

\* The process dies, wherever it is.  Of what it was writing, or had written, only
\* a part may get to the switchboard.  Another process may take its place.
dies ==
    /\ server # 0
    /\ \E n \in 0 .. Len(toServer[server]) :
          toServer' = [toServer EXCEPT ![server] = SubSeq(@, 1, n)]
    /\ Leaves(0)
    /\ cut' = cut \cup {server}
    /\ Return
    /\ len' = 0 /\ serving' = FALSE
    /\ UNCHANGED client

\* A step that a call inside tx_read takes.
LibReads ==
    \/ tpacall_answer
    \/ tpgetrply_answer \/ tpgetrply_lengths \/ last_read
    \/ tpservice_opaque \/ tpservice_header \/ tpservice_data
    \/ tx_read_fails

Lib ==
    \/ \E n \in DataLength : tpacall(n) \/ tpreturn(n)
    \/ tpgetrply \/ tpadvertise \/ tpunadvertise \/ tpservice
    \/ tx_open \/ tx_close \/ dies
    \/ LibReads

--------------------------------------------------------------------------------
(* The switchboard.                                                         *)

\* svriowait() for n bytes.  The handlers of data, which are called at once when
\* there is none, begin with svr_next_command.
svriowait(c, h, n) ==
    /\ handler' = [handler EXCEPT ![c] = IF n = 0 THEN "command" ELSE h]
    /\ size' = [size EXCEPT ![c] = IF n = 0 THEN 1 ELSE n]
svr_next_command(c) == svriowait(c, "command", 1)

\* The client is left hanging: no input is expected.
Hang(c, h) == handler' = [handler EXCEPT ![c] = h] /\ size' = [size EXCEPT ![c] = 0]

\* Mutant: the client's next command is not asked for.
svracall_refused_hangs(c) ==
    /\ svrwrite(c, <<Byte("error", 0)>> \o Short)
    /\ Hang(c, "none")
    /\ UNCHANGED <<calls, client>>

\* svracall() of a service that is not there: an error.
svracall_refused(c) ==
    /\ svrwrite(c, <<Byte("error", 0)>> \o Short)
    /\ svr_next_command(c)
    /\ UNCHANGED <<calls, client>>

\* svracall(): the cd, and the data is awaited.
svracall(c, b) ==
    \/ svracall_refused(c)
    \/ /\ calls[c] < MaxCalls
       /\ calls' = [calls EXCEPT ![c] = @ + 1]
       /\ svrwrite(c, <<Byte("ok", 0)>> \o Short)
       /\ svriowait(c, "send_to_worker", b[XATMI_SERVICE_NAME_LENGTH + 1].n)
       /\ UNCHANGED client

\* snd_reply(): a result with its return code, its length and its data.  A
\* service routine that did not call tpreturn (TPERRNO) has no data of its own.
snd_reply(c) ==
    /\ calls[c] > 0
    /\ calls' = [calls EXCEPT ![c] = @ - 1]
    /\ \E rval \in Results : \E n \in DataLength :
          svrwrite(c, <<Byte(rval, 0)>> \o Short \o Long(0) \o Long(n) \o Data(n))
    /\ svr_next_command(c)
    /\ UNCHANGED client

\* svrgetrply(): a reply that is there, an error, or nothing yet.  With TPGETANY the
\* client is left hanging even if it has no call outstanding.
svrgetrply(c) ==
    \/ snd_reply(c)
    \/ /\ svrwrite(c, <<Byte("TPERRNO", 0)>> \o Short)
       /\ svr_next_command(c)
       /\ UNCHANGED <<calls, client>>
    \/ Hang(c, "reply") /\ UNCHANGED <<toClient, calls, client>>

\* svradvertise() and svrunadvertise() answer with a short.
svradvertise(c) ==
    /\ svrwrite(c, Short)
    /\ svr_next_command(c)
    /\ UNCHANGED <<calls, client>>

\* Mutant: the cd is left out of the work.
send_to_server_nocd(c) ==
    /\ \E n \in DataLength :
          svrwrite(c, Long(0) \o Name \o Long(n) \o Long(0) \o Data(n))
    /\ svr_next_command(c)
    /\ UNCHANGED <<calls, client>>

\* send_to_server(): the opaque, the name, the length, the flags, the cd, the data.
send_to_server(c) ==
    /\ \E n \in DataLength :
          svrwrite(c, Long(0) \o Name \o Long(n) \o Long(0) \o Short \o Data(n))
    /\ svr_next_command(c)
    /\ UNCHANGED <<calls, client>>

\* svrservice(), which is called as soon as its command is known.
svrservice(c) ==
    \/ send_to_server(c)
    \/ Hang(c, "work") /\ UNCHANGED <<toClient, calls, client>>

svrreturn(c, b) ==
    /\ svriowait(c, "part2", b[1 + IOLONG + 1].n)
    /\ UNCHANGED <<toClient, calls, client>>

\* del_client(), as far as the connection goes: the switchboard's end is closed.
del_client(c) ==
    /\ client' = [client EXCEPT ![c] = "closed"]
    /\ Hang(c, "none")
    /\ calls' = [calls EXCEPT ![c] = 0]
    /\ UNCHANGED toClient

\* command(): how much follows depends on the command; anything else ends the
\* connection.
command(c, b) ==
    \/ b.kind = "TPTWORK" /\ svrservice(c)
    \/ /\ b.kind \in Command \ {"TPTWORK"}
       /\ svriowait(c, b.kind, command_length[b.kind])
       /\ UNCHANGED <<toClient, calls, client>>
    \/ b.kind \notin Command /\ del_client(c)

\* The data of a request or of a result is in.
next_part(c) ==
    /\ svr_next_command(c)
    /\ UNCHANGED <<toClient, calls, client>>

\* What the handler does with a full buffer b.
handle(c, b) ==
    \/ handler[c] = "command" /\ command(c, b[1])
    \/ handler[c] = "TPTCALL" /\ svracall(c, b)
    \/ handler[c] = "TPTGRPLY" /\ svrgetrply(c)
    \/ handler[c] \in {"TPTADVT", "TPTUADV"} /\ svradvertise(c)
    \/ handler[c] = "TPTRETN" /\ svrreturn(c, b)
    \/ handler[c] \in {"send_to_worker", "part2"} /\ next_part(c)

\* What no step of the switchboard's but its start and its exit changes.
SvrUnchanged == UNCHANGED <<up, server, cut, libVars>>

\* Iowait: a new connection is accepted.
Iowait_accepts(c) ==
    /\ up /\ client[c] = "backlog"
    /\ client' = [client EXCEPT ![c] = "open"]
    /\ svr_next_command(c)
    /\ SvrUnchanged /\ UNCHANGED <<toServer, toClient, input, calls>>

\* Iowait: the switchboard reads some of what has come, up to what it expects,
\* and calls the handler when that is all.
Iowait_part(c, n) ==
    /\ client[c] = "open" /\ n <= Len(toServer[c]) /\ Len(input[c]) + n < size[c]
    /\ input' = [input EXCEPT ![c] = @ \o SubSeq(toServer[c], 1, n)]
    /\ toServer' = [toServer EXCEPT ![c] = SubSeq(@, n + 1, Len(@))]
    /\ SvrUnchanged /\ UNCHANGED <<client, toClient, handler, size, calls>>
Iowait_full(c) ==
    LET n == size[c] - Len(input[c])
    IN  /\ client[c] = "open" /\ size[c] > 0 /\ n <= Len(toServer[c])
        /\ handle(c, input[c] \o SubSeq(toServer[c], 1, n))
        /\ input' = [input EXCEPT ![c] = <<>>]
        /\ toServer' = [toServer EXCEPT ![c] = SubSeq(@, n + 1, Len(@))]
        /\ SvrUnchanged

\* Mutant: a client is not watched while no input is expected from it.
Iowait_deletes_expected(c) ==
    /\ client[c] = "open" /\ size[c] > 0
    /\ toServer[c] = <<>> /\ c # server
    /\ del_client(c)
    /\ input' = [input EXCEPT ![c] = <<>>]
    /\ SvrUnchanged /\ UNCHANGED toServer

\* Iowait: the end of the input, or input that nothing is waiting for.
Iowait_deletes(c) ==
    /\ client[c] = "open"
    /\ IF toServer[c] = <<>> THEN c # server ELSE size[c] = 0
    /\ del_client(c)
    /\ input' = [input EXCEPT ![c] = <<>>]
    /\ toServer' = [toServer EXCEPT ![c] = <<>>]
    /\ SvrUnchanged

Iowait(c) ==
    \/ \E n \in 1 .. Len(toServer[c]) : Iowait_part(c, n)
    \/ Iowait_full(c) \/ Iowait_deletes(c)

\* The handler of another client has a reply, or work, for this one.
reply_comes(c) ==
    /\ handler[c] = "reply" /\ snd_reply(c)
    /\ SvrUnchanged /\ UNCHANGED <<toServer, input>>
work_comes(c) ==
    /\ handler[c] = "work" /\ send_to_server(c)
    /\ SvrUnchanged /\ UNCHANGED <<toServer, input>>

\* The handler of another client deletes a service, and with it a transaction of this
\* client that waits for it.  The client is told nothing, and left hanging if it is.
del_service(c) ==
    /\ calls[c] > 0
    /\ calls' = [calls EXCEPT ![c] = @ - 1]
    /\ SvrUnchanged /\ UNCHANGED <<client, toServer, toClient, handler, size, input>>

\* main: the switchboard listens.
main ==
    /\ ~up /\ up' = TRUE
    /\ UNCHANGED <<server, client, cut, toServer, toClient, libVars, svrVars>>

\* A signal: all its ends are closed, those that it has not accepted too.  A reply
\* that it was writing may still be read, or not (tx_read_fails).
exit_handler ==
    /\ up /\ up' = FALSE
    /\ client' = [c \in Conn |-> "closed"]
    /\ toServer' = [c \in Conn |-> <<>>]
    /\ handler' = [c \in Conn |-> "none"] /\ size' = [c \in Conn |-> 0]
    /\ input' = [c \in Conn |-> <<>>] /\ calls' = [c \in Conn |-> 0]
    /\ UNCHANGED <<server, cut, toClient, libVars>>

Svr ==
    \/ main \/ exit_handler
    \/ \E c \in Conn :
          \/ Iowait_accepts(c) \/ Iowait(c)
          \/ reply_comes(c) \/ work_comes(c) \/ del_service(c)

Next == Lib \/ Svr

\* tx_read goes on when its bytes are there or will not come.  For each connection
\* the switchboard does in the end what there is to do: select() reports it, and
\* Iowait goes through all that are reported.  Neither work nor a reply need come,
\* and the switchboard need not be started again.
Fairness ==
    /\ WF_vars(LibReads)
    /\ \A c \in Conn : WF_vars(Iowait_accepts(c) \/ Iowait(c))

Spec == Init /\ [][Next]_vars /\ Fairness

--------------------------------------------------------------------------------
\* Where the switchboard expects a command it reads one: it has taken exactly
\* what was written for every command before (tpserver.c: "CO-ORDINATE WITH
\* MESSAGE TYPES").
CommandsInStep ==
    \A c \in Conn :
        handler[c] = "command" /\ toServer[c] # <<>> => Head(toServer[c]).kind \in Command

\* A client that uses the library is never taken for one that sends what is not
\* expected or what is no command: Iowait deletes it only when it has closed the
\* connection or has died, and in the first case after all it wrote has been read
\* and between two commands.
DeletedAtEnd ==
    [][\A c \in Conn :
         client[c] = "open" /\ client'[c] = "closed" /\ up' =>
            /\ c # server
            /\ c \notin cut =>
                 handler[c] = "command" /\ input[c] = <<>> /\ toServer[c] = <<>>]_vars

\* A client that begins a call has read all of the answers to the calls before
\* (tpgetrply.c, svrgetrply.c).
AnswersInStep == lib = "idle" /\ Open => toClient[server] = <<>>

\* Client and switchboard never wait for bytes of each other.  While a call of the
\* library waits in tx_read for bytes that have not come, the switchboard has yet to
\* accept the connection, or has all the bytes that its handler waits for; or else it has
\* left the client hanging, for work or for a reply, which other clients bring, or do not
\* (tx_io.c, tpserver.c).
NeverBothWait ==
    lib # "idle" /\ Open /\ Len(toClient[server]) < expects =>
        \/ up /\ client[server] = "backlog"
        \/ size[server] > 0 /\ size[server] <= Len(input[server]) + Len(toServer[server])
        \/ handler[server] \in {"work", "reply"}

\* A call of the library returns, also when the switchboard exits in the middle of it,
\* unless svrservice or svrgetrply leaves its client hanging; and then it returns once
\* work or a reply has come, or the switchboard exits.  That a reply comes is not
\* promised here: it may never do so (AwaitedIsKnown in Switchboard).
CallsReturn == lib # "idle" ~> lib = "idle" \/ handler[server] \in {"work", "reply"}

\* A connection whose client has left it, in whatever state (hanging, in the middle
\* of a message, not yet accepted), is closed by the switchboard too.
GoneAreDeleted == \A c \in Conn : c # server ~> client[c] = "closed"

--------------------------------------------------------------------------------
(* What there is between the two sides when they are in step.               *)

Bytes ==
    [kind : Command \cup {"fill", "long", "data", "rval", "ok", "error",
                         "TPSUCCESS", "TPFAIL", "TPERRNO"},
     n : Nat]
Streams == Seq(Bytes)
Lengths == DataLength \cup {0}

TypeOK ==
    /\ up \in BOOLEAN /\ server \in Conn \cup {0} /\ cut \subseteq Conn
    /\ client \in [Conn -> {"backlog", "open", "closed"}]
    /\ toServer \in [Conn -> Streams] /\ toClient \in [Conn -> Streams]
    /\ lib \in {"idle", "tpacall", "tpgetrply", "tpgetrply_lengths", "data",
                "tpservice", "tpservice_header", "tpservice_data"}
    /\ expects \in Nat /\ len \in Lengths /\ serving \in BOOLEAN
    /\ handler \in [Conn -> Command \cup {"none", "command", "send_to_worker", "part2",
                                         "reply", "work"}]
    /\ size \in [Conn -> Nat] /\ input \in [Conn -> Streams] /\ calls \in [Conn -> Nat]

\* What follows command k in a message whose data, if any, has n bytes.
Body(k, n) ==
    CASE k = "TPTCALL"  -> Name \o Long(n) \o Long(0)
      [] k = "TPTGRPLY" -> Short \o Long(0)
      [] k = "TPTADVT"  -> Name \o Long(0)
      [] k = "TPTUADV"  -> Name
      [] k = "TPTWORK"  -> <<>>
      [] k = "TPTRETN"  -> <<Byte("rval", 0)>> \o Long(0) \o Long(n) \o Data(n)
Message(k, n) == <<Byte(k, 0)>> \o Body(k, n)

\* The handlers of a request that is not answered yet.
Busy == {"TPTCALL", "TPTGRPLY", "TPTADVT", "TPTUADV", "reply", "work"}

\* What the switchboard has not handled yet of what the client wrote.
Pending(c) == input[c] \o toServer[c]

\* What the handler of c is still to get of the message it is about.
Rest(c) ==
    IF handler[c] \in Command THEN {Body(handler[c], n) : n \in Lengths}
    ELSE IF handler[c] \in {"send_to_worker", "part2"} THEN {Data(size[c])} ELSE {<<>>}

\* The result of a service routine, or none; a request, or none.
Result == {<<>>} \cup {Message("TPTRETN", n) : n \in Lengths}
Requested == {<<>>} \cup {Message(k, n) : k \in Command \ {"TPTRETN"}, n \in Lengths}

\* How much each handler reads, and how much each tx_read.
Sizes ==
    \A c \in Conn :
        /\ client[c] = "open" =>
             \/ handler[c] = "command" /\ size[c] = 1
             \/ handler[c] \in Command \ {"TPTWORK"} /\ size[c] = command_length[handler[c]]
             \/ handler[c] \in {"send_to_worker", "part2"} /\ size[c] > 0
             \/ handler[c] \in {"reply", "work"} /\ size[c] = 0
        /\ client[c] # "open" => handler[c] = "none" /\ size[c] = 0
        /\ client[c] = "closed" => toServer[c] = <<>>
        /\ input[c] = <<>> \/ Len(input[c]) < size[c]
Expected ==
    /\ lib \in {"tpacall", "tpgetrply"} => expects = 1 + IOSHORT
    /\ lib = "tpgetrply_lengths" => expects = IOLONG * 2
    /\ lib = "tpservice" => expects = IOLONG
    /\ lib = "tpservice_header" => expects = XATMI_SERVICE_NAME_LENGTH + IOLONG * 2 + IOSHORT

\* The client is in the tx_read for the answer to command k, and the command is on its
\* way, with its handler, or left hanging.
Asked(c, k, rest, req) ==
    /\ <<lib, k>> \in {<<"tpacall", "TPTCALL">>, <<"tpgetrply", "TPTGRPLY">>, <<"data", "TPTADVT">>,
                      <<"data", "TPTUADV">>, <<"tpservice", "TPTWORK">>}
    /\ lib = "data" => expects = IOSHORT
    /\ toClient[c] = <<>>
    /\ \/ handler[c] \notin Busy /\ req = Message(k, len)
       \/ handler[c] = k /\ k # "TPTWORK" /\ rest = Body(k, len)
       \/ <<k, handler[c]>> \in {<<"TPTGRPLY", "reply">>, <<"TPTWORK", "work">>}

\* What the client is still to read of an answer, in the tx_read at of m bytes.
Ack(kind) == <<Byte(kind, 0)>> \o Short
Values(n) == Long(0) \o Long(n) \o Data(n)
Reply(rval, n) == <<Byte(rval, 0)>> \o Short \o Long(0) \o Long(n) \o Data(n)
Work(n) == Name \o Long(n) \o Long(0) \o Short \o Data(n)
Answer(bytes, at, m) ==
    \/ at = "tpacall" /\ bytes \in {Ack("ok"), Ack("error")}
    \/ at = "tpgetrply" /\ bytes = Ack("TPERRNO")
    \/ at = "tpgetrply" /\ \E rval \in Results, n \in DataLength : bytes = Reply(rval, n)
    \/ at = "tpgetrply_lengths" /\ \E n \in DataLength : bytes = Values(n)
    \/ at = "data" /\ bytes \in {Fill(m), Data(m)}
    \/ at = "tpservice" /\ \E n \in DataLength : bytes = Long(0) \o Work(n)
    \/ at = "tpservice_header" /\ \E n \in DataLength : bytes = Work(n)
    \/ at = "tpservice_data" /\ bytes = Data(m)

\* The switchboard has answered.  Nothing is on its way to it, but tpacall is to send
\* its data if it has been told to.
Answered(c, rest) ==
    /\ lib # "idle" /\ handler[c] \notin Busy
    /\ Answer(toClient[c], lib, expects)
    /\ Pending(c) = <<>>
    /\ rest = IF lib = "tpacall" /\ toClient[c][1].kind = "ok" THEN Data(len) ELSE <<>>

\* p is how t begins.
Begins(p, t) == Len(p) <= Len(t) /\ p = SubSeq(t, 1, Len(p))

Sent(rest, ret, req) == rest \o (ret \o req)

\* What is on its way to the switchboard is the rest of a message, then a result, then
\* a request: as much of it as was written before the client died.
Stream(c, rest, ret, req) ==
    /\ Begins(Pending(c), Sent(rest, ret, req))
    /\ handler[c] \in Busy => ret = <<>> /\ req = <<>>
    /\ c = server =>
         /\ serving => ret = <<>>
         /\ \/ \E k \in Command : Asked(c, k, rest, req) /\ Pending(c) = Sent(rest, ret, req)
            \/ /\ lib = "idle" /\ handler[c] \notin Busy /\ req = <<>> /\ toClient[c] = <<>>
               /\ Pending(c) = Sent(rest, ret, req)
            \/ ret = <<>> /\ req = <<>> /\ Answered(c, rest)
    /\ c # server /\ c \notin cut =>
         handler[c] \notin Busy /\ req = <<>> /\ Pending(c) = Sent(rest, ret, req)

Between(c) ==
    client[c] # "closed" =>
        \E rest \in Rest(c), ret \in Result, req \in Requested : Stream(c, rest, ret, req)

\* Both sides wait for as much as they should, and only the current connection of the
\* client has anything to read.
Shape ==
    /\ TypeOK /\ Sizes /\ Expected
    /\ server = 0 => lib = "idle"
    /\ server \notin cut
    /\ \A c \in Conn : c # server => toClient[c] = <<>>

\* The two sides are in step: the inductive invariant behind CommandsInStep,
\* AnswersInStep and DeletedAtEnd.
InStep == Shape /\ \A c \in Conn : Between(c)

\* A switchboard that is not running has no connections: what NeverBothWait needs
\* besides InStep.
Attached == \A c \in Conn : client[c] # "closed" => up
================================================================================
