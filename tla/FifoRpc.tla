------------------------------- MODULE FifoRpc -------------------------------
(***************************************************************************)
(* Calls of clients to the manager over named pipes: manager_request and  *)
(* read_response_fifo of ubse_ssu_sdk.cpp, and manager_request of          *)
(* ubsectl.cpp, against run_fifo_server of ssu_runtime.cpp.                *)
(*                                                                         *)
(* A client makes a response FIFO, writes a line that names it into the    *)
(* request FIFO, opens the response FIFO and waits.  The SDK does not wait *)
(* for the manager to open it, has a deadline, and takes an answer for     *)
(* complete when nothing more comes for a while; ubsectl waits for the     *)
(* manager, without a deadline, and reads until the manager closes.  Both  *)
(* close the FIFO, then remove it.  The manager reads the lines that are   *)
(* there, up to 2047 bytes, and takes them one by one: it opens the        *)
(* response FIFO for writing, which blocks until a reader has opened it,   *)
(* executes the command and writes a status and a body.  Clients may be    *)
(* killed at any point; the manager may be stopped, killed and started     *)
(* again.                                                                  *)
(*                                                                         *)
(* What a command does to the controller is in SsuController; here it is   *)
(* one step with an outcome.                                               *)
(***************************************************************************)
EXTENDS Naturals, Sequences, FiniteSets, SequencesExt

CONSTANTS
  Clients,      \* client processes
  MaxCalls,     \* bound of the model: calls an SDK client makes
  PipeMax,      \* lines the request FIFO holds
  ReadMax,      \* whole lines that are sure to fit into one read of it
  MaxStarts,    \* bound of the model: times the manager is started
  Tools,        \* the clients that are ubsectl; the others use the SDK
  Hasty,        \* the SDK clients whose deadlines may pass
  Mortal        \* the clients that may be killed

ASSUME BoundsAssumption ==
  {PipeMax, MaxStarts} \subseteq Nat /\ {MaxCalls, ReadMax} \subseteq Nat \ {0}
ASSUME ClientsAssumption ==
  Tools \cup Mortal \subseteq Clients /\ Hasty \subseteq Clients \ Tools

VARIABLES
  client,  \* the call each client is in, or how its last one ended
  file,    \* the FIFO a response path names: path -> call, or NoCall
  readers, \* the calls whose response FIFO a client has open
  chan,    \* what is in the response FIFO of a call
  fifo,    \* the request FIFO: whether its file exists, and its lines
  mgr,     \* the manager: where it is and the lines it has read
  starts,  \* how often the manager was started
  log,     \* the commands executed, in order (history)
  cuts     \* calls whose line a read of the manager has cut (history)

clientVars == <<client, file, readers>>
vars == <<client, file, readers, chan, fifo, mgr, starts, log, cuts>>

-----------------------------------------------------------------------------
Calls == Clients \X (1 .. MaxCalls)
NoCall == <<>>
Results == {"OK", "ERR"}

\* Mutant: the path carries the process only.
PathOfClient(call) == <<call[1], 0>>

\* The path of a response FIFO carries the process and a counter.
PathOf(call) == call

Paths == Clients \X (0 .. MaxCalls)
CallOf(c) == <<c, client[c].n>>

\* The manager: the lines it has read, the response FIFO it is at, the
\* command of the line and its outcome.
Down == [at |-> "down", batch |-> <<>>, to |-> NoCall, cmd |-> NoCall,
         res |-> "none"]

Init ==
  /\ client = [c \in Clients |->
       [at |-> "idle", n |-> 0, body |-> FALSE, waits |-> TRUE, got |-> <<>>,
        out |-> "none"]]
  /\ file = [p \in Paths |-> NoCall]
  /\ readers = {}
  /\ chan = [call \in Calls |-> <<>>]
  /\ fifo = [exists |-> FALSE, lines |-> <<>>]
  /\ mgr = Down
  /\ starts = 0
  /\ log = <<>>
  /\ cuts = {}

-----------------------------------------------------------------------------
(* Clients *)

ClientGoto(c, at) == client' = [client EXCEPT ![c].at = at]

\* A ubsectl process makes one call.
CallsOf(c) == IF c \in Tools THEN 1 ELSE MaxCalls

\* A call begins: mkfifo of its response FIFO.  body: whether the SDK makes
\* something of the body of the answer (allocate, allocate_result_get, list);
\* waits: the answer comes before the deadline of the call.
Begin(c, body, waits) ==
  LET call == <<c, client[c].n + 1>>
  IN  /\ client[c].at = "idle"
      /\ client[c].n < CallsOf(c)
      /\ body => c \notin Tools
      /\ ~waits => c \in Hasty
      /\ client' = [client EXCEPT ![c] =
           [at |-> "send", n |-> @.n + 1, body |-> body, waits |-> waits,
            got |-> <<>>, out |-> "none"]]
      /\ file' = [file EXCEPT ![PathOf(call)] = call]
      /\ UNCHANGED <<readers, chan, fifo, mgr, starts, log, cuts>>

\* The request FIFO can be opened for writing and takes a line.
CanSend == fifo.exists /\ mgr.at # "down" /\ Len(fifo.lines) < PipeMax

Send(c) ==
  /\ client[c].at = "send"
  /\ CanSend
  /\ fifo' = [fifo EXCEPT !.lines = Append(@, CallOf(c))]
  /\ ClientGoto(c, "sent")
  /\ UNCHANGED <<file, readers, chan, mgr, starts, log, cuts>>

\* Mutant: the line is written all the same.
SendFailsLate(c) ==
  /\ client[c].at = "send"
  /\ ~CanSend
  /\ fifo' = [fifo EXCEPT !.lines = Append(@, CallOf(c))]
  /\ file' = [file EXCEPT ![PathOf(CallOf(c))] = NoCall]
  /\ client' = [client EXCEPT ![c].at = "idle", ![c].out = "unsent"]
  /\ UNCHANGED <<readers, chan, mgr, starts, log, cuts>>

\* No FIFO, no manager behind it, or no room: the call fails.
SendFails(c) ==
  /\ client[c].at = "send"
  /\ ~CanSend
  /\ file' = [file EXCEPT ![PathOf(CallOf(c))] = NoCall]
  /\ client' = [client EXCEPT ![c].at = "idle", ![c].out = "unsent"]
  /\ UNCHANGED <<readers, chan, fifo, mgr, starts, log, cuts>>

\* The client opens its response FIFO.  A manager that waits for that goes
\* on; ubsectl (O_RDONLY) joins it or waits for it, the SDK (O_RDWR) does not.
OpenResponse(c) ==
  LET met == mgr.at = "open" /\ mgr.to = CallOf(c)
  IN  /\ client[c].at = "sent"
      /\ readers' = readers \cup {CallOf(c)}
      /\ ClientGoto(c, IF met \/ c \notin Tools THEN "wait" ELSE "join")
      /\ mgr' = IF met THEN [mgr EXCEPT !.at = "exec"] ELSE mgr
      /\ UNCHANGED <<file, chan, fifo, starts, log, cuts>>

\* There is data, and read takes all of it.
Read(c) ==
  /\ client[c].at \in {"wait", "settle"}
  /\ chan[CallOf(c)] # <<>>
  /\ client' = [client EXCEPT ![c].at = IF c \in Tools THEN "wait" ELSE "settle",
                              ![c].got = @ \o chan[CallOf(c)]]
  /\ chan' = [chan EXCEPT ![CallOf(c)] = <<>>]
  /\ UNCHANGED <<file, readers, fifo, mgr, starts, log, cuts>>

\* What the client makes of what it has read: the status line, and a body
\* where it needs one.
Outcome(body, got) ==
  CASE got = <<>> -> "lost"
    [] got # <<>> /\ got[1].res = "ERR" -> "ERR"
    [] OTHER -> IF body /\ Len(got) < 2 THEN "lost" ELSE "OK"

Close(c) ==
  /\ readers' = readers \ {CallOf(c)}
  /\ chan' = [chan EXCEPT ![CallOf(c)] = <<>>]
  /\ client' = [client EXCEPT ![c].at = "close",
                              ![c].out = Outcome(client[c].body, client[c].got)]
  /\ UNCHANGED <<file, fifo, mgr, starts, log, cuts>>

\* Nothing more came for SDK_SETTLE_AFTER_DATA_MS.
Settled(c) ==
  /\ client[c].at = "settle"
  /\ chan[CallOf(c)] = <<>>
  /\ Close(c)

\* The manager has the response FIFO of call open.
Serving(call) == mgr.to = call /\ mgr.at \in {"exec", "status", "body"}

\* read of ubsectl returns 0: the manager has closed the FIFO, or is gone.
Ended(c) ==
  /\ client[c].at = "wait"
  /\ chan[CallOf(c)] = <<>> /\ ~Serving(CallOf(c))

ReadEnds(c) ==
  /\ c \in Tools
  /\ Ended(c)
  /\ Close(c)

\* The deadline passes before there is any answer.
TimedOut(c) == client[c].at = "wait" /\ chan[CallOf(c)] = <<>>

GiveUp(c) ==
  /\ ~client[c].waits
  /\ TimedOut(c)
  /\ Close(c)

\* manager_request removes the FIFO and returns.
Unlink(c) ==
  /\ client[c].at = "close"
  /\ file' = [file EXCEPT ![PathOf(CallOf(c))] = NoCall]
  /\ ClientGoto(c, "idle")
  /\ UNCHANGED <<readers, chan, fifo, mgr, starts, log, cuts>>

\* The process is killed: its FIFO stays, with no reader.
Die(c) ==
  /\ c \in Mortal
  /\ client[c].at \notin {"idle", "dead"}
  /\ readers' = readers \ {CallOf(c)}
  /\ chan' = [chan EXCEPT ![CallOf(c)] = <<>>]
  /\ ClientGoto(c, "dead")
  /\ UNCHANGED <<file, fifo, mgr, starts, log, cuts>>

-----------------------------------------------------------------------------
(* The manager *)

\* The manager starts: a request FIFO of its own, and an empty memory.
Start ==
  /\ mgr.at = "down"
  /\ starts < MaxStarts
  /\ starts' = starts + 1
  /\ mgr' = [Down EXCEPT !.at = "poll"]
  /\ fifo' = [exists |-> TRUE, lines |-> <<>>]
  /\ UNCHANGED <<client, file, readers, chan, log, cuts>>

\* read takes the first n lines.
TakeLines(n) ==
  /\ mgr' = [mgr EXCEPT !.at = "line", !.batch = SubSeq(fifo.lines, 1, n)]
  /\ UNCHANGED <<client, file, readers, chan, starts, log>>

\* poll reports lines that fit into one read.
ReadLines ==
  /\ mgr.at = "poll"
  /\ fifo.lines # <<>>
  /\ TakeLines(Len(fifo.lines))
  /\ fifo' = [fifo EXCEPT !.lines = <<>>]
  /\ UNCHANGED cuts

\* More than fits: the read ends within a line.  What is left of that line
\* names no response FIFO and is dropped by the next read; its head is
\* dropped as well, or run with the arguments it has, if the cut is behind
\* the path.  (A cut between two lines takes the first ones only.)
ReadCuts ==
  /\ mgr.at = "poll"
  /\ Len(fifo.lines) > ReadMax
  /\ \/ TakeLines(ReadMax) /\ UNCHANGED cuts
        /\ fifo' = [fifo EXCEPT !.lines = SubSeq(@, ReadMax + 1, Len(@))]
     \/ \E n \in {ReadMax, ReadMax + 1} :
          /\ TakeLines(n)
          /\ cuts' = cuts \cup {fifo.lines[ReadMax + 1]}
          /\ fifo' = [fifo EXCEPT !.lines = SubSeq(@, ReadMax + 2, Len(@))]

\* Mutant: the line is not taken off.
LinesLeftAll == mgr.batch

\* The lines left when the first has been taken.
LinesLeft == Tail(mgr.batch)

\* Mutant: open does not wait for a reader (O_RDWR).
OpenedAlways(call) == "exec"

\* Mutant: it fails without a reader (O_NONBLOCK).
OpenedOrDropped(call) == IF call \in readers THEN "exec" ELSE "line"

\* Where open(path, O_WRONLY) gets to with the FIFO of call.
Opened(call) == IF call \in readers THEN "exec" ELSE "open"

\* A ubsectl that waits for the manager to open its FIFO goes on.
Joined(to) ==
  IF Opened(to) = "exec" /\ client[to[1]].at = "join"
    THEN [client EXCEPT ![to[1]].at = "wait"] ELSE client

\* handle_fifo_line: the next line's response FIFO is opened, if it exists.
TakeLine ==
  LET cmd == Head(mgr.batch)
      to == file[PathOf(cmd)]
  IN  /\ mgr.at = "line"
      /\ mgr.batch # <<>>
      /\ IF to = NoCall
           THEN /\ mgr' = [mgr EXCEPT !.batch = LinesLeft]
                /\ UNCHANGED client
           ELSE /\ mgr' = [mgr EXCEPT !.batch = LinesLeft, !.at = Opened(to),
                                      !.to = to, !.cmd = cmd]
                /\ client' = Joined(to)
      /\ UNCHANGED <<file, readers, chan, fifo, starts, log, cuts>>

\* handle_command: the command of the line is executed.
Execute(res) ==
  /\ mgr.at = "exec"
  /\ log' = Append(log, [cmd |-> mgr.cmd, res |-> res])
  /\ mgr' = [mgr EXCEPT !.at = "status", !.res = res]
  /\ UNCHANGED <<clientVars, chan, fifo, starts, cuts>>

\* A write to the response FIFO; SIGPIPE is ignored.
Write(part) ==
  chan' = IF mgr.to \in readers
            THEN [chan EXCEPT ![mgr.to] =
                    Append(@, [cmd |-> mgr.cmd, res |-> mgr.res, part |-> part])]
            ELSE chan

\* send_response: the status line, then the body, each a write of its own.
SendStatus ==
  /\ mgr.at = "status"
  /\ Write("status")
  /\ mgr' = [mgr EXCEPT !.at = "body"]
  /\ UNCHANGED <<clientVars, fifo, starts, log, cuts>>

SendBody ==
  /\ mgr.at = "body"
  /\ Write("body")
  /\ mgr' = [mgr EXCEPT !.at = "line", !.to = NoCall, !.cmd = NoCall,
                        !.res = "none"]
  /\ UNCHANGED <<clientVars, fifo, starts, log, cuts>>

BatchDone ==
  /\ mgr.at = "line"
  /\ mgr.batch = <<>>
  /\ mgr' = [mgr EXCEPT !.at = "poll"]
  /\ UNCHANGED <<clientVars, chan, fifo, starts, log, cuts>>

\* poll times out: the pool is refreshed.
Tick ==
  /\ mgr.at = "poll"
  /\ fifo.lines = <<>>
  /\ UNCHANGED vars

\* A signal, or a pool refresh that fails, ends the manager in its loop.
Stop ==
  /\ mgr.at = "poll"
  /\ mgr' = Down
  /\ fifo' = [exists |-> FALSE, lines |-> <<>>]
  /\ UNCHANGED <<clientVars, chan, starts, log, cuts>>

\* It is killed: its FIFO stays, with no reader.
Kill ==
  /\ mgr.at # "down"
  /\ mgr' = Down
  /\ fifo' = [fifo EXCEPT !.lines = <<>>]
  /\ UNCHANGED <<clientVars, chan, starts, log, cuts>>

-----------------------------------------------------------------------------
ClientStep(c) ==
  \/ Send(c) \/ SendFails(c) \/ OpenResponse(c) \/ Read(c)
  \/ Settled(c) \/ ReadEnds(c) \/ GiveUp(c) \/ Unlink(c)

Serve ==
  \/ ReadLines \/ ReadCuts \/ TakeLine \/ (\E res \in Results : Execute(res))
  \/ SendStatus \/ SendBody \/ BatchDone

\* The manager can end while it may be started again.
Fail == starts < MaxStarts /\ (Stop \/ Kill)

Next ==
  \/ \E c \in Clients, body, waits \in BOOLEAN : Begin(c, body, waits)
  \/ \E c \in Clients : ClientStep(c) \/ Die(c)
  \/ Start \/ Serve \/ Tick \/ Fail

Spec == Init /\ [][Next]_vars

\* A process that is running goes on running, and a manager that is down is
\* started.
FairSpec ==
  /\ Spec
  /\ \A c \in Clients : WF_vars(ClientStep(c))
  /\ WF_vars(Start) /\ WF_vars(Serve)

-----------------------------------------------------------------------------
(* Properties *)

\* The type invariant.
TypeOK ==
  /\ client \in [Clients ->
       [at : {"idle", "send", "sent", "join", "wait", "settle", "close", "dead"},
        n : 0 .. MaxCalls, body : BOOLEAN, waits : BOOLEAN, got : Seq([cmd : Calls,
        res : Results, part : {"status", "body"}]),
        out : {"none", "unsent", "lost"} \cup Results]]
  /\ file \in [Paths -> Calls \cup {NoCall}]
  /\ readers \subseteq Calls
  /\ \A call \in Calls : Len(chan[call]) <= 2
  /\ fifo.exists \in BOOLEAN /\ Len(fifo.lines) <= PipeMax
  /\ mgr.at \in {"down", "poll", "line", "open", "exec", "status", "body"}
  /\ starts \in 0 .. MaxStarts

\* A command is executed at most once, however calls time out, clients die
\* and the manager is restarted: nothing in manager_request or in the loop
\* of run_fifo_server repeats one.
AtMostOnce ==
  \A i, j \in DOMAIN log : log[i].cmd = log[j].cmd => i = j

\* Whatever a client has read answers the call it is in, also when an earlier
\* call of it timed out and was executed late.
OwnAnswer ==
  \A c \in Clients : \A i \in DOMAIN client[c].got :
    client[c].got[i].cmd = CallOf(c)

\* What a client is told of a call is what happened: OK and ERR are the
\* outcome of the command, and a call that failed unsent is never executed.
\* Of a call whose line was cut it is told what became of a shorter command.
ToldTruth ==
  \A c \in Clients :
    /\ client[c].out \in Results =>
         \E i \in DOMAIN log : log[i] = [cmd |-> CallOf(c), res |-> client[c].out]
    /\ client[c].out = "unsent" =>
         /\ \A i \in DOMAIN log : log[i].cmd # CallOf(c)
         /\ ~Contains(fifo.lines \o mgr.batch, CallOf(c))

\* No command is executed before its client listens for the answer: a client
\* that dies with its request on the way leaves nothing done behind.
HeardBeforeRun ==
  \A c \in Clients : client[c].at \in {"send", "sent"} =>
    \A i \in DOMAIN log : log[i].cmd # CallOf(c)

\* The client of call has stopped to wait for its answer.
Left(call) ==
  LET c == client[call[1]]
  IN  c.n # call[2] \/ c.at \in {"idle", "close", "dead"}

\* Every call whose line is in the request FIFO, and that its deadline does
\* not end, is answered: ubsectl gets the outcome of its command, the SDK gets it or, when the
\* settle time cut the body off, finds the answer lost.  Unless the client is
\* killed, the manager ends, its line is cut, or the manager waits for ever at
\* the response FIFO of a client that has left.
CallsAnswered ==
  \A c \in Clients :
    \/ <>[](mgr.at = "open" /\ Left(mgr.to))
    \/ Contains(fifo.lines, CallOf(c)) /\ client[c].waits ~>
         \/ client[c].out \in Results \cup (IF c \in Tools THEN {} ELSE {"lost"})
         \/ client[c].at = "dead" \/ mgr.at = "down" \/ CallOf(c) \in cuts

\* After a client has timed out the manager goes on answering others
\* (ubsectl_error_flow.sh:143): it does not stay at one line for ever.
ManagerGoesOn == mgr.at = "open" ~> mgr.at # "open"
==============================================================================
