--------------------------- MODULE FifoRpc_proofs ---------------------------
(* Proofs about FifoRpc: every command runs at most once, answers reach the *)
(* call they are for, and what a client is told is true, for any number of  *)
(* clients, calls and starts of the manager and any size of the pipe.       *)
EXTENDS FifoRpc, ProofFacts

-----------------------------------------------------------------------------
(* The inductive invariant *)

Answers == [cmd : Calls, res : Results, part : {"status", "body"}]
Entries == [cmd : Calls, res : Results]

\* A manager that has taken a line, and one that has it open or executed.
Busy == {"open", "exec", "status", "body"}

\* The types of all variables.
ClientStates ==
  [at : {"idle", "send", "sent", "join", "wait", "settle", "close", "dead"},
   n : 0 .. MaxCalls, body : BOOLEAN, waits : BOOLEAN, got : Seq(Answers),
   out : {"none", "unsent", "lost"} \cup Results]
MgrStates ==
  [at : {"down", "poll", "line"} \cup Busy, batch : Seq(Calls),
   to : Calls \cup {NoCall}, cmd : Calls \cup {NoCall},
   res : Results \cup {"none"}]

Typed ==
  /\ client \in [Clients -> ClientStates]
  /\ file \in [Paths -> Calls \cup {NoCall}]
  /\ readers \subseteq Calls
  /\ chan \in [Calls -> Seq(Answers)]
  /\ fifo \in [exists : BOOLEAN, lines : Seq(Calls)]
  /\ Len(fifo.lines) <= PipeMax
  /\ mgr \in MgrStates
  /\ starts \in 0 .. MaxStarts
  /\ log \in Seq(Entries)

\* Where the line of a call can be: in the request FIFO, in what the manager
\* has read, at the response FIFO it opens, or among the commands executed.
Queued == ToSet(fifo.lines)
Taken == ToSet(mgr.batch)
InHand == IF mgr.at \in {"open", "exec"} THEN {mgr.cmd} ELSE {}
Ran == {log[i].cmd : i \in DOMAIN log}
Sent == Queued \cup Taken \cup InHand \cup Ran

\* It is in one of them only, and there only once.
Once ==
  /\ IsInjective(fifo.lines) /\ IsInjective(mgr.batch) /\ AtMostOnce
  /\ Queued \cap (Taken \cup InHand \cup Ran) = {}
  /\ Taken \cap (InHand \cup Ran) = {}
  /\ InHand \cap Ran = {}

\* The client of call is in it.
Current(call) == call[2] = client[call[1]].n

\* A client makes its calls one after the other, and its outcome is of the
\* call it has ended.
ClientsInOrder ==
  \A c \in Clients :
    /\ client[c].at # "idle" => client[c].n > 0
    /\ client[c].at \in {"send", "sent", "join", "wait", "settle"} =>
         client[c].out = "none"
    /\ client[c].out = "unsent" => client[c].at = "idle"
    /\ client[c].out \in Results => client[c].n > 0

\* A line that is anywhere was written by a call that got through.
SentBegun ==
  \A call \in Sent :
    /\ call[2] <= client[call[1]].n
    /\ Current(call) =>
         client[call[1]].at # "send" /\ client[call[1]].out # "unsent"

\* A path names the FIFO of its own call only, and a reader waits for its
\* answer.
PathsOwn == \A call \in Calls : file[call] \in {NoCall, call}
ReadersWait ==
  \A call \in readers :
    Current(call) /\ client[call[1]].at \in {"join", "wait", "settle"}

\* By log l, command cmd was executed and came to res.
CameTo(l, cmd, res) == \E i \in DOMAIN l : l[i] = [cmd |-> cmd, res |-> res]

\* The manager answers the command it has taken, and holds its outcome.
AtOwn ==
  /\ mgr.at \in Busy => mgr.cmd \in Calls /\ mgr.to = mgr.cmd
  /\ mgr.at \in {"status", "body"} => CameTo(log, mgr.cmd, mgr.res)

\* What runs, or is about to, is heard.
Heard ==
  \A call \in Ran \cup (IF mgr.at = "exec" THEN {mgr.cmd} ELSE {}) :
    Current(call) => client[call[1]].at \notin {"send", "sent"}

\* The answers in s are to call, and tell the outcome of its command.
Tell(l, s, call) ==
  \A i \in DOMAIN s : s[i].cmd = call /\ CameTo(l, call, s[i].res)

\* An answer is written once: a status, then a body.
ChanTrue == \A call \in Calls : Tell(log, chan[call], call)
ChanShort ==
  /\ \A call \in Calls : Len(chan[call]) <= 2
  /\ mgr.at = "status" => chan[mgr.to] = <<>>
  /\ mgr.at = "body" => Len(chan[mgr.to]) <= 1

\* What a client has read, and what it makes of it.
GotTrue == \A c \in Clients : Tell(log, client[c].got, CallOf(c))
OutTrue ==
  \A c \in Clients :
    client[c].out \in Results => CameTo(log, CallOf(c), client[c].out)

AnswersTrue == ChanTrue /\ ChanShort /\ GotTrue /\ OutTrue

IInv ==
  /\ Typed /\ Once /\ ClientsInOrder /\ SentBegun /\ PathsOwn /\ ReadersWait
  /\ AtOwn /\ Heard /\ AnswersTrue

-----------------------------------------------------------------------------
(* Calls and where their lines are *)

LEMMA CallFacts ==
  /\ \A call \in Calls : /\ call[1] \in Clients /\ call[2] \in 1 .. MaxCalls
                          /\ call = <<call[1], call[2]>> /\ call \in Paths
  /\ NoCall \notin Calls
  BY BoundsAssumption DEF Calls, NoCall, Paths

LEMMA CallOfFacts ==
  ASSUME Typed, NEW c \in Clients
  PROVE  /\ CallOf(c)[1] = c /\ CallOf(c)[2] = client[c].n
         /\ client[c].n \in 0 .. MaxCalls /\ Current(CallOf(c))
         /\ client[c].n > 0 => CallOf(c) \in Calls
         /\ \A call \in Calls : call[1] = c /\ Current(call) => call = CallOf(c)
  <1>1. client[c].n \in 0 .. MaxCalls
    BY DEF Typed, ClientStates
  <1> QED
    BY <1>1, CallFacts DEF CallOf, Calls, Current

LEMMA SentAreCalls ==
  ASSUME Typed, AtOwn
  PROVE  /\ Queued \subseteq Calls /\ Taken \subseteq Calls
         /\ InHand \subseteq Calls /\ Ran \subseteq Calls
  <1>1. fifo.lines \in Seq(Calls) /\ mgr.batch \in Seq(Calls) /\ log \in Seq(Entries)
    BY DEF Typed, MgrStates
  <1>2. Queued \subseteq Calls /\ Taken \subseteq Calls
    BY <1>1, ElementOfSeq, LenProperties DEF Queued, Taken, ToSet
  <1>3. Ran \subseteq Calls
    <2>1. \A i \in DOMAIN log : log[i] \in Entries
      BY <1>1, ElementOfSeq, LenProperties
    <2> QED
      BY <2>1 DEF Ran, Entries
  <1>4. InHand \subseteq Calls
    BY DEF InHand, AtOwn, Busy
  <1> QED
    BY <1>2, <1>3, <1>4

\* What two sequences of answers tell, their concatenation tells.
LEMMA TellBoth ==
  ASSUME NEW l, NEW call, NEW s \in Seq(Answers), NEW t \in Seq(Answers),
         Tell(l, s, call), Tell(l, t, call)
  PROVE  Tell(l, s \o t, call)
  <1>1. /\ DOMAIN s = 1 .. Len(s) /\ DOMAIN t = 1 .. Len(t)
        /\ Len(s) \in Nat /\ Len(t) \in Nat
    BY LenProperties
  <1>2. /\ s \o t \in Seq(Answers) /\ Len(s \o t) = Len(s) + Len(t)
        /\ \A i \in 1 .. Len(s) + Len(t) :
              (s \o t)[i] = IF i <= Len(s) THEN s[i] ELSE t[i - Len(s)]
    BY ConcatProperties
  <1>3. DOMAIN (s \o t) = 1 .. Len(s) + Len(t)
    BY <1>2, LenProperties
  <1> SUFFICES ASSUME NEW i \in 1 .. Len(s) + Len(t)
               PROVE  (s \o t)[i].cmd = call /\ CameTo(l, call, (s \o t)[i].res)
    BY <1>3 DEF Tell
  <1>4. CASE i <= Len(s)
    BY <1>1, <1>2, <1>4 DEF Tell
  <1>5. CASE i > Len(s)
    <2>1. i - Len(s) \in DOMAIN t /\ (s \o t)[i] = t[i - Len(s)]
      BY <1>1, <1>2, <1>5
    <2> QED
      BY <2>1 DEF Tell
  <1> QED
    BY <1>1, <1>4, <1>5

LEMMA TellOne ==
  ASSUME NEW l, NEW call, NEW s \in Seq(Answers), NEW a \in Answers,
         Tell(l, s, call), a.cmd = call, CameTo(l, call, a.res)
  PROVE  Tell(l, Append(s, a), call)
  <1>1. /\ DOMAIN s = 1 .. Len(s) /\ Len(s) \in Nat
        /\ DOMAIN Append(s, a) = 1 .. Len(s) + 1
        /\ Append(s, a)[Len(s) + 1] = a
        /\ \A i \in 1 .. Len(s) : Append(s, a)[i] = s[i]
    BY AppendProperties, LenProperties
  <1>2. \A i \in 1 .. Len(s) + 1 : i \in 1 .. Len(s) \/ i = Len(s) + 1
    BY <1>1
  <1> QED
    BY <1>1, <1>2 DEF Tell

-----------------------------------------------------------------------------
(* Init and the actions of clients *)

LEMMA InitHolds == Init => IInv
  <1> SUFFICES ASSUME Init PROVE IInv
    OBVIOUS
  <1>1. Typed
    BY BoundsAssumption, EmptySeq
    DEF Init, Typed, ClientStates, MgrStates, Down, Busy, Results, NoCall
  <1>2. Queued = {} /\ Taken = {} /\ InHand = {} /\ Ran = {}
    BY EmptyHasNothing DEF Init, Queued, Taken, InHand, Ran, Down
  <1>3. Once
    BY <1>2, EmptyHasNothing DEF Once, Init, Down, AtMostOnce
  <1>4. ClientsInOrder /\ SentBegun
    BY <1>2 DEF ClientsInOrder, SentBegun, Sent, Init, Results
  <1>5. PathsOwn /\ ReadersWait
    BY CallFacts DEF PathsOwn, ReadersWait, Init
  <1>6. AtOwn /\ Heard
    BY <1>2 DEF AtOwn, Heard, Init, Down, Busy
  <1>7. AnswersTrue
    BY EmptySeq
    DEF AnswersTrue, ChanTrue, ChanShort, GotTrue, OutTrue, Tell, Init, Down, Results
  <1> QED
    BY <1>1, <1>3, <1>4, <1>5, <1>6, <1>7 DEF IInv

LEMMA BeginKeeps ==
  ASSUME IInv, NEW c \in Clients, NEW body \in BOOLEAN, NEW waits \in BOOLEAN,
         Begin(c, body, waits)
  PROVE  IInv'
  <1> DEFINE call == <<c, client[c].n + 1>>
             new == [at |-> "send", n |-> client[c].n + 1, body |-> body,
                     waits |-> waits, got |-> <<>>, out |-> "none"]
  <1>1. /\ Typed /\ client[c].at = "idle" /\ client[c].n + 1 \in 1 .. MaxCalls
        /\ client' = [client EXCEPT ![c] = new]
        /\ file' = [file EXCEPT ![call] = call]
        /\ UNCHANGED <<readers, chan, fifo, mgr, starts, log, cuts>>
    BY BoundsAssumption DEF IInv, Begin, PathOf, CallsOf, Typed, ClientStates
  <1>2. call \in Calls /\ new \in ClientStates
    BY <1>1, EmptySeq DEF Calls, ClientStates
  <1>3. Typed'
    BY <1>1, <1>2, CallFacts DEF Typed
  <1>4. /\ Queued' = Queued /\ Taken' = Taken /\ InHand' = InHand /\ Ran' = Ran
        /\ Sent' = Sent
    BY <1>1 DEF Queued, Taken, InHand, Ran, Sent
  <1>5. Once' /\ AtOwn'
    BY <1>1, <1>4 DEF IInv, Once, AtMostOnce, AtOwn
  <1>6. /\ client'[c] = new /\ \A d \in Clients \ {c} : client'[d] = client[d]
        /\ \A d \in Clients : client[d].n \in Nat
    BY <1>1 DEF Typed, ClientStates
  <1>7. ClientsInOrder'
    BY <1>1, <1>6 DEF IInv, ClientsInOrder, Results
  <1>8. SentBegun'
    <2> SUFFICES ASSUME NEW s \in Sent
                 PROVE  /\ s[2] <= client'[s[1]].n
                        /\ s[2] = client'[s[1]].n =>
                             client'[s[1]].at # "send" /\ client'[s[1]].out # "unsent"
      BY <1>4 DEF SentBegun, Current
    <2>1. s \in Calls
      BY SentAreCalls DEF IInv, Sent
    <2>2. CASE s[1] = c
      BY <1>6, <2>1, <2>2, CallFacts DEF IInv, SentBegun
    <2>3. CASE s[1] # c
      BY <1>6, <2>1, <2>3, CallFacts DEF IInv, SentBegun, Current
    <2> QED
      BY <2>2, <2>3
  <1>9. PathsOwn'
    BY <1>1, <1>2, CallFacts DEF IInv, PathsOwn, Typed
  <1>10. ReadersWait'
    BY <1>1, CallFacts DEF IInv, ReadersWait, Current, Typed
  <1>11. Heard'
    BY <1>1, <1>4, <1>6, SentAreCalls, CallFacts
    DEF IInv, Heard, Current, SentBegun, Sent, InHand
  <1>12. AnswersTrue'
    BY <1>1, <1>6
    DEF IInv, AnswersTrue, ChanTrue, ChanShort, GotTrue, OutTrue, Tell, CallOf, Results
  <1> QED
    BY <1>3, <1>5, <1>7, <1>8, <1>9, <1>10, <1>11, <1>12 DEF IInv
\* A client goes on in its call, or leaves it: what does not depend on its
\* place stays as it is.
Goes(c, new) ==
  /\ new \in ClientStates /\ client' = [client EXCEPT ![c] = new]
  /\ new.n = client[c].n /\ new.at # "send"

LEMMA GoesFacts ==
  ASSUME IInv, NEW c \in Clients, NEW new, Goes(c, new)
  PROVE  /\ client'[c] = new /\ \A d \in Clients \ {c} : client'[d] = client[d]
         /\ \A d \in Clients : client'[d].n = client[d].n /\ CallOf(d)' = CallOf(d)
         /\ \A call \in Calls : Current(call)' = Current(call)
         /\ client' \in [Clients -> ClientStates]
  BY CallFacts DEF IInv, Typed, Goes, CallOf, Current

LEMMA SendKeeps ==
  ASSUME IInv, NEW c \in Clients, Send(c)
  PROVE  IInv'
  <1> DEFINE call == CallOf(c)
             new == [client[c] EXCEPT !.at = "sent"]
  <1>1. /\ client[c].at = "send" /\ client[c].n > 0 /\ client[c].out = "none"
        /\ Typed /\ client[c] \in ClientStates
        /\ fifo' = [fifo EXCEPT !.lines = Append(fifo.lines, call)]
        /\ Len(fifo.lines) < PipeMax
        /\ UNCHANGED <<file, readers, chan, mgr, starts, log, cuts>>
    BY DEF IInv, Send, ClientsInOrder, Typed, CanSend
  <1>2. call \in Calls /\ Current(call)
    BY <1>1, CallOfFacts
  <1>3. Goes(c, new)
    BY <1>1 DEF Send, ClientGoto, Goes, ClientStates
  <1>4. /\ new.at = "sent" /\ new.n = client[c].n /\ new.out = "none"
        /\ new.got = client[c].got
    BY <1>1 DEF ClientStates
  <1> HIDE DEF call, new
  <1>5. call \notin Sent
    BY <1>1, <1>2, CallOfFacts DEF IInv, SentBegun, call
  <1>6. fifo.lines \in Seq(Calls) /\ fifo'.lines = Append(fifo.lines, call)
    BY <1>1 DEF Typed
  <1>7. Typed'
    <2>1. Len(fifo'.lines) = Len(fifo.lines) + 1 /\ fifo'.lines \in Seq(Calls)
          /\ Len(fifo.lines) \in Nat
      BY <1>2, <1>6, AppendProperties, LenProperties
    <2>2. fifo' \in [exists : BOOLEAN, lines : Seq(Calls)]
      BY <1>1, <1>6, <2>1 DEF Typed
    <2>3. Len(fifo'.lines) <= PipeMax
      BY <1>1, <2>1, BoundsAssumption
    <2> QED
      BY <1>1, <1>3, <2>2, <2>3, GoesFacts DEF Typed
  <1>8. /\ Queued' = Queued \cup {call}
        /\ Taken' = Taken /\ InHand' = InHand /\ Ran' = Ran
        /\ IsInjective(fifo.lines) /\ call \notin Queued => IsInjective(fifo'.lines)
    BY <1>1, <1>2, <1>6, AppendKeepsInjective DEF Queued, Taken, InHand, Ran
  <1>9. Once'
    BY <1>1, <1>5, <1>8 DEF IInv, Once, AtMostOnce, Sent
  <1>10. ClientsInOrder'
    BY <1>1, <1>3, <1>4, GoesFacts DEF IInv, ClientsInOrder, Results
  <1>11. SentBegun'
    <2> SUFFICES ASSUME NEW s \in Sent \cup {call}
                 PROVE  /\ s[2] <= client'[s[1]].n
                        /\ Current(s)' =>
                             client'[s[1]].at # "send" /\ client'[s[1]].out # "unsent"
      BY <1>8 DEF SentBegun, Sent
    <2>1. s \in Calls
      BY <1>2, SentAreCalls DEF IInv, Sent
    <2>2. CASE s = call
      BY <1>1, <1>2, <1>3, <1>4, <2>2, GoesFacts, CallOfFacts DEF call
    <2>3. CASE s # call
      BY <1>3, <1>4, <2>1, <2>3, GoesFacts, CallFacts DEF IInv, SentBegun
    <2> QED
      BY <2>2, <2>3
  <1>12. PathsOwn' /\ AtOwn'
    BY <1>1 DEF IInv, PathsOwn, AtOwn
  <1>13. ReadersWait'
    <2> SUFFICES ASSUME NEW r \in readers
                 PROVE  Current(r)' /\ client'[r[1]].at \in {"join", "wait", "settle"}
      BY <1>1 DEF ReadersWait
    <2>1. r \in Calls /\ r[1] # c
      BY <1>1 DEF IInv, ReadersWait, Typed
    <2> QED
      BY <1>3, <2>1, GoesFacts, CallFacts DEF IInv, ReadersWait
  <1>14. Heard'
    <2> SUFFICES ASSUME NEW s \in Ran \cup (IF mgr.at = "exec" THEN {mgr.cmd} ELSE {}),
                        Current(s)'
                 PROVE  client'[s[1]].at \notin {"send", "sent"}
      BY <1>1, <1>8 DEF Heard
    <2>1. s \in Calls /\ s \in Sent
      BY SentAreCalls DEF IInv, Sent, InHand
    <2>2. Current(s) /\ s[1] # c
      BY <1>3, <1>5, <2>1, GoesFacts, CallOfFacts DEF IInv, call
    <2> QED
      BY <1>3, <2>1, <2>2, GoesFacts, CallFacts DEF IInv, Heard
  <1>15. AnswersTrue'
    BY <1>1, <1>3, <1>4, GoesFacts
    DEF IInv, AnswersTrue, ChanTrue, ChanShort, GotTrue, OutTrue, Results
  <1> QED
    BY <1>7, <1>9, <1>10, <1>11, <1>12, <1>13, <1>14, <1>15 DEF IInv

\* A step that leaves the manager, the request FIFO and the log alone moves
\* no line.
LEMMA LinesStay ==
  ASSUME IInv, UNCHANGED <<fifo, mgr, log>>
  PROVE  /\ Queued' = Queued /\ Taken' = Taken /\ InHand' = InHand /\ Ran' = Ran
         /\ Sent' = Sent /\ Once' /\ AtOwn'
  BY DEF Queued, Taken, InHand, Ran, Sent, IInv, Once, AtMostOnce, AtOwn

\* What a client that is past "send" does does not concern the lines.
LEMMA GoesKeeps ==
  ASSUME IInv, NEW c \in Clients, NEW new, Goes(c, new),
         UNCHANGED <<fifo, mgr, log>>,
         new.at = "sent" => client[c].at = "sent",
         new.out = "unsent" => client[c].at = "send" \/ client[c].out = "unsent"
  PROVE  Once' /\ SentBegun' /\ AtOwn' /\ Heard'
  <1>1. SentBegun'
    <2> SUFFICES ASSUME NEW s \in Sent
                 PROVE  /\ s[2] <= client'[s[1]].n
                        /\ Current(s)' =>
                             client'[s[1]].at # "send" /\ client'[s[1]].out # "unsent"
      BY LinesStay DEF SentBegun
    <2>1. s \in Calls
      BY SentAreCalls DEF IInv, Sent
    <2>2. CASE s[1] = c
      BY <2>1, <2>2, GoesFacts DEF IInv, SentBegun, Goes
    <2>3. CASE s[1] # c
      BY <2>1, <2>3, GoesFacts, CallFacts DEF IInv, SentBegun
    <2> QED
      BY <2>2, <2>3
  <1>2. Heard'
    <2> SUFFICES ASSUME NEW s \in Ran \cup (IF mgr.at = "exec" THEN {mgr.cmd} ELSE {}),
                        Current(s)'
                 PROVE  client'[s[1]].at \notin {"send", "sent"}
      BY LinesStay DEF Heard
    <2>1. s \in Calls
      BY SentAreCalls DEF IInv, InHand
    <2> QED
      BY <2>1, GoesFacts, CallFacts DEF IInv, Heard, Goes
  <1> QED
    BY <1>1, <1>2, LinesStay
LEMMA SendFailsKeeps ==
  ASSUME IInv, NEW c \in Clients, SendFails(c)
  PROVE  IInv'
  <1> DEFINE call == CallOf(c)
             new == [client[c] EXCEPT !.at = "idle", !.out = "unsent"]
  <1>1. /\ client[c].at = "send" /\ client[c].n > 0
        /\ Typed /\ client[c] \in ClientStates
        /\ file' = [file EXCEPT ![call] = NoCall]
        /\ UNCHANGED <<readers, chan, fifo, mgr, starts, log, cuts>>
    BY DEF IInv, SendFails, ClientsInOrder, Typed, PathOf
  <1>2. call \in Calls
    BY <1>1, CallOfFacts
  <1>3. Goes(c, new)
    BY <1>1 DEF SendFails, Goes, ClientStates
  <1>4. /\ new.at = "idle" /\ new.n = client[c].n /\ new.out = "unsent"
        /\ new.got = client[c].got
    BY <1>1 DEF ClientStates
  <1> HIDE DEF call, new
  <1>5. Typed'
    BY <1>1, <1>2, <1>3, GoesFacts, CallFacts DEF Typed
  <1>6. Once' /\ SentBegun' /\ AtOwn' /\ Heard'
    BY <1>1, <1>3, <1>4, GoesKeeps
  <1>7. ClientsInOrder'
    BY <1>3, <1>4, GoesFacts DEF IInv, ClientsInOrder, Results
  <1>8. PathsOwn'
    BY <1>1, <1>2, CallFacts DEF IInv, PathsOwn, Typed
  <1>9. ReadersWait'
    <2> SUFFICES ASSUME NEW r \in readers
                 PROVE  Current(r)' /\ client'[r[1]].at \in {"join", "wait", "settle"}
      BY <1>1 DEF ReadersWait
    <2>1. r \in Calls /\ r[1] # c
      BY <1>1 DEF IInv, ReadersWait, Typed
    <2> QED
      BY <1>3, <2>1, GoesFacts, CallFacts DEF IInv, ReadersWait
  <1>10. AnswersTrue'
    BY <1>1, <1>3, <1>4, GoesFacts
    DEF IInv, AnswersTrue, ChanTrue, ChanShort, GotTrue, OutTrue, Results
  <1> QED
    BY <1>5, <1>6, <1>7, <1>8, <1>9, <1>10 DEF IInv

LEMMA OpenResponseKeeps ==
  ASSUME IInv, NEW c \in Clients, OpenResponse(c)
  PROVE  IInv'
  <1> DEFINE call == CallOf(c)
             met == mgr.at = "open" /\ mgr.to = call
             new == [client[c] EXCEPT !.at = IF met \/ c \notin Tools THEN "wait"
                                              ELSE "join"]
  <1>1. /\ client[c].at = "sent" /\ client[c].n > 0 /\ client[c].out = "none"
        /\ Typed /\ client[c] \in ClientStates /\ mgr \in MgrStates
        /\ readers' = readers \cup {call}
        /\ mgr' = IF met THEN [mgr EXCEPT !.at = "exec"] ELSE mgr
        /\ UNCHANGED <<file, chan, fifo, starts, log, cuts>>
    BY DEF IInv, OpenResponse, ClientsInOrder, Typed
  <1>2. call \in Calls /\ Current(call) /\ call[1] = c
    BY <1>1, CallOfFacts
  <1>3. Goes(c, new)
    BY <1>1 DEF OpenResponse, ClientGoto, Goes, ClientStates
  <1>4. /\ new.at \in {"join", "wait"} /\ new.n = client[c].n /\ new.out = "none"
        /\ new.got = client[c].got
    BY <1>1 DEF ClientStates
  <1>5. /\ mgr' \in MgrStates
        /\ mgr'.batch = mgr.batch /\ mgr'.to = mgr.to /\ mgr'.cmd = mgr.cmd
        /\ mgr'.res = mgr.res
        /\ \/ mgr'.at = mgr.at
           \/ mgr.at = "open" /\ mgr'.at = "exec" /\ mgr.to = call
    BY <1>1 DEF MgrStates, Busy
  <1> HIDE DEF call, new, met
  <1>6. Typed'
    BY <1>1, <1>2, <1>3, <1>5, GoesFacts DEF Typed
  <1>7. /\ Queued' = Queued /\ Taken' = Taken /\ InHand' = InHand /\ Ran' = Ran
        /\ Sent' = Sent
    BY <1>1, <1>5 DEF Queued, Taken, InHand, Ran, Sent
  <1>8. Once' /\ AtOwn'
    BY <1>1, <1>5, <1>7 DEF IInv, Once, AtMostOnce, AtOwn, Busy
  <1>9. ClientsInOrder'
    BY <1>1, <1>3, <1>4, GoesFacts DEF IInv, ClientsInOrder, Results
  <1>10. SentBegun'
    BY <1>1, <1>3, <1>4, <1>7, GoesFacts, CallFacts, SentAreCalls
    DEF IInv, SentBegun, Sent
  <1>11. PathsOwn'
    BY <1>1 DEF IInv, PathsOwn
  <1>12. ReadersWait'
    <2> SUFFICES ASSUME NEW r \in readers \cup {call}
                 PROVE  Current(r)' /\ client'[r[1]].at \in {"join", "wait", "settle"}
      BY <1>1 DEF ReadersWait
    <2>1. r \in Calls /\ Current(r)'
      BY <1>1, <1>2, <1>3, GoesFacts DEF IInv, ReadersWait, Typed
    <2>2. CASE r[1] = c
      BY <1>3, <1>4, <2>1, <2>2, GoesFacts
    <2>3. CASE r[1] # c
      BY <1>2, <1>3, <2>1, <2>3, GoesFacts, CallFacts DEF IInv, ReadersWait
    <2> QED
      BY <2>2, <2>3
  <1>13. Heard'
    <2> SUFFICES ASSUME NEW s \in Ran \cup (IF mgr'.at = "exec" THEN {mgr.cmd} ELSE {}),
                        Current(s)'
                 PROVE  client'[s[1]].at \notin {"send", "sent"}
      BY <1>1, <1>5, <1>7 DEF Heard
    <2>1. CASE s[1] = c
      BY <1>3, <1>4, <2>1, GoesFacts
    <2>2. CASE s[1] # c
      <3>1. s \in Calls
        BY <1>5, SentAreCalls DEF IInv, AtOwn, Busy
      <3>2. s \in Ran \cup (IF mgr.at = "exec" THEN {mgr.cmd} ELSE {})
        BY <1>2, <1>5, <2>2 DEF IInv, AtOwn, Busy
      <3> QED
        BY <1>3, <2>2, <3>1, <3>2, GoesFacts, CallFacts DEF IInv, Heard
    <2> QED
      BY <2>1, <2>2
  <1>14. ChanShort'
    BY <1>1, <1>5 DEF IInv, AnswersTrue, ChanShort
  <1>15. AnswersTrue'
    BY <1>1, <1>3, <1>4, <1>14, GoesFacts
    DEF IInv, AnswersTrue, ChanTrue, GotTrue, OutTrue, Results
  <1> QED
    BY <1>6, <1>8, <1>9, <1>10, <1>11, <1>12, <1>13, <1>15 DEF IInv

LEMMA ReadKeeps ==
  ASSUME IInv, NEW c \in Clients, Read(c)
  PROVE  IInv'
  <1> DEFINE call == CallOf(c)
             got == client[c].got \o chan[call]
             at == IF c \in Tools THEN "wait" ELSE "settle"
             new == [client[c] EXCEPT !.at = at, !.got = got]
  <1>1. /\ client[c].at \in {"wait", "settle"} /\ client[c].n > 0
        /\ client[c].out = "none"
        /\ Typed /\ client[c] \in ClientStates
        /\ chan' = [chan EXCEPT ![call] = <<>>]
        /\ UNCHANGED <<file, readers, fifo, mgr, starts, log, cuts>>
    BY DEF IInv, Read, ClientsInOrder, Typed
  <1>2. call \in Calls /\ client[c].got \in Seq(Answers) /\ chan[call] \in Seq(Answers)
    BY <1>1, CallOfFacts DEF Typed, ClientStates
  <1>3. got \in Seq(Answers)
    BY <1>2, ConcatProperties
  <1>4. Goes(c, new)
    BY <1>1, <1>3 DEF Read, Goes, ClientStates
  <1>5. /\ new.at \in {"wait", "settle"} /\ new.n = client[c].n /\ new.out = "none"
        /\ new.got = got
    BY <1>1 DEF ClientStates
  <1>6. Tell(log, got, call)
    <2>1. Tell(log, client[c].got, call) /\ Tell(log, chan[call], call)
      BY <1>2 DEF IInv, AnswersTrue, GotTrue, ChanTrue
    <2> QED
      BY <1>2, <2>1, TellBoth
  <1> HIDE DEF call, new, got, at
  <1>7. Typed'
    BY <1>1, <1>2, <1>4, GoesFacts, EmptySeq DEF Typed
  <1>8. Once' /\ SentBegun' /\ AtOwn' /\ Heard'
    BY <1>1, <1>4, <1>5, GoesKeeps
  <1>9. ClientsInOrder'
    BY <1>1, <1>4, <1>5, GoesFacts DEF IInv, ClientsInOrder, Results
  <1>10. PathsOwn'
    BY <1>1 DEF IInv, PathsOwn
  <1>11. ReadersWait'
    <2> SUFFICES ASSUME NEW r \in readers
                 PROVE  Current(r)' /\ client'[r[1]].at \in {"join", "wait", "settle"}
      BY <1>1 DEF ReadersWait
    <2>1. r \in Calls /\ Current(r)'
      BY <1>1, <1>4, GoesFacts DEF IInv, ReadersWait, Typed
    <2>2. CASE r[1] = c
      BY <1>4, <1>5, <2>1, <2>2, GoesFacts
    <2>3. CASE r[1] # c
      BY <1>4, <2>1, <2>3, GoesFacts, CallFacts DEF IInv, ReadersWait
    <2> QED
      BY <2>2, <2>3
  <1>12. ChanTrue' /\ ChanShort'
    BY <1>1, <1>2, EmptySeq DEF IInv, AnswersTrue, ChanTrue, ChanShort, Tell, Typed
  <1>13. GotTrue' /\ OutTrue'
    BY <1>1, <1>4, <1>5, <1>6, GoesFacts DEF IInv, AnswersTrue, GotTrue, OutTrue, Results, call
  <1> QED
    BY <1>7, <1>8, <1>9, <1>10, <1>11, <1>12, <1>13 DEF IInv, AnswersTrue
LEMMA OutcomeFacts ==
  ASSUME NEW body \in BOOLEAN, NEW got \in Seq(Answers), NEW l, NEW call,
         Tell(l, got, call)
  PROVE  /\ Outcome(body, got) \in {"lost"} \cup Results
         /\ Outcome(body, got) \in Results => CameTo(l, call, Outcome(body, got))
  <1>1. CASE got = <<>>
    BY <1>1 DEF Outcome, Results
  <1>2. CASE got # <<>>
    <2>1. 1 \in DOMAIN got /\ got[1] \in Answers
      BY <1>2, EmptySeq, LenProperties, ElementOfSeq
    <2>2. CameTo(l, call, got[1].res) /\ got[1].res \in Results
      BY <2>1 DEF Tell, Answers
    <2> QED
      BY <1>2, <2>2 DEF Outcome, Results
  <1> QED
    BY <1>1, <1>2

\* A client that closes its response FIFO, or is killed, leaves nothing in it.
LEMMA LeaveKeeps ==
  ASSUME IInv, NEW c \in Clients, NEW new, Goes(c, new), client[c].at # "idle",
         new.at \in {"close", "dead"}, new.got = client[c].got,
         new.out # "unsent", new.out \in Results => CameTo(log, CallOf(c), new.out),
         readers' = readers \ {CallOf(c)},
         chan' = [chan EXCEPT ![CallOf(c)] = <<>>],
         UNCHANGED <<file, fifo, mgr, starts, log>>
  PROVE  IInv'
  <1> DEFINE call == CallOf(c)
  <1>1. /\ Typed /\ client[c].n > 0 /\ call \in Calls
        /\ \A r \in Calls : r[1] = c /\ Current(r) => r = call
    BY CallOfFacts DEF IInv, ClientsInOrder
  <1> HIDE DEF call
  <1>2. readers' = readers \ {call} /\ chan' = [chan EXCEPT ![call] = <<>>]
    BY DEF call
  <1>3. Typed'
    <2>1. <<>> \in Seq(Answers)
      BY EmptySeq
    <2>2. chan' \in [Calls -> Seq(Answers)]
      BY <1>1, <1>2, <2>1 DEF Typed
    <2>3. readers' \subseteq Calls
      BY <1>1, <1>2 DEF Typed
    <2> QED
      BY <1>1, <2>2, <2>3, GoesFacts DEF Typed
  <1>4. Once' /\ SentBegun' /\ AtOwn' /\ Heard'
    BY GoesKeeps
  <1>5. ClientsInOrder'
    BY <1>1, GoesFacts DEF IInv, ClientsInOrder, Goes
  <1>6. PathsOwn'
    BY DEF IInv, PathsOwn
  <1>7. ReadersWait'
    <2> SUFFICES ASSUME NEW r \in readers \ {call}
                 PROVE  Current(r)' /\ client'[r[1]].at \in {"join", "wait", "settle"}
      BY <1>2 DEF ReadersWait
    <2>1. r \in Calls /\ Current(r)' /\ r[1] # c
      BY <1>1, GoesFacts DEF IInv, ReadersWait, Typed
    <2> QED
      BY <2>1, GoesFacts, CallFacts DEF IInv, ReadersWait
  <1>8. ChanTrue' /\ ChanShort'
    BY <1>1, <1>2, EmptySeq DEF IInv, AnswersTrue, ChanTrue, ChanShort, Tell, Typed
  <1>9. GotTrue' /\ OutTrue'
    BY GoesFacts DEF IInv, AnswersTrue, GotTrue, OutTrue
  <1> QED
    BY <1>3, <1>4, <1>5, <1>6, <1>7, <1>8, <1>9 DEF IInv, AnswersTrue

LEMMA CloseKeeps ==
  ASSUME IInv, NEW c \in Clients, client[c].at \in {"wait", "settle"}, Close(c)
  PROVE  IInv'
  <1> DEFINE out == Outcome(client[c].body, client[c].got)
             new == [client[c] EXCEPT !.at = "close", !.out = out]
  <1>1. client[c] \in ClientStates /\ client[c].body \in BOOLEAN
        /\ client[c].got \in Seq(Answers)
    BY DEF IInv, Typed, ClientStates
  <1>2. /\ out \in {"lost"} \cup Results
        /\ out \in Results => CameTo(log, CallOf(c), out)
    BY <1>1, OutcomeFacts DEF IInv, AnswersTrue, GotTrue
  <1> HIDE DEF out
  <1>3. Goes(c, new) /\ new.out = out /\ new.got = client[c].got /\ new.at = "close"
    BY <1>1, <1>2 DEF Close, out, Goes, ClientStates
  <1> HIDE DEF new
  <1> QED
    BY <1>2, <1>3, LeaveKeeps DEF Close, Results

LEMMA DieKeeps ==
  ASSUME IInv, NEW c \in Clients, Die(c)
  PROVE  IInv'
  <1> DEFINE new == [client[c] EXCEPT !.at = "dead"]
  <1>1. client[c] \in ClientStates /\ client[c].out # "unsent"
    BY DEF IInv, Typed, ClientsInOrder, Die
  <1>2. /\ Goes(c, new) /\ new.out = client[c].out /\ new.got = client[c].got
        /\ new.at = "dead"
    BY <1>1 DEF Die, ClientGoto, Goes, ClientStates
  <1>3. new.out \in Results => CameTo(log, CallOf(c), new.out)
    BY <1>2 DEF IInv, AnswersTrue, OutTrue
  <1> HIDE DEF new
  <1> QED
    BY <1>1, <1>2, <1>3, LeaveKeeps DEF Die

LEMMA UnlinkKeeps ==
  ASSUME IInv, NEW c \in Clients, Unlink(c)
  PROVE  IInv'
  <1> DEFINE call == CallOf(c)
             new == [client[c] EXCEPT !.at = "idle"]
  <1>1. /\ client[c].at = "close" /\ client[c].n > 0
        /\ Typed /\ client[c] \in ClientStates
        /\ file' = [file EXCEPT ![call] = NoCall]
        /\ UNCHANGED <<readers, chan, fifo, mgr, starts, log, cuts>>
    BY DEF IInv, Unlink, ClientsInOrder, Typed, PathOf
  <1>2. call \in Calls
    BY <1>1, CallOfFacts
  <1>3. Goes(c, new)
    BY <1>1 DEF Unlink, ClientGoto, Goes, ClientStates
  <1>4. /\ new.at = "idle" /\ new.n = client[c].n /\ new.out = client[c].out
        /\ new.got = client[c].got
    BY <1>1 DEF ClientStates
  <1> HIDE DEF call, new
  <1>5. Typed'
    BY <1>1, <1>2, <1>3, GoesFacts, CallFacts DEF Typed
  <1>6. Once' /\ SentBegun' /\ AtOwn' /\ Heard'
    BY <1>1, <1>3, <1>4, GoesKeeps
  <1>7. ClientsInOrder'
    BY <1>1, <1>3, <1>4, GoesFacts DEF IInv, ClientsInOrder
  <1>8. PathsOwn'
    BY <1>1, <1>2, CallFacts DEF IInv, PathsOwn, Typed
  <1>9. ReadersWait'
    <2> SUFFICES ASSUME NEW r \in readers
                 PROVE  Current(r)' /\ client'[r[1]].at \in {"join", "wait", "settle"}
      BY <1>1 DEF ReadersWait
    <2>1. r \in Calls /\ r[1] # c
      BY <1>1 DEF IInv, ReadersWait, Typed
    <2> QED
      BY <1>3, <2>1, GoesFacts, CallFacts DEF IInv, ReadersWait
  <1>10. AnswersTrue'
    BY <1>1, <1>3, <1>4, GoesFacts
    DEF IInv, AnswersTrue, ChanTrue, ChanShort, GotTrue, OutTrue
  <1> QED
    BY <1>5, <1>6, <1>7, <1>8, <1>9, <1>10 DEF IInv

-----------------------------------------------------------------------------
(* The actions of the manager *)

\* A step of the manager that only moves lines, or loses them.
LEMMA LinesMove ==
  ASSUME IInv, UNCHANGED <<client, file, readers, chan, log>>,
         starts' \in 0 .. MaxStarts,
         mgr' \in MgrStates, mgr'.at \in {"down", "poll", "line"},
         fifo' \in [exists : BOOLEAN, lines : Seq(Calls)],
         Len(fifo'.lines) <= PipeMax,
         IsInjective(fifo'.lines), IsInjective(mgr'.batch),
         Queued' \cap Taken' = {}, Queued' \cup Taken' \subseteq Queued \cup Taken
  PROVE  IInv'
  <1>1. Typed'
    BY DEF IInv, Typed
  <1>2. InHand' = {} /\ Ran' = Ran
    BY DEF InHand, Ran
  <1>3. Once'
    BY <1>2 DEF IInv, Once, AtMostOnce
  <1>4. SentBegun'
    BY <1>2 DEF IInv, SentBegun, Sent, Current
  <1>5. ClientsInOrder' /\ PathsOwn' /\ ReadersWait' /\ AtOwn' /\ Heard'
    BY <1>2
    DEF IInv, ClientsInOrder, PathsOwn, ReadersWait, Current, AtOwn, Busy, Heard
  <1>6. AnswersTrue'
    BY DEF IInv, AnswersTrue, ChanTrue, ChanShort, GotTrue, OutTrue, CallOf
  <1> QED
    BY <1>1, <1>3, <1>4, <1>5, <1>6 DEF IInv

\* The manager starts or ends: no line is left.
LEMMA LinesLost ==
  ASSUME IInv, UNCHANGED <<client, file, readers, chan, log>>,
         starts' \in 0 .. MaxStarts,
         mgr' = Down \/ mgr' = [Down EXCEPT !.at = "poll"],
         fifo' \in [exists : BOOLEAN, lines : {<<>>}]
  PROVE  IInv'
  <1>1. /\ mgr' \in MgrStates /\ mgr'.at \in {"down", "poll"} /\ mgr'.batch = <<>>
    <2>1. <<>> \in Seq(Calls)
      BY EmptySeq
    <2>2. \A at \in {"down", "poll"} : /\ [Down EXCEPT !.at = at] \in MgrStates
                                      /\ [Down EXCEPT !.at = at].at = at
                                      /\ [Down EXCEPT !.at = at].batch = <<>>
      BY <2>1 DEF Down, MgrStates
    <2>3. Down = [Down EXCEPT !.at = "down"]
      BY DEF Down
    <2> QED
      BY <2>2, <2>3
  <1>2. /\ fifo' \in [exists : BOOLEAN, lines : Seq(Calls)] /\ fifo'.lines = <<>>
        /\ Len(fifo'.lines) <= PipeMax
    <2>1. <<>> \in Seq(Calls) /\ Len(<<>>) = 0
      BY EmptySeq
    <2>2. PICK e \in BOOLEAN : fifo' = [exists |-> e, lines |-> <<>>]
      OBVIOUS
    <2> QED
      BY <2>1, <2>2, BoundsAssumption
  <1>3. Queued' = {} /\ Taken' = {}
    BY <1>1, <1>2, EmptyHasNothing DEF Queued, Taken
  <1> QED
    BY <1>1, <1>2, <1>3, EmptyHasNothing, LinesMove

LEMMA RestartKeeps ==
  ASSUME IInv, Start \/ Stop \/ Kill
  PROVE  IInv'
  <1>1. fifo \in [exists : BOOLEAN, lines : Seq(Calls)] /\ starts \in 0 .. MaxStarts
    BY DEF IInv, Typed
  <1>2. CASE Start
    BY <1>1, <1>2, LinesLost, BoundsAssumption DEF Start
  <1>3. CASE Stop
    BY <1>1, <1>3, LinesLost DEF Stop, clientVars
  <1>4. CASE Kill
    BY <1>1, <1>4, LinesLost DEF Kill, clientVars
  <1> QED
    BY <1>2, <1>3, <1>4

LEMMA TakeLinesKeeps ==
  ASSUME IInv, NEW n \in 0 .. Len(fifo.lines), TakeLines(n),
         NEW m \in Nat \ {0}, m > n,
         fifo' = [fifo EXCEPT !.lines = SubSeq(fifo.lines, m, Len(fifo.lines))]
  PROVE  IInv'
  <1> DEFINE lines == fifo.lines
             front == SubSeq(lines, 1, n)
             rest == SubSeq(lines, m, Len(lines))
  <1>1. /\ Typed /\ lines \in Seq(Calls) /\ Len(lines) \in Nat /\ Len(lines) <= PipeMax
        /\ IsInjective(lines) /\ ToSet(lines) = Queued
        /\ mgr' = [mgr EXCEPT !.at = "line", !.batch = front]
        /\ UNCHANGED <<client, file, readers, chan, starts, log>>
    BY LenProperties DEF IInv, Typed, Once, Queued, TakeLines
  <1>2. /\ front \in Seq(Calls) /\ IsInjective(front) /\ ToSet(front) \subseteq Queued
    <2>1. 1 \in Nat \ {0} /\ n \in 0 .. Len(lines)
      OBVIOUS
    <2> QED
      BY <1>1, <2>1, SubSeqKeepsInjective
  <1>3. /\ rest \in Seq(Calls) /\ IsInjective(rest) /\ ToSet(rest) \subseteq Queued
        /\ Len(rest) <= Len(lines)
    <2>1. Len(lines) \in 0 .. Len(lines)
      BY <1>1
    <2> QED
      BY <1>1, <2>1, SubSeqKeepsInjective
  <1>4. ToSet(front) \cap ToSet(rest) = {}
    BY <1>1, PartsApart
  <1> HIDE DEF front, rest
  <1>5. mgr' \in MgrStates /\ mgr'.at = "line" /\ mgr'.batch = front
    BY <1>1, <1>2 DEF Typed, MgrStates
  <1>6. /\ fifo' \in [exists : BOOLEAN, lines : Seq(Calls)] /\ fifo'.lines = rest
        /\ Len(rest) <= PipeMax
    <2>1. fifo' = [fifo EXCEPT !.lines = rest]
      BY DEF rest
    <2>2. Len(rest) \in Nat
      BY <1>3, LenProperties
    <2>3. Len(rest) <= PipeMax
      BY <1>1, <1>3, <2>2, BoundsAssumption
    <2> QED
      BY <1>1, <1>3, <2>1, <2>3 DEF Typed
  <1>7. Queued' = ToSet(rest) /\ Taken' = ToSet(front)
    BY <1>5, <1>6 DEF Queued, Taken
  <1>8. starts' \in 0 .. MaxStarts
    BY <1>1 DEF Typed
  <1> QED
    BY <1>1, <1>2, <1>3, <1>4, <1>5, <1>6, <1>7, <1>8, LinesMove

LEMMA ReadLinesKeeps ==
  ASSUME IInv, ReadLines \/ ReadCuts
  PROVE  IInv'
  <1> DEFINE len == Len(fifo.lines)
  <1>1. len \in Nat /\ fifo.lines \in Seq(Calls) /\ ReadMax \in Nat
    BY LenProperties, BoundsAssumption DEF IInv, Typed
  <1>2. CASE ReadLines
    <2>1. SubSeq(fifo.lines, len + 1, len) = <<>>
      BY <1>1, SubSeqEmpty
    <2>2. len \in 0 .. Len(fifo.lines) /\ len + 1 \in Nat \ {0} /\ len + 1 > len
      BY <1>1
    <2>3. /\ TakeLines(len)
          /\ fifo' = [fifo EXCEPT !.lines = SubSeq(fifo.lines, len + 1, Len(fifo.lines))]
      BY <1>2, <2>1 DEF ReadLines
    <2> HIDE DEF len
    <2> QED
      BY <2>2, <2>3, TakeLinesKeeps
  <1>3. CASE ReadCuts
    <2>1. PICK n \in {ReadMax, ReadMax + 1}, m \in {ReadMax + 1, ReadMax + 2} :
            /\ TakeLines(n) /\ m > n
            /\ fifo' = [fifo EXCEPT !.lines = SubSeq(fifo.lines, m, len)]
      BY <1>1, <1>3 DEF ReadCuts
    <2>2. n \in 0 .. len /\ m \in Nat \ {0}
      BY <1>1, <1>3 DEF ReadCuts
    <2> QED
      BY <2>1, <2>2, TakeLinesKeeps
  <1> QED
    BY <1>2, <1>3

LEMMA BatchDoneKeeps ==
  ASSUME IInv, BatchDone
  PROVE  IInv'
  <1>1. mgr' \in MgrStates /\ mgr'.at = "poll" /\ mgr'.batch = mgr.batch
    BY DEF IInv, Typed, MgrStates, BatchDone
  <1>2. /\ Queued' = Queued /\ Taken' = Taken
        /\ UNCHANGED <<client, file, readers, chan, fifo, starts, log>>
    BY <1>1 DEF Queued, Taken, BatchDone, clientVars
  <1> QED
    BY <1>1, <1>2, LinesMove DEF IInv, Typed, Once
LEMMA TakeLineKeeps ==
  ASSUME IInv, TakeLine
  PROVE  IInv'
  <1> DEFINE cmd == Head(mgr.batch)
             left == Tail(mgr.batch)
             to == file[cmd]
             new == [client[cmd[1]] EXCEPT !.at = "wait"]
  <1>1. /\ Typed /\ mgr \in MgrStates /\ mgr.at = "line" /\ mgr.batch \in Seq(Calls)
        /\ mgr.batch # <<>>
        /\ UNCHANGED <<file, readers, chan, fifo, starts, log, cuts>>
    BY DEF IInv, Typed, MgrStates, TakeLine
  <1>2. /\ cmd \in Calls /\ left \in Seq(Calls) /\ cmd \in Taken
        /\ ToSet(left) \subseteq Taken
        /\ IsInjective(left) /\ cmd \notin ToSet(left)
    BY <1>1, TailLeavesRest DEF IInv, Once, Taken
  <1>3. CASE to = NoCall
    <2>1. mgr' = [mgr EXCEPT !.batch = left] /\ client' = client
      BY <1>3 DEF TakeLine, LinesLeft, PathOf
    <2> HIDE DEF left
    <2>2. mgr' \in MgrStates /\ mgr'.at = "line" /\ mgr'.batch = left
      BY <1>1, <1>2, <2>1 DEF MgrStates
    <2>3. Queued' = Queued /\ Taken' = ToSet(left)
      BY <1>1, <2>2 DEF Queued, Taken
    <2>4. /\ starts' \in 0 .. MaxStarts /\ Len(fifo'.lines) <= PipeMax
          /\ fifo' \in [exists : BOOLEAN, lines : Seq(Calls)]
          /\ IsInjective(fifo'.lines) /\ Queued \cap Taken = {}
      BY <1>1 DEF IInv, Typed, Once
    <2>5. Queued' \cap Taken' = {} /\ Queued' \cup Taken' \subseteq Queued \cup Taken
      BY <1>2, <2>3, <2>4
    <2> QED
      BY <1>1, <1>2, <2>1, <2>2, <2>4, <2>5, LinesMove
  <1>4. CASE to # NoCall
    <2>1. to = cmd
      BY <1>2, <1>4 DEF IInv, PathsOwn
    <2>2. /\ mgr' = [mgr EXCEPT !.batch = left, !.at = Opened(cmd), !.to = cmd, !.cmd = cmd]
          /\ client' = Joined(cmd)
      BY <1>4, <2>1 DEF TakeLine, LinesLeft, PathOf
    <2> HIDE DEF left, cmd, to
    <2>3. /\ Opened(cmd) \in {"open", "exec"}
          /\ Opened(cmd) = "exec" => cmd \in readers
      BY DEF Opened
    <2>4. /\ mgr' \in MgrStates /\ mgr'.at = Opened(cmd) /\ mgr'.batch = left
          /\ mgr'.to = cmd /\ mgr'.cmd = cmd
      BY <1>1, <1>2, <2>2, <2>3 DEF MgrStates, Busy
    <2>5. cmd[1] \in Clients
      BY <1>2, CallFacts
    <2>6. \/ client' = client
          \/ client[cmd[1]].at = "join" /\ Goes(cmd[1], new)
      <3>1. PICK c \in Clients : c = cmd[1]
        BY <2>5
      <3>2. client' = client \/ (client[c].at = "join"
                                 /\ client' = [client EXCEPT ![c].at = "wait"])
        BY <2>2, <3>1 DEF Joined
      <3>3. new = [client[c] EXCEPT !.at = "wait"] /\ client[c] \in ClientStates
        BY <1>1, <3>1 DEF Typed
      <3>4. new \in ClientStates /\ new.n = client[c].n /\ new.at = "wait"
        BY <3>3 DEF ClientStates
      <3>5. client' = client \/ (client[c].at = "join"
                                 /\ client' = [client EXCEPT ![c] = new])
        BY <3>2, <3>3
      <3> HIDE DEF new
      <3> QED
        BY <3>1, <3>4, <3>5 DEF Goes
    <2>7. /\ client' \in [Clients -> ClientStates]
          /\ \A c \in Clients :
               /\ client'[c].n = client[c].n /\ client'[c].got = client[c].got
               /\ client'[c].out = client[c].out
               /\ \/ client'[c].at = client[c].at
                  \/ client[c].at = "join" /\ client'[c].at = "wait"
               /\ CallOf(c)' = CallOf(c)
          /\ \A call \in Calls : Current(call)' = Current(call)
      <3>1. CASE client' = client
        BY <1>1, <3>1 DEF Typed, CallOf, Current
      <3>2. CASE client[cmd[1]].at = "join" /\ Goes(cmd[1], new)
        <4>1. /\ new.n = client[cmd[1]].n /\ new.got = client[cmd[1]].got
              /\ new.out = client[cmd[1]].out /\ new.at = "wait"
          BY <1>1, <2>5 DEF Typed, ClientStates
        <4> HIDE DEF new
        <4> QED
          BY <2>5, <3>2, <4>1, GoesFacts
      <3> QED
        BY <2>6, <3>1, <3>2
    <2>8. Typed'
      BY <1>1, <2>4, <2>7 DEF Typed
    <2>9. /\ Queued' = Queued /\ Taken' = ToSet(left) /\ InHand' = {cmd} /\ Ran' = Ran
      BY <1>1, <2>3, <2>4 DEF Queued, Taken, InHand, Ran
    <2>10. Once'
      BY <1>1, <1>2, <2>4, <2>9 DEF IInv, Once, AtMostOnce
    <2>11. Sent' \subseteq Sent /\ Sent \subseteq Calls
      BY <1>2, <2>9, SentAreCalls DEF IInv, Sent
    <2>12. ClientsInOrder'
      BY <2>7 DEF IInv, ClientsInOrder
    <2>13. SentBegun'
      BY <2>7, <2>11, CallFacts DEF IInv, SentBegun
    <2>14. PathsOwn' /\ ReadersWait'
      BY <1>1, <2>7, CallFacts DEF IInv, PathsOwn, ReadersWait, Typed
    <2>15. AtOwn'
      BY <1>2, <2>3, <2>4 DEF AtOwn
    <2>16. Heard'
      <3> SUFFICES ASSUME NEW s \in Ran \cup {cmd}, Current(s)',
                          s = cmd => cmd \in readers \/ cmd \in Ran
                   PROVE  client'[s[1]].at \notin {"send", "sent"}
        BY <2>3, <2>4, <2>9 DEF Heard
      <3>1. s \in Calls
        BY <1>2, SentAreCalls DEF IInv
      <3>2. CASE s \in Ran
        BY <2>7, <3>1, <3>2, CallFacts DEF IInv, Heard
      <3>3. CASE s \in readers
        BY <2>7, <3>1, <3>3, CallFacts DEF IInv, ReadersWait
      <3> QED
        BY <3>2, <3>3
    <2>17. AnswersTrue'
      BY <1>1, <2>3, <2>4, <2>7
      DEF IInv, AnswersTrue, ChanTrue, ChanShort, GotTrue, OutTrue
    <2> QED
      BY <2>8, <2>10, <2>12, <2>13, <2>14, <2>15, <2>16, <2>17 DEF IInv
  <1> QED
    BY <1>3, <1>4

\* What came of a command stays what came of it.
LEMMA LogGrows ==
  ASSUME NEW S, NEW l \in Seq(S), NEW e \in S
  PROVE  /\ \A cmd, res : CameTo(l, cmd, res) => CameTo(Append(l, e), cmd, res)
         /\ \A s, cmd : Tell(l, s, cmd) => Tell(Append(l, e), s, cmd)
         /\ \A cmd, res : e = [cmd |-> cmd, res |-> res] =>
                           CameTo(Append(l, e), cmd, res)
  <1>1. /\ DOMAIN l = 1 .. Len(l) /\ Len(l) \in Nat
        /\ DOMAIN Append(l, e) = 1 .. Len(l) + 1 /\ Append(l, e)[Len(l) + 1] = e
        /\ \A i \in 1 .. Len(l) : Append(l, e)[i] = l[i]
    BY AppendProperties, LenProperties
  <1>2. \A i \in 1 .. Len(l) : i \in 1 .. Len(l) + 1
    BY <1>1
  <1>3. \A cmd, res : CameTo(l, cmd, res) => CameTo(Append(l, e), cmd, res)
    BY <1>1, <1>2 DEF CameTo
  <1>4. Len(l) + 1 \in 1 .. Len(l) + 1
    BY <1>1
  <1> QED
    BY <1>1, <1>3, <1>4 DEF CameTo, Tell
LEMMA ExecuteKeeps ==
  ASSUME IInv, NEW res \in Results, Execute(res)
  PROVE  IInv'
  <1> DEFINE cmd == mgr.cmd
             e == [cmd |-> cmd, res |-> res]
  <1>1. /\ Typed /\ mgr \in MgrStates /\ mgr.at = "exec" /\ cmd \in Calls /\ mgr.to = cmd
        /\ log' = Append(log, e) /\ log \in Seq(Entries) /\ e \in Entries
        /\ mgr' = [mgr EXCEPT !.at = "status", !.res = res]
        /\ UNCHANGED <<client, file, readers, chan, fifo, starts, cuts>>
    BY DEF IInv, Typed, AtOwn, Busy, Execute, clientVars, Entries
  <1>2. /\ mgr' \in MgrStates /\ mgr'.at = "status" /\ mgr'.batch = mgr.batch
        /\ mgr'.to = cmd /\ mgr'.cmd = cmd /\ mgr'.res = res
    BY <1>1 DEF MgrStates, Busy
  <1> HIDE DEF cmd
  <1>3. /\ log' \in Seq(Entries) /\ DOMAIN log = 1 .. Len(log) /\ Len(log) \in Nat
        /\ DOMAIN log' = 1 .. Len(log) + 1 /\ log'[Len(log) + 1] = e
        /\ \A i \in 1 .. Len(log) : log'[i] = log[i]
    BY <1>1, AppendProperties, LenProperties
  <1>4. e.cmd = cmd /\ DOMAIN log' = (DOMAIN log) \cup {Len(log) + 1}
    BY <1>3
  <1> HIDE DEF e
  <1>5. Typed'
    BY <1>1, <1>2, <1>3 DEF Typed
  <1>6. /\ Queued' = Queued /\ Taken' = Taken /\ InHand = {cmd} /\ InHand' = {}
        /\ Ran' = Ran \cup {cmd}
    BY <1>1, <1>2, <1>3, <1>4 DEF Queued, Taken, InHand, Ran, cmd
  <1>7. AtMostOnce'
    <2>1. \A i \in DOMAIN log : log[i].cmd # cmd
      BY <1>6 DEF IInv, Once, Ran
    <2> QED
      BY <1>3, <1>4, <2>1 DEF IInv, Once, AtMostOnce
  <1>8. Once'
    BY <1>1, <1>2, <1>6, <1>7 DEF IInv, Once
  <1>9. Sent' = Sent
    BY <1>6 DEF Sent
  <1>10. ClientsInOrder' /\ SentBegun' /\ PathsOwn' /\ ReadersWait'
    BY <1>1, <1>9 DEF IInv, ClientsInOrder, SentBegun, PathsOwn, ReadersWait, Current
  <1>11. CameTo(log', cmd, res)
    BY <1>1, LogGrows DEF e
  <1>12. AtOwn'
    BY <1>1, <1>2, <1>11 DEF AtOwn
  <1>13. Heard'
    BY <1>1, <1>2, <1>6 DEF IInv, Heard, Current, cmd
  <1>14. ChanShort'
    <2>1. chan[cmd] = <<>>
      <3>1. chan[cmd] \in Seq(Answers) /\ Tell(log, chan[cmd], cmd)
        BY <1>1 DEF IInv, Typed, AnswersTrue, ChanTrue
      <3>2. \A i \in DOMAIN chan[cmd] : cmd \in Ran
        BY <3>1 DEF Tell, CameTo, Ran
      <3>3. DOMAIN chan[cmd] = {}
        BY <1>6, <3>2 DEF IInv, Once
      <3>4. Len(chan[cmd]) = 0
        <4>1. DOMAIN chan[cmd] = 1 .. Len(chan[cmd]) /\ Len(chan[cmd]) \in Nat
          BY <3>1, LenProperties
        <4>2. Len(chan[cmd]) # 0 => 1 \in DOMAIN chan[cmd]
          BY <4>1
        <4> QED
          BY <3>3, <4>2
      <3> QED
        BY <3>1, <3>4, EmptySeq
    <2> QED
      BY <1>1, <1>2, <2>1 DEF IInv, AnswersTrue, ChanShort
  <1>15. ChanTrue' /\ GotTrue' /\ OutTrue'
    BY <1>1, LogGrows DEF IInv, AnswersTrue, ChanTrue, GotTrue, OutTrue, CallOf
  <1> QED
    BY <1>5, <1>8, <1>10, <1>12, <1>13, <1>14, <1>15 DEF IInv, AnswersTrue

\* A write of the manager is a true answer to the call at whose FIFO it is.
LEMMA WriteFacts ==
  ASSUME IInv, NEW part \in {"status", "body"}, mgr.at \in {"status", "body"},
         Write(part), UNCHANGED log
  PROVE  /\ chan' \in [Calls -> Seq(Answers)] /\ ChanTrue'
         /\ Len(chan'[mgr.to]) <= Len(chan[mgr.to]) + 1
         /\ \A call \in Calls \ {mgr.to} : chan'[call] = chan[call]
  <1> DEFINE a == [cmd |-> mgr.cmd, res |-> mgr.res, part |-> part]
  <1>1. /\ chan \in [Calls -> Seq(Answers)] /\ mgr.to \in Calls /\ mgr.to = mgr.cmd
        /\ CameTo(log, mgr.cmd, mgr.res) /\ ChanTrue
        /\ log \in Seq(Entries)
    BY DEF IInv, Typed, AtOwn, Busy, AnswersTrue
  <1>2. a \in Answers /\ a.cmd = mgr.to /\ CameTo(log, mgr.to, a.res)
    <2>1. \A i \in DOMAIN log : log[i] \in Entries
      BY <1>1, ElementOfSeq, LenProperties
    <2>2. mgr.res \in Results
      BY <1>1, <2>1 DEF CameTo, Entries
    <2> QED
      BY <1>1, <2>2 DEF Answers
  <1> HIDE DEF a
  <1>3. \A call \in Calls : Len(chan[call]) \in Nat
    BY <1>1, LenProperties
  <1>4. CASE mgr.to \in readers
    <2>1. chan' = [chan EXCEPT ![mgr.to] = Append(chan[mgr.to], a)]
      BY <1>4 DEF Write, a
    <2>2. /\ Append(chan[mgr.to], a) \in Seq(Answers)
          /\ Len(Append(chan[mgr.to], a)) = Len(chan[mgr.to]) + 1
      BY <1>1, <1>2, AppendProperties
    <2>3. Tell(log, Append(chan[mgr.to], a), mgr.to)
      BY <1>1, <1>2, TellOne DEF ChanTrue
    <2> QED
      BY <1>1, <1>3, <2>1, <2>2, <2>3 DEF ChanTrue
  <1>5. CASE mgr.to \notin readers
    BY <1>1, <1>3, <1>5 DEF Write, ChanTrue
  <1> QED
    BY <1>4, <1>5

LEMMA SendKeepsTrue ==
  ASSUME IInv, SendStatus \/ SendBody
  PROVE  IInv'
  <1>1. /\ Typed /\ mgr \in MgrStates
        /\ UNCHANGED <<client, file, readers, fifo, starts, log, cuts>>
    BY DEF IInv, Typed, SendStatus, SendBody, clientVars
  <1>2. /\ chan' \in [Calls -> Seq(Answers)] /\ ChanTrue'
        /\ Len(chan'[mgr.to]) <= Len(chan[mgr.to]) + 1
        /\ \A call \in Calls \ {mgr.to} : chan'[call] = chan[call]
    BY <1>1, WriteFacts DEF SendStatus, SendBody
  <1>3. /\ mgr.at \in {"status", "body"} /\ mgr.to \in Calls
        /\ mgr' \in MgrStates /\ mgr'.batch = mgr.batch
        /\ \/ mgr.at = "status" /\ mgr'.at = "body" /\ mgr'.to = mgr.to
                /\ mgr'.cmd = mgr.cmd /\ mgr'.res = mgr.res
           \/ mgr.at = "body" /\ mgr'.at = "line"
    BY <1>1 DEF IInv, AtOwn, SendStatus, SendBody, MgrStates, Busy
  <1>4. Typed'
    BY <1>1, <1>2, <1>3 DEF Typed
  <1>5. /\ Queued' = Queued /\ Taken' = Taken /\ InHand' = InHand /\ Ran' = Ran
        /\ Sent' = Sent
    BY <1>1, <1>3 DEF Queued, Taken, InHand, Ran, Sent
  <1>6. Once' /\ SentBegun'
    BY <1>1, <1>3, <1>5 DEF IInv, Once, AtMostOnce, SentBegun, Current
  <1>7. ClientsInOrder' /\ PathsOwn' /\ ReadersWait' /\ AtOwn'
    BY <1>1, <1>3
    DEF IInv, ClientsInOrder, PathsOwn, ReadersWait, Current, AtOwn, Busy
  <1>8. Heard'
    BY <1>1, <1>3, <1>5 DEF IInv, Heard, Current
  <1>9. ChanShort'
    <2>1. \A call \in Calls : Len(chan[call]) \in Nat /\ Len(chan'[call]) \in Nat
      BY <1>1, <1>2, LenProperties DEF Typed
    <2>2. Len(chan[mgr.to]) <= 1 /\ (mgr.at = "status" => Len(chan[mgr.to]) = 0)
      BY <1>3, EmptySeq DEF IInv, AnswersTrue, ChanShort
    <2>3. /\ Len(chan'[mgr.to]) <= Len(chan[mgr.to]) + 1
          /\ Len(chan[mgr.to]) \in Nat /\ Len(chan'[mgr.to]) \in Nat
      BY <1>2, <1>3, <2>1
    <2>4. /\ Len(chan'[mgr.to]) <= 2
          /\ mgr.at = "status" => Len(chan'[mgr.to]) <= 1
      BY <2>2, <2>3
    <2>5. \A call \in Calls : Len(chan'[call]) <= 2
      BY <1>2, <2>4 DEF IInv, AnswersTrue, ChanShort
    <2> QED
      BY <1>3, <2>4, <2>5 DEF ChanShort
  <1>10. GotTrue' /\ OutTrue'
    BY <1>1 DEF IInv, AnswersTrue, GotTrue, OutTrue, CallOf
  <1> QED
    BY <1>2, <1>4, <1>6, <1>7, <1>8, <1>9, <1>10 DEF IInv, AnswersTrue

-----------------------------------------------------------------------------
(* The theorems *)

LEMMA StutterKeeps ==
  ASSUME IInv, UNCHANGED vars
  PROVE  IInv'
  <1>1. UNCHANGED <<client, file, readers, chan, fifo, mgr, starts, log>>
    BY DEF vars
  <1> QED
    BY <1>1, LinesStay
    DEF IInv, Typed, ClientsInOrder, SentBegun, PathsOwn, ReadersWait, Current, Heard,
        AnswersTrue, ChanTrue, ChanShort, GotTrue, OutTrue, CallOf

LEMMA NextKeeps == IInv /\ [Next]_vars => IInv'
  <1> SUFFICES ASSUME IInv, [Next]_vars PROVE IInv'
    OBVIOUS
  <1>1. ASSUME NEW c \in Clients, ClientStep(c) PROVE IInv'
    BY <1>1, SendKeeps, SendFailsKeeps, OpenResponseKeeps, ReadKeeps, CloseKeeps,
       UnlinkKeeps
    DEF ClientStep, Settled, ReadEnds, Ended, GiveUp, TimedOut
  <1>2. CASE Serve
    BY <1>2, ReadLinesKeeps, TakeLineKeeps, ExecuteKeeps, SendKeepsTrue, BatchDoneKeeps
    DEF Serve
  <1>3. CASE Tick \/ UNCHANGED vars
    BY <1>3, StutterKeeps DEF Tick
  <1> QED
    BY <1>1, <1>2, <1>3, BeginKeeps, DieKeeps, RestartKeeps DEF Next, Fail

\* Every reachable state satisfies the inductive invariant.
THEOREM CallsInvariant == Spec => []IInv
  BY InitHolds, NextKeeps, PTL DEF Spec

\* The types are right in every reachable state; a response FIFO never holds
\* more than a status and a body.
THEOREM FifoTypeCorrect == Spec => []TypeOK
  <1>1. IInv => TypeOK
    BY DEF IInv, Typed, TypeOK, ClientStates, MgrStates, Busy, Answers, AnswersTrue,
           ChanShort
  <1> QED
    BY <1>1, CallsInvariant, PTL

\* No command is executed twice: a line is in one place at most, from the
\* pipe to the log, however clients and managers end.
THEOREM CommandsRunOnce == Spec => []AtMostOnce
  <1>1. IInv => AtMostOnce
    BY DEF IInv, Once
  <1> QED
    BY <1>1, CallsInvariant, PTL

\* Whatever a client reads answers the call it is in.
THEOREM AnswersReachTheirCall == Spec => []OwnAnswer
  <1>1. IInv => OwnAnswer
    BY DEF IInv, AnswersTrue, GotTrue, Tell, OwnAnswer
  <1> QED
    BY <1>1, CallsInvariant, PTL

\* What a client is told happened, and what it is told is not sent never
\* happens.
THEOREM ClientsAreToldTheTruth == Spec => []ToldTruth
  <1>1. ASSUME IInv PROVE ToldTruth
    <2> SUFFICES ASSUME NEW c \in Clients
                 PROVE  /\ client[c].out \in Results =>
                             CameTo(log, CallOf(c), client[c].out)
                        /\ client[c].out = "unsent" =>
                             /\ \A i \in DOMAIN log : log[i].cmd # CallOf(c)
                             /\ ~Contains(fifo.lines \o mgr.batch, CallOf(c))
      BY DEF ToldTruth, CameTo
    <2>1. CallOf(c)[1] = c /\ Current(CallOf(c))
      BY <1>1, CallOfFacts DEF IInv
    <2>2. client[c].out = "unsent" => CallOf(c) \notin Sent
      BY <1>1, <2>1 DEF IInv, SentBegun
    <2>3. CallOf(c) \notin Ran => \A i \in DOMAIN log : log[i].cmd # CallOf(c)
      BY DEF Ran
    <2>4. CallOf(c) \notin Queued \cup Taken =>
            ~Contains(fifo.lines \o mgr.batch, CallOf(c))
      <3> DEFINE both == fifo.lines \o mgr.batch
      <3>1. fifo.lines \in Seq(Calls) /\ mgr.batch \in Seq(Calls)
        BY <1>1 DEF IInv, Typed, MgrStates
      <3>2. ToSet(both) = Queued \cup Taken /\ both \in Seq(Calls)
        BY <3>1, ConcatHasBoth, ConcatProperties DEF Queued, Taken
      <3> HIDE DEF both
      <3>3. DOMAIN both = 1 .. Len(both)
        BY <3>2, LenProperties
      <3>4. Contains(both, CallOf(c)) => CallOf(c) \in ToSet(both)
        BY <3>3 DEF Contains, ToSet
      <3> QED
        BY <3>2, <3>4 DEF both
    <2> QED
      BY <1>1, <2>2, <2>3, <2>4 DEF IInv, AnswersTrue, OutTrue, Sent
  <1> QED
    BY <1>1, CallsInvariant, PTL

\* Nothing runs before its client listens.
THEOREM ClientsListenFirst == Spec => []HeardBeforeRun
  <1>1. ASSUME IInv PROVE HeardBeforeRun
    BY <1>1, CallOfFacts DEF IInv, Heard, HeardBeforeRun, Ran
  <1> QED
    BY <1>1, CallsInvariant, PTL
=============================================================================
